# Sentinel SRE — verification project

TLA+ models of Sentinel (`sentinel-ai/app`) and of the fault injection it is
demonstrated on, the TLC runs that check them on small instances, and TLAPS
proofs of the results that matter for every instance. All paths below are
relative to `src/`; without a directory, to `sentinel-ai/app`.

## 1. The system

Sentinel is one FastAPI process, one replica: an asyncio event loop, a
threadpool on which FastAPI runs every endpoint that is a plain `def`, and a
SQLite store behind one connection and one lock. Alertmanager posts alerts; a
Kubernetes poll raises its own; Sentinel opens an *incident*, runs a *lifecycle*
(investigate, root cause, decide, policy, remediate, validate, document,
notify, learn), and escalates to a human what it may not or cannot fix.

### Inventory

| Component (file under `sentinel-ai/app`) | State | Operations | Interacts with | What is hard | What makes it correct |
|---|---|---|---|---|---|
| Incident record (`models/incident.py`) | status, escalation reason, attempts, reopen count, deep proposals, timeline | created, saved whole, read back | everything | several writers save the same row whole | bounds hold for what was really done; results are never lost |
| Incident manager (`lifecycle/incident_manager.py`) | `_live` (lease table), semaphore, tasks | `handle_alert`, `handle_resolved`, `auto_resolve_incident`, `try_acquire`/`release`, `start_manual_reinvestigation`, `start_suggest_fix`, `recover_interrupted`, `shutdown` | called by webhook router, Kubernetes watch, admin routers; spawns orchestrator coroutines | events during a lifecycle, restart | one writer; one open incident per problem; never repeats work blindly |
| Orchestrator (`lifecycle/orchestrator.py`) | `_target_locks`; the in-memory `Incident` | `run`, `reconsider`, `suggest_fix`, `authorize_and_remediate(_deep)`, `_finish` | policy, remediation, validation, store | awaits between decision and effect; several incidents of one Deployment | serialised remediation; fresh evidence; caps; every lifecycle ends |
| Admin requests (`routers/authorizations.py`, `routers/reinvestigate.py`) | none of their own | authorise, authorise deep, reject, re-run, suggest fix | manager lease, store, orchestrator | threads: read, then lease, then act | acts once, on what is current |
| Store (`store/sqlite_store.py`) | tables | upsert, find newest, list by status, recent actions | all | whole-row last-writer-wins | safe because of the lease |
| Policy engine (`lifecycle/policy.py`) | live `PolicyConfig` | `evaluate`, `evaluate_deep_proposal` | orchestrator, config router | live edits; cooldown across incidents | deny-lists, cap and cooldown always win |
| Remediation (`lifecycle/remediation.py`) | `dry_run` | `execute`, `execute_deep` | Kubernetes | the cluster moves between decision, re-read and patch; answers get lost | only what policy allows at the write; nothing malformed |
| RCA, decision, learning, memory | outcome table | root cause, candidates, bias, record outcomes | orchestrator, reasoner | sums at the gates, repeated rows | past outcomes unlock no action, the reasoner no rollback |
| Evidence signature | none (pure) | `compute_signature`, `material_changes` | re-check | missing metrics | jitter is not a change |
| Deep investigation loop | budget counters and trace of one run | turns, tool calls, one proposal | reasoner, policy, remediation | malformed turns, failing tools, a config that changes before the write | ends within its bounds; its trace is true; writes stay inside |
| Validation (`lifecycle/validation.py`) | polling state | `validate` | Kubernetes, Prometheus | the old Pods still answer | a pass is about what was written |
| Reasoner health (`reasoning/health.py`) | failure count, open-until | record, query | every LLM call | late answers, probes | opens, recovers |
| Kubernetes watch (`lifecycle/k8s_watch.py`) | per-Deployment debounce | poll | manager | restart, changing reasons, absorption | a down Deployment gets an incident; recovery closes it |
| Config administration (`routers/config.py`, `*_admin.py`) | live config objects, overrides, history | preview, apply, restore | policy, validator, remediation | concurrent applies, partial failure | running = stored |
| Environments (`routers/environments.py`) | active context | register | replaces the orchestrator | lifecycles on the old one | — |
| Event bus (`core/events.py`) | bounded queues | subscribe, publish | persist, GUI | slow subscriber | newest event is kept |
| Chaos controllers (`citizen-service`, `notification-service`) and their client | fault flags, burner, leak | update, reset | GUI, remediation | effects outside the lock, retried resets | a successful reset is a remedy |
| Documentation, replay, evaluation, risk, metric and log clients, auth, dashboards, front ends, manifests | — | — | — | numeric, I/O or presentation | not modelled, see section 8 |

### How the modelled parts interact

* A webhook handler runs on the event loop under the manager's lock without an
  `await`: it is atomic with respect to every task. It creates an incident and
  spawns a task, folds a repeat into the live object, or schedules a re-check.
* A task waits for a slot of the semaphore, then runs on the event loop from
  `await` to `await`. It owns the lease, hence the in-memory object it saves.
* `POST …/authorize`, `…/deep-proposals/{id}/authorize` and `…/reject` run on a
  thread: anything may happen between their read and their next step. The first
  two take the lease for the copy they read, then run as a background task.
* At startup `recover_interrupted` runs before anything is served.
* The Kubernetes watch is one coroutine; it talks to the manager as a webhook
  does, but its own reads are awaits, so the manager, the cluster and
  Alertmanager move on between the list it evaluates and what it reports.
* The configuration endpoints change the live policy, validation, remediation,
  reasoner and client objects in place, from threads, while lifecycles read them.
* All lifecycles share one reasoner and its circuit breaker.

The hazards of the whole repository, each at its line, are in `PROJECT.json`.

## 2. The modules

Three groups, each with its own state:

**The incident engine**: who works on which incident, what is saved when.

| Module | Models | Correspondence |
|---|---|---|
| `IncidentRecords` | the record | an incident is `<<problem, occurrence>>`; `count` is `action_count` (attempts with a result), `tried`/`stamp` which actions and when, `digs`/`digging` the deep-investigation counter and flag |
| `IncidentManager` | manager, lease, store rows, restart | `store` = SQLite rows, `live` = `_live`, `run[i][w]` = the task of writer `w` on incident `i` with the object it owns; `handle_alert`, `handle_resolved`, `auto_resolve_incident`, `CrashAndRestart` (process death, then `recover_interrupted`) |
| `Orchestrator` | a lifecycle, from await to await | `EnterSlot`, `Investigated`, `Analysed`, `TryCandidate` (policy under the target lock), `Executed`, `Validated`, `Dug`, `Suggested`, `Recheck`, `InternalError`, `Finished`; `lock` = `_target_locks` |
| `Authorizations` | administrators' requests | `reinvestigate`, `suggest_fix` (one step); `authorize_incident`/`authorize_deep_proposal` → `Granted` → `Authorised` → `AuthChecked` → `AuthExecuted` → `AuthValidated` → `AuthFinished`; `reject_deep_proposal` → `RejectReads` → `RejectWrites` |
| `IncidentEngine` | composition, `Spec`, `FairSpec`, properties | `HumanOps = {}` gives the autonomous engine |
| `IncidentPromise` | abstract specification | phases absent/working/waiting/closed and the number of actions, from `docs/incident-engine.md` §3–6 |
| `K8sWatch` | `lifecycle/k8s_watch.py` on top of `IncidentManager` | `watch[d]` = `_DeploymentWatchState`, `snap` = the answer of `list_deployments`, `poll` = where the coroutine awaits; `ListDeployments`, `Reconcile` (`_reconcile_stale_pod_incidents`), `Evaluate` (`_evaluate`), `EndPoll`, and `HandlerRaises`, with which an unguarded call of the manager ends the coroutine (`Ended`); `ClusterChanges`, `AlertmanagerFires/Resolves`, `RestartForgets` around it. Of lifecycles only what they save is kept |

**What one lifecycle decides and does.**

| Module | Models | Correspondence |
|---|---|---|
| `Diagnosis` | `correlation.py`, `rca.py`, `learning.py`, `memory.py`, `decision.py`, `policy.py` as operators | `Correlate`, `Analyse`, `Enrich`, `LearningBias`, `MergeBias`, `Candidates`, `Allowed`: evidence in, authorised plan out |
| `Remediation` | the closed loop against a Deployment others change | `Investigate` → `Decide` → `CheckPolicy` → `Restart`/`Scale`/`Reset`/`Reread`+`Rollback` → `Settle` → `Poll`, and round again (`NextCycle`); `cluster` = ReplicaSet history and pod template; `ControllerActs`, `RolloutCompletes`, `Deploy`, `Undo`, `Prune`, `Accident` are everybody else |
| `ReasonerHealth` | `reasoning/health.py` | `failures` = `consecutive_failures`, `open` = "now < `_open_until`" |
| `DeepProposals` | `_build_*_target`, `evaluate_deep_proposal`, `execute_deep` as operators | `Grounded` → `Eligible`/`EligibleTarget` → `Refused`/`Written` |
| `DeepInvestigation` | the reasoner's conversation and what becomes of its proposal | `run[c]` = the locals of `investigate_deep` with its `DeepInvestigationTrace`; `NoAnswer`, `Useless`, `GivesUp`, `Proposes`, `Raises`, `Requests`, `ToolAnswers`; then `Authorise` → `Recheck` → `Execute` → `Validate` |

**Around them.**

| Module | Models | Correspondence |
|---|---|---|
| `Administration` | `routers/config.py`, the five `*_admin.py`, `routers/environments.py`, startup | `contexts` = the `SentinelContext`s built so far, with the engines' copies of policy fields; `overrides`, `history`, `environments` = the tables; an apply is `Submit` → `Mutate` → `AfterApply` (policy, AI) or `sync_environment_record` → `StoreRecord` (monitoring) → `set_config_override` per field → `AuditApplied`, each a step of its thread |
| `ChaosControl` | `chaos/state.py` and `routers/chaos.py` of both services, `clients/chaos_client.py` | `thread[t]` = a request on a Pod: `ChangeState` under the lock, then `ApplyBurner`, `ApplyLeak` outside it; `client` = `ChaosClient.reset` with its retries |

`IncidentTypes`, `IncidentLease`, `IncidentLedger`, `WatchSafety`, `DeepSafety`,
`RemediationSafety`, `AdministrationSafety` and `ChaosSafety` hold proofs
(section 6); `MC*` modules hold the instances for TLC.

`clock`, `acted`, `newest` and `deep` (together `worldVars`) and `launched`,
`firing` are history variables of the engine: what was really done to the
cluster, what was started without a human, and Alertmanager's last word. So are
`alerts` in `K8sWatch`, `injected` in `ChaosControl`, `foreign` in
`Remediation`, `orderly` and `raced` in `Administration`, `misses` and `ran` in
`DeepInvestigation`. The code reads none of them. `clock[d]` is also the source
of the time stamps that order actions and evidence on one Deployment.

### How the groups fit

`Orchestrator` lets evidence, policy and cluster answer anything; `Remediation`
is one lifecycle with those answers worked out, so a behaviour of `Remediation`
is one the engine allows. What several incidents do to one another is the
engine's business (locks, lease, freshness), and enters `Remediation` only as
`cooling` (actions of other incidents within the cooldown) and as changes by
others. `DeepInvestigation` likewise stands for what `Orchestrator!Dug` and
`Authorizations` leave open. `K8sWatch` extends `IncidentManager` itself: its
alerts run the manager's own operators.

### Abstractions

* Time is a nondeterministic choice: recurrence gap, re-check interval, cooldown,
  correlation window and wall-clock bounds may have elapsed or not at each test.
  In `K8sWatch` the debounce is counted in polls. In `Remediation` the settle
  time is longer than the Deployment controller takes to act on a patch.
* In `Orchestrator`, evidence, reasoner, policy thresholds and the cluster answer
  nondeterministically. The action cap, the already-attempted filter and the
  freshness check are the code's. So are all statuses, saves, early returns and
  exits, the exceptions included: of a cycle and its deep investigation
  (`InternalError`), of `suggest_fix` (`Suggested`, which may also decline at once)
  and of the marking of a used grant (`Decline` in `AuthExecuted`).
* `asyncio.Lock` and the semaphore serve in FIFO order; the model lets any
  waiter in, which allows more behaviours.
* A handler on the event loop is atomic also with respect to the threads. The
  threads' own steps are a read, a lease operation or a write each.
* A failing SQLite write of an incident is not modelled (`_persist` logs it and
  goes on), but one that `handle_alert` or `handle_resolved` raise in the watch
  is, as a failure before anything is saved (`HandlerRaises`; in the code it may
  also come after an interruption has been saved or a re-check spawned); a
  failure to record a grant is (`Authorised`), and so is one of a configuration
  write.
* `temporary_authorizations` rows are not modelled: `get_valid_temporary_authorization`
  has no caller.
* `Diagnosis`: a metric is a *sign*, already compared with its threshold.
  Confidences and multipliers are integers in ten-thousandths. The deny, allow,
  namespace and stateful lists are one verdict `permitted`. Init containers count
  for `Malformed`, not for the image comparison.
* `Administration`: a field stands for those validated and copied alike; all
  `setattr`s of one change are one step; a value of the wrong type is an unknown
  field; environments are stored in registration order; that registering may fail
  after its upsert is left out. Monitoring overrides are stored and never loaded
  at startup — the environment record carries them — as in the code.
* `DeepInvestigation`: prompt and transcript text is left out; a tool's answer
  is the Pods it names (`Shown`): a listing that failed is answered with none
  and marked a success, as `list_pods` returns `[]` on an API error, so an entry
  marked a success says that the tool answered, not that it saw something.
  Containers of log requests follow the same rule as Pods and are left out.
  `permitted` includes the action cap. The engine's replica band is the policy's
  (`EnginesAgree` says so). A trace leaves the model once its proposal is
  authorised.
* `ChaosControl`: a call of `reset` may fail before anything is sent (no token)
  or at once on an error that is not transient. Latency, error rate, database
  and notification failure are state with no side effect, one flag `soft`. With
  `SerialFaults` the operator's requests overlap no other on their Pod; resets
  overlap resets.

## 3. The runs

### Bounds and results

Nine passing runs, together 40 properties:

| Run | Instance | Shows |
|---|---|---|
| `Contention` | 2 incidents of one Deployment, 2 actions, cap 2, 1 reopen, 2 slots, 2 cycles, 3 starts | `OneRemediationPerTarget`, `LockIsOwned`, `AuditComplete`, `FreshEvidence` |
| `Recurrence` | 1 problem, 2 occurrences, 3 actions, cap 2, 1 reopen, 2 cycles, 2 restarts, 5 starts, the actions symmetric | `NoOrphan`, `OneOpenPerProblem`, `NoUnattendedRetry`, `LaunchBudget`, `ActionBudget`, `ClosedIsFinal`, `NoLostResult`, and that the autonomous engine implements `IncidentPromise` (`KeepsPromise`) |
| `Progress` | 2 incidents, 1 slot, 2 cycles, 1 reopen, `FairSpec` | `LeaseEnds`: slot and lock together cannot block or starve |
| `Requests` | 1 incident, 1 administrator, every request, 1 deep proposal, 1 restart | `TypeOK`, `SingleWriter`, `DeepProposalOnce` |
| `Watch` | 1 Deployment, 0–1 desired and available replicas, 2 occurrences, 1 Pod replacement, 2 changes or failed calls, debounce of 1 poll, Alertmanager reporting the same problem, 1 restart, failing handlers, `FairWatch` | `OutageIsReported` (liveness, while the watch lives), `QuietWorldIsQuiet`, `ReconciliationIsExact` |
| `Chaos` | 2 Pods, 2 request threads, 2 attempts, 2 faults, 1 killed Pod, `FairSpec` | `EffectsConverge`, `SuccessIsRemedy`, `ResetReturns` (liveness), `TypeOK` |
| `Remediation` | a good, a broken, a fixed and a placeholder build; the API on, off or in dry run; three outages of evidence; four pictures; no past, always failed, corrupted rows; a reasoner that proposes certainty; 2 cycles, 2 polls, 1 change by others | `NeverMalformed`, `PassMeansRolledOut`, `ReasonerTipsNoRollback`, `LearningOnlyCautions`, `TypeOK` |
| `Administration` | 2 administrators, 3 requests out of 11 changes, restores and a registration, 1 failing write, restarts without limit | `BoundsHold`, `EnginesAgree`, `RestartChangesNothing`, `HistoryIsAChain`, `TypeOK` |
| `Reasoning` | 2 lifecycles sharing a breaker with threshold 2, 3 turns, 2 tool calls, 2 malformed turns, 1 investigation, enrichments without limit, 8 proposals, 4 policies, 1 change of the world, outages without limit, `FairSpec` | `TraceIsTrue`, `LogsOfSeenPods`, `OutageIsBrief`, `WritesStayInside`, `InvestigationsEnd` and `CircuitRecloses` (liveness), `TypeOK` |

Three runs whose property a comment of the repository states and the code does
not keep; `PROJECT.json` quotes the lines:

| Run | What TLC finds |
|---|---|
| `DeepTwice` | Two administrators authorise one deep proposal; both read it as `suggested` before the first takes the lease, and it is carried out twice. |
| `StaleRollback` | A rollout completes between the decision and the rollback. The re-read list is searched for the plan's revision only, so the rollback undoes a revision nobody investigated. |
| `ForgottenOverrides` | A registered environment gets a context built from the settings; stored overrides are out of force until a restart. |

The bounds are the smallest at which each contested resource is contested: two
incidents for one lock and one slot, two actions so that a failed one leaves
another and three so that the cap of two binds, two cycles so that evidence is
refreshed, two restarts because "resumed once" needs a second one, two
occurrences for a recurrence and for a reconciliation that could close the wrong
one; two Pods and two threads so that a retry meets its predecessor and another
Pod; two lifecycles so that one's late failure re-arms the other's breaker; one
failing write because each apply stops at its first. `Max…` constants that the
code has no setting for bound the instances and stand in the guards; the other
constants are the code's configuration. Nothing in the engine tells one action from
another, and the properties of `Recurrence` are invariants and action properties,
so its actions are symmetric. `CHECK_DEADLOCK FALSE` is said of
`Remediation` alone: when its incidents and disturbances are used up and nothing
is pending, nothing is left to happen.

In `Diagnosis`, four sums that equal a gate exactly in ten-thousandths are a hair
below it in the code's binary floating point (0.95 − 0.05; 0.95 + 0.03 − 0.03
with logs missing; 0.96 − 0.03 − 0.03 on two fallbacks). There the model allows
an action that the code denies; no property relies on the denial.

Every property of a passing run has a mutant in `PROJECT.json`: an operator
that changes one definition as a plausible bug would (`LockFree_Ignored`,
`Evaluated_Restarts`, `Written_Trusting`, …), under which TLC reports the
property violated.

### Divergences read in the code and not given a run

Engine and watch; the first eight are behaviours of these modules with
administrators or a restart enabled, and TLC finds each when it is stated:

* `routers/authorizations.py:127` — an incident closes between an
  authorisation's read and its lease; the stale copy reopens the closed record,
  and a second authorisation can overwrite the result of a first one.
* `lifecycle/orchestrator.py:482` — an authorised action takes no target lock and
  overlaps another incident's lifecycle on the Deployment.
* `lifecycle/incident_manager.py:686` — a crash during an authorised action
  leaves `investigating` and no result; startup resumes it autonomously.
* `lifecycle/policy.py:559` — a deep execution is not counted, so cap + 1 actions
  can be executed for one incident, and `_join_escalated` may reopen it
  (`models/incident.py:229-231` says never).
* `lifecycle/incident_manager.py:651` — a crash during an autonomous action: the
  attempt was not saved first, and the record says that nothing was executed.
* `lifecycle/orchestrator.py:858` — the automatic deep investigation does not look
  at its budget; a reopening spends another.
* `lifecycle/incident_manager.py:353` — a resolved notification during a lifecycle
  is only noted; if the incident then escalates it stays open.
* `lifecycle/k8s_watch.py:97` — `notified` is lost on a restart, on a change of
  the replica numbers, and when `list_deployments` answers an error with `[]`; the
  recovery is then never told, although `_evaluate` says it is.
* `lifecycle/k8s_watch.py:390` — the poll loop catches `CancelledError` only, and
  `_evaluate` calls `handle_alert` (325) and `handle_resolved` (350) unguarded: one
  failed read of the store ends the watch until a restart, and nobody looks at
  the finished task. The docstring (376-379) says that every iteration "swallows
  its own errors (see `_evaluate`) so one bad poll [...] does not stop future polls
  from running". `HandlerRaises` is that end, and `OutageIsReported` claims
  nothing after it.
* `reject_deep_proposal` looks at the lease once and then reads and writes
  without it; a whole re-run fits in between and its outcome is overwritten.
* A repeat alert during a deep investigation saves `deep_investigation_running =
  true`; after a crash nothing clears it (`models/incident.py:1391-1395` says it cannot).
* `core/config.py:204-206` says that with `deep_investigation_enabled` false
  `_maybe_deep_investigate` is never called; only `suggest_fix` reads the setting.
* A transient failure is recorded as an attempt with a result, so the "retry"
  after re-investigation can never choose the same action.

Watch: a Deployment that fails again within the recurrence gap is absorbed and
not reported again; a failed `get_deployment` reads as "no annotation", so a
planned scale to zero is reported.

Chaos: with `SerialFaults = FALSE`, TLC finds that a fault whose side effects
overlap a reset's leaves the burner on with the state saying off, and that the
next reset, seeing no change, does not heal it (`citizen-service/app/chaos/state.py:250-256`
says "until the next call"). `EffectsConverge` and `SuccessIsRemedy` are
therefore about resets among themselves.

Remediation: the reasoner's +0.03 lifts CPU saturation from 0.88 over the 0.90
gate of a scale-up (for a rollback it cannot, `ReasonerTipsNoRollback`); a
confidence of NaN becomes 1.0; a restart stamps a new revision of the same
template, after which the two newest revisions show no image change and a bad
deployment is not rolled back any more; scaling writes an absolute count from stale evidence; checks of
absent chaos gauges are skipped; outcomes of old attempts are recorded again on
every reopening (`lifecycle/learning.py:75`); `learning.py` says the bias reorders candidates, nothing sorts
them; `check_pods_ready` does not know `InvalidImageName`.

Administration: two changes validated against each other's past can leave
`min_replicas` above `max_replicas` until a restart (`raced`); a change of two
fields stored by half can make startup reject the whole category; overlapping
changes leave live and stored values different; a restart loads the *oldest*
environment; a registered context has no event bus and a new lock table while
running lifecycles keep the old one, and the watch keeps the old context.

Deep investigation: `investigate_deep` says it never raises, but a
`validation_plan` that is a list or an infinite replica count does (`Raises`),
and the trace is lost; `authorize_and_remediate_deep` collects evidence again so
that a proposal is not judged on stale evidence, but `evaluate_deep_proposal`
looks at none; a clamped replica count is not shown in the rendered command;
`previous_*` values are those of the first evidence; the circuit is looked at
once per investigation.

## 4. Fairness

* `IncidentEngine!FairSpec` assumes what asyncio gives: a task whose await
  completes is run (weak fairness of `Step`), and the semaphore and locks serve
  waiters in order of arrival, so none waits for ever while others are let in
  again and again (strong fairness of `EnterSlot` and `TryCandidate`). That an
  awaited call completes is a fact of the code for the reasoner, Prometheus,
  Loki, GitHub and chaos clients, which have timeouts. For Kubernetes it is **an
  assumption on the API**: `clients/kubernetes_client.py` passes
  `_request_timeout` to the log fetch (448) alone, not to `get_deployment` (215),
  `list_pods` (358) or the patches, and `lifecycle/investigation.py:193` awaits
  them without `wait_for`. Were a call to hang, the lifecycle would keep its
  lease, its slot and perhaps its target lock, and `LeaseEnds` would not hold.
  `InternalError` is part of `Step`, but no fairness of its own makes it happen.
* `K8sWatch!FairWatch`: while it lives, the poll loop sleeps a fixed time and
  polls again (weak fairness of `Poll`), under the same assumption on the API.
  The loop does *not* catch the exceptions of a poll: `HandlerRaises` ends it, it
  stays ended until a restart, and `OutageIsReported` claims nothing from then on.
* `ChaosControl!FairSpec`: a request thread runs, and a call of `reset` is
  bounded by its HTTP timeout.
* `DeepInvestigation!FairSpec`: a call of the reasoner or of a tool is answered
  or given up, and a cooldown elapses. For the reasoner that is its timeout, for
  the tools over Kubernetes (`deep_investigation_tools.py:141`, `158`) it is the
  same assumption on the API.

Of the Kubernetes API it is assumed that it answers or fails in the end; nothing
is assumed of what it answers, nor of alerts, administrators, the rest of the
cluster, the provider or restarts.

## 5. The abstract specification

`IncidentPromise` knows a phase per incident and a number of actions. An
incident opens only when the previous occurrence has closed; acts only while
worked on and within the cap; is closed as solved only after an action; is taken
up again without a human only while nothing has been done; and a restart may
hand any of the work over to a human but must do so for work that has touched
the cluster. `IncidentEngine!Promise` maps `phase` to the status of the record
*as its task sees it* (the live object, or the row when nobody works on it) and
`tries` to `acted`. TLC checks the implementation in `Recurrence`, where
`HumanOps = {}`, and `IncidentLedger!PromiseIsKept` proves it for every instance;
with administrators who re-run or authorise it does not hold and is not meant to.

## 6. What is proved

By TLAPS, from the named assumptions on the constants alone, for every number of
problems, Deployments, administrators, slots, actions, restarts and every set of
requests (`IncidentLease`, but for its last theorem; `IncidentLedger` restricts
the requests), for every number of replicas and polls (`WatchSafety`), for every
number of lifecycles, Pods, turns and every set of proposals and policies
(`DeepSafety`), for every set of templates, replies, past outcomes and other
people's changes (`RemediationSafety`), for every number of administrators,
environments, failed writes and restarts and every set of changes
(`AdministrationSafety`), and for every number of Pods, threads, attempts and
faults (`ChaosSafety`):

| Theorem | Says |
|---|---|
| `IncidentLease!TypeCorrect` | `Spec => []TypeOK` |
| `IncidentLease!OneWriterPerIncident` | `Spec => []SingleWriter`: a task is past `try_acquire` exactly when it holds the lease |
| `IncidentLease!RemediationIsSerialised` | `Spec => []OneRemediationPerTarget` |
| `IncidentLease!LocksAreOwned` | `Spec => []LockIsOwned`: no leaked target lock |
| `IncidentLease!ProposalsRunOnce` | `OneAdministrator` gives `Spec => []DeepProposalOnce` |
| `IncidentLedger!ActionsAreBounded` | `Unattended` gives `Spec => []ActionBudget` |
| `IncidentLedger!NeverRepeatedBlindly` | `Unattended` gives `Spec => []NoUnattendedRetry` |
| `IncidentLedger!LaunchesAreBounded` | `Unattended` gives `Spec => []LaunchBudget` |
| `IncidentLedger!NothingIsOrphaned` | `Unattended` gives `Spec => []NoOrphan` |
| `IncidentLedger!OneIncidentIsOpen` | `Unattended` gives `Spec => []OneOpenPerProblem` |
| `IncidentLedger!ClosedStaysClosed` | `Unattended` gives `Spec => ClosedIsFinal`, an action property |
| `IncidentLedger!ResultsAreKept` | `Unattended` gives `Spec => NoLostResult`, an action property |
| `IncidentLedger!AuditIsComplete` | `Unattended`, no restarts: `Spec => []AuditComplete` |
| `IncidentLedger!EvidenceIsFresh` | `Unattended`, no restarts: `Spec => FreshEvidence`, an action property |
| `IncidentLedger!PromiseIsKept` | `HumanOps \subseteq {"suggest"}` gives `Spec => KeepsPromise`: the engine implements `IncidentPromise` |
| `WatchSafety!QuietWorld` | `WatchSpec => []QuietWorldIsQuiet` |
| `WatchSafety!ExactReconciliation` | `WatchSpec => ReconciliationIsExact`, an action property |
| `DeepSafety!DeepInvariant` | `Spec => []DeepInv`, the inductive invariant |
| `DeepSafety!TypeCorrect` | `Spec => []TypeOK`: also that no investigation leaves the bounds of its settings |
| `DeepSafety!OutagesAreBrief` | `Spec => []OutageIsBrief` |
| `DeepSafety!TracesAreTrue` | `Spec => []TraceIsTrue` |
| `DeepSafety!LogsAreOfSeenPods` | `Spec => []LogsOfSeenPods` |
| `DeepSafety!WritesAreInside` | `Spec => WritesStayInside`, an action property |
| `RemediationSafety!TypeCorrectness` | `Spec => []TypeOK`: also that cycles and replicas stay within bounds |
| `RemediationSafety!LearningUnlocksNothing` | `Spec => []LearningOnlyCautions` |
| `RemediationSafety!ReasonerUnlocksNoRollback` | `Spec => []ReasonerTipsNoRollback` |
| `RemediationSafety!RollbackWellFormed` | `Spec => NeverMalformed`, an action property |
| `RemediationSafety!PassIsRolledOut` | `Spec => PassMeansRolledOut`, an action property |
| `AdministrationSafety!WithinBounds` | `Spec => []BoundsHold` |
| `AdministrationSafety!CopiesAgree` | `Spec => []EnginesAgree` |
| `AdministrationSafety!AdministrationTyped` | `Spec => []TypeOK` |
| `AdministrationSafety!RestartIsExact` | `Spec => []RestartChangesNothing` |
| `AdministrationSafety!HistoryRetraces` | `Spec => []HistoryIsAChain` |
| `ChaosSafety!ChaosTyped` | `Spec => []TypeOK` |
| `ChaosSafety!SideEffectsConverge` | `SerialFaults` gives `Spec => []EffectsConverge` |
| `ChaosSafety!SuccessRemedies` | `SerialFaults` gives `Spec => []SuccessIsRemedy` |
| `ChaosSafety!SuccessIsSeen` | `Spec => []ClearedIsDefault`, also with faults that overlap |

**The engine.** The invariant is `LeaseInv == TypeOK /\ LocalsOK /\ SingleWriter
/\ LockInv`. None of its parts is inductive alone: that a lock is released by its
owner needs that the owner is the one engine task of the incident
(`SingleWriter`), that a spawn overwrites an idle task needs it too, types need
that an executing task has an action and a digging one a reason (`LocalsOK`).
`IncidentTypes` proves types action by action. `IncidentLease` first reduces each
action to its *shape* (where its task goes, what happens to lease and lock:
`EngineShape`, `AdminShape`, `SpawnShape`), and then proves the invariant of the
shapes, so each control path of `_run_inner` is looked at once. `SingleWriter`
holding while `DeepTwice` fails is the point: the lease itself is right; what is
wrong is that the copy it protects was read before it was taken.

**Deep proposals.** That one administrator cannot make a proposal run twice
(`ProposalsRunOnce`) is about every copy of the record there is. `OnceInv` says
that a proposal which has been started is *settled* — neither open nor missing —
on the row and on every copy a task still holds, and that an authorisation
which has not come to its start holds a copy on which its proposal is open, so
it was not started. Every step of every task, alert and restart hands on a copy
that *descends* from one there was (`Hands`, `Descends`): what is settled stays
settled. The start itself is where one administrator is needed: the lease rules
out the engine's copy (`SingleWriter`), `OneAdministrator` the copy of a second
request. That is the copy with which `DeepTwice` does it twice.

**The ledger.** The budgets and the audit trail are about three things that are
never equal at once: the stored record, the copy its task works on, and what was
really done. `LedgerInv` adds to `LeaseInv` one case per place a task can be in
(`Busy`): the copy has the books of the row (`SameBooks`), and both are `Even`
with the world, except while an action is executing, which is one ahead, and
after a restart that met one, which stays one ahead for ever (`Lost`): the row
says `interrupted_by_restart`, and no automatic path takes such an incident up
again. `Unattended` is where this argument ends: with `authorize` or
`authorize_deep` a stale copy can overwrite the books, and a forced re-run after
such a restart spends an action the record has forgotten (the divergences
of section 3 at `authorizations.py:127`, `policy.py:559` and
`incident_manager.py:651`), so it allows `suggest_fix` always and forced re-runs
only without restarts. Each action is an `Entry` in the books of its one
incident: it leaves the others alone, keeps `Ledger(i)`, goes forward (`Later`)
and is one of the seven moves of `Advance`. A restart is an entry for every
incident at once (`CrashEntry`). `Later` gives the action properties and
`OneOpenPerProblem`; `Advance` and `CrashEntry` are, move for move, the actions of
`IncidentPromise`, so the refinement follows (`PromisedEntry`,
`PromisedRestart`). `AuditComplete` and `FreshEvidence` need that nothing is
lost, hence no restart; the latter also that the target lock excludes an
action that is not on a record yet (`Starts`, `OneRemediationPerTarget`).

**The watch.** `QuietWorldIsQuiet` bounds a count by a count, and is amortised
(`QuietInv == WatchTyped /\ Paid`): alerts so far plus what the watch may still
raise without anything happening (`Owed`) never exceed the disturbances and
restarts. A poll can see a Deployment new twice, in the answer it works through
(`OwedNow`) and in the next (`OwedNext`), and behind a planned scale to zero
both at once, as the annotation is read later than the numbers (`Planned`): the
scaling has paid for that one. `ReconciliationIsExact` needs `ExactInv`: the
incidents a poll is about to reconcile exist and keep the Pod they were recorded
with (`Recorded`), which in turn needs that no task saves a blank record over
one (`KnownIncidents`).

**Deep investigation.** `DeepInv == HealthTyped /\ WorldTyped /\ RunsSound /\
ImagesHaveRun`. `OutageIsBrief` is not inductive: it needs that every unanswered
call was counted as a malformed turn (`Counted`), which a successful tool call
resets — and that, in turn, needs that a tool is only awaited in a turn the
reasoner did answer. `LogsOfSeenPods` needs that *every* known Pod has its entry
on the trace (`Seen`), that entries are only ever appended, and that the entry a
tool fills was empty. A second investigation, which knows none of the first one's
Pods, is in the theorem only: the run has one. For the write, the image was in the history its evidence
showed; evidence is replaced between proposal and execution, and history is
pruned, so the invariant says of every image in evidence or in a proposal that it
*has run* (`ImagesHaveRun`), which nothing undoes. Each part is preserved action
by action (`RunsStep`, `HealthStep`, `ImagesStep`), over lemmas about the
operators (`MalformedSound`, `CollectedSound`, `GroundedHasRun`,
`WrittenIsDeployment`, `BandIsBand`).

`TraceIsTrue` has its own part, `RunsFit`: the entries with evidence are counted
one by one as they are appended (`Fits`, `Traced`), an entry never belongs to a
turn that has not begun (`AtTurn`), and a proposal, once made, is kept until a
human decides (`ProposalIsKept`).

**The closed loop.** `Sound` says of each step of an incident which record it is,
that every plan on it is one of its hypothesis and no surer (`PlanOf`), that a
hypothesis sure enough for a rollback is one whose rules are sure enough, too
(`Gated`), that a plan being executed has reached its threshold (`Passed`), and
that what is polled is what was acted on (`PolledRolledOut`). The heart is
arithmetic: `GateFacts` shows that the rules' confidence in a bad deployment
takes one of a few values, that blindness costs at least 0.05 of it, and that the
reasoner's bounded move therefore never lifts one below the 0.95 gate over it;
`BiasFacts` and `DiscountedFacts` that learning and memory only scale down, also
in integer division. `ReadyWork` (a ReplicaSet that is ready works) and
`foreign` make the pass true of the Pods of the written template although people
deploy, undo and prune around it. Assumed beyond the types: `Proposals` are
integers and past rows and votes are counts.

**Administration.** `Sound` says that every context built since startup is a
complete configuration within bounds, that a change which has been validated has
only acceptable fields (`FieldsSound`), that an engine's copy which differs
belongs to a change about to correct it (`CopiesFollow`), and that until two
changes of one category overlap every validated change is still valid against
the live object (`PairsFollow`). Field bounds survive races because each field is
checked by itself and, for a pair, both sides of the check are bounded
(`ValidFields`); pairs do not, and `raced` marks exactly where. `OtherCategory` is
the argument that changes of different categories do not disturb each other,
`ReloadSound`/`StartSound` that a restart is safe whatever rows half-finished
requests have left. Assumed: the defaults cover exactly the editable fields and
are in bounds and in order, and no change is empty (every apply endpoint answers
422 to one, `routers/config.py:258`, `299`, `340`, `381`, `422`).

`Typed` is `TypeOK` with what a step relies on: contexts are built of exactly
their fields, rows and recorded values were accepted by their category, and a
change under way carries its old and new values. `RestartChangesNothing` and
`HistoryIsAChain` speak of quiet states; `InOrder` says what holds in between,
while requests are orderly. There is then at most one request under way (`Now`),
and every field in force is on disk *or* belongs to it and is still to be stored
(`FieldKept`); likewise the connection of the environment (`EnvironmentKept`),
the reasoner (`ReasonerKept`), and the link of the chain its audit entry is about
to close (`ChangeKept`, `Chained`). All of it is about `contexts[1]`, the context
built at startup. A registration keeps requests orderly; a change made in the
context it builds does not (`Starts`), as that context is built without the
overrides, what is changed in it is compared with values nobody stored, and a
restart goes back to the oldest environment. The two theorems therefore say that
registrations leave the startup configuration, its rows and its history as they
were, and nothing of a registered context: what is in force there is what
`ForgottenOverrides` finds wrong. The fields of one change are stored in the
order of `EDITABLE_FIELDS`, so `todo` is the set of those left.

**Chaos control.** Side effects are applied outside the lock. They converge
because only the thread that found the state to differ applies anything, and
until it has done so every other thread on that Pod, being a reset, brings the
same state (`EffectsInv`). That is an argument about resets: `SerialFaults`
assumes that an injected fault has its Pod for itself, and section 3 says what
happens otherwise. `RemedyInv` follows the client through its retries: whichever
attempt is answered, its thread has put the state back unless a fault came since.

Only model-checked: the liveness properties (`LeaseEnds`, `OutageIsReported`,
`ResetReturns`, `InvestigationsEnd`, `CircuitRecloses`), because fairness and
`ENABLED` are beyond the prover. Every invariant and action property of a passing
run is a theorem. What the three other runs refute is not: `DeepProposalOnce`
for two administrators, `RollbackReplacesTheSuspect` and `ProcessMatchesStore`.

## 7. Plan

Done: the engine with the proofs of its lease, its deep proposals, its ledger and
its promise, then the watch, chaos control, the closed loop with its diagnosis,
administration and deep investigation, each with proofs.

Next, by importance:

1. Proofs: what the ledger's theorems still say when administrators authorise
   (which of the books survive a stale copy), and lemmas on the operators of
   `Diagnosis` for their own sake.
2. Composition of `Administration` with `IncidentEngine`, for lifecycles that
   outlive their orchestrator and for a cap edited under way.
3. `EvidenceSignature` as operators against a reference definition, and the
   event bus, if anything is ever decided from it.

## 8. Not modelled

Metric scoring and text (the numeric part of RCA and correlation, documentation,
replay, evaluation, risk, evidence banding): pure functions of floating-point
numbers and prose. The event bus feeds dashboards only. HTTP clients, front ends,
manifests, Terraform: I/O and presentation. Authentication and read-only routers
change no incident. Evaluation tables feed only reports. The citizen and
notification services are CRUD applications; only their chaos controllers act
on Sentinel. Two replicas of Sentinel are out of scope in the code too
(`docs/incident-engine.md` §5).
