---------------------------- MODULE Administration ----------------------------
(***************************************************************************)
(* The live configuration of Sentinel, its administrators and its store:   *)
(* app/routers/config.py with the five lifecycle/*_admin.py modules,       *)
(* app/routers/environments.py, and what app/main.py rebuilds at startup.  *)
(*                                                                         *)
(* The same value lives in several places.  The live object is what the    *)
(* next incident reads; remediation and decision keep copies of some       *)
(* fields; the reasoner is built from others; overrides, history and the   *)
(* environment records survive a restart.  Every endpoint here is a plain  *)
(* def on its own threadpool thread and takes no lock, so requests         *)
(* interleave between any two steps, and each write to the store is a      *)
(* transaction of its own that may fail.                                   *)
(*                                                                         *)
(* A field stands for all those that are validated and copied alike.  A    *)
(* value of the wrong type or form is rejected as an unknown field is.     *)
(***************************************************************************)
EXTENDS Integers, Sequences, SequencesExt, FiniteSets

CONSTANTS
    Admin,             \* the administrators, each with one request at a time
    Requests,          \* Requests[c]: the changes submitted to category c
    Defaults,          \* the configuration Settings gives, field by field
    DefaultProvider,   \* Settings.llm_provider
    DefaultUrl,        \* Settings.prometheus_url
    Urls,              \* the well-formed http and https URLs
    Frozen,            \* denied_deployments_frozen
    Providers,         \* PROVIDER_CHOICES
    Keyed,             \* the providers whose key is set on the server
    NoReasoner,        \* build_reasoner's None
    FirstEnvironment,  \* the environment bootstrapped from Settings
    OtherEnvironments, \* environments an administrator may register
    MaxRequests,       \* bound: requests of all kinds
    MaxFailures        \* bound: writes to the store that fail

VARIABLES
    contexts,     \* the SentinelContexts built since startup, newest active
    settings,     \* the provider of the Settings object they all share
    overrides,    \* overrides[c]: the config_overrides rows of category c
    history,      \* the config_history rows
    environments, \* the environment rows, oldest first
    request,      \* request[a]: where the request of administrator a is
    requests,     \* requests made so far
    failures,     \* writes failed so far
    orderly,      \* no request has overlapped another or ended half-way,
                  \* and no change was made in a registered context
    raced         \* a change was validated against values another replaced

stored == <<overrides, history, environments>>
vars   == <<contexts, settings, stored, request, requests, failures, orderly,
            raced>>

-----------------------------------------------------------------------------
(***************************************************************************)
(* Fields, in the order in which diffs are built.                          *)
(***************************************************************************)
EDITABLE_FIELDS ==
    [policy      |-> <<"allowed_deployments", "confidence_rollback",
                       "min_replicas", "max_replicas">>,
     rca         |-> <<"settle_seconds", "timeout_seconds">>,
     remediation |-> <<"dry_run">>,
     ai          |-> <<"llm_provider">>,
     monitoring  |-> <<"prometheus_url">>]

Category == DOMAIN EDITABLE_FIELDS

\* The categories whose live object is a part of the context itself.
ConfigCategory == {"policy", "rca", "remediation"}

\* Copied by value into other engines.
FIELDS_DUPLICATED_ELSEWHERE ==
    {"allowed_deployments", "min_replicas", "max_replicas"}

CONFIDENCE_FLOOR     == 50      \* percent
CONFIDENCE_CEILING   == 100
MIN_REPLICAS_FLOOR   == 1
MAX_REPLICAS_CEILING == 20
SETTLE_BOUNDS        == 0..300
TIMEOUT_BOUNDS       == 10..600

\* old, updated with the fields of new that it has.
Over(old, new) ==
    [f \in DOMAIN old |-> IF f \in DOMAIN new THEN new[f] ELSE old[f]]

\* A configuration every field of which is acceptable, and every pair.
InBounds(v) ==
    /\ v.confidence_rollback \in CONFIDENCE_FLOOR..CONFIDENCE_CEILING
    /\ v.min_replicas \in MIN_REPLICAS_FLOOR..MAX_REPLICAS_CEILING
    /\ v.max_replicas \in MIN_REPLICAS_FLOOR..MAX_REPLICAS_CEILING
    /\ v.settle_seconds \in SETTLE_BOUNDS
    /\ v.timeout_seconds \in TIMEOUT_BOUNDS
    /\ v.allowed_deployments \cap Frozen = {}

Ordered(v) ==
    /\ v.min_replicas <= v.max_replicas
    /\ v.settle_seconds < v.timeout_seconds

\* The fields of the live configuration of a context.
Fields == UNION {Range(EDITABLE_FIELDS[c]) : c \in ConfigCategory}

\* Defaults is a record of these fields; an empty change is refused (422).
ASSUME AdministrationAssumption ==
    /\ Defaults = [f \in Fields |-> Defaults[f]]
    /\ \A c \in Category : \A changes \in Requests[c] : DOMAIN changes # {}
    /\ InBounds(Defaults) /\ Ordered(Defaults)
    /\ DefaultProvider \in Providers /\ DefaultUrl \in Urls
    /\ FirstEnvironment \notin OtherEnvironments
    /\ MaxRequests \in Nat /\ MaxFailures \in Nat

-----------------------------------------------------------------------------
(***************************************************************************)
(* validate_changes of each category: only the changed fields are looked   *)
(* at, a pair of fields as both would be afterwards.                       *)
(***************************************************************************)
PolicyValid(config, changes) ==
    LET after == Over(config, changes) IN
    /\ "confidence_rollback" \in DOMAIN changes =>
          changes.confidence_rollback \in CONFIDENCE_FLOOR..CONFIDENCE_CEILING
    /\ "min_replicas" \in DOMAIN changes =>
          changes.min_replicas \in MIN_REPLICAS_FLOOR..after.max_replicas
    /\ "max_replicas" \in DOMAIN changes =>
          changes.max_replicas \in after.min_replicas..MAX_REPLICAS_CEILING
    /\ "allowed_deployments" \in DOMAIN changes =>
          changes.allowed_deployments \cap Frozen = {}

RcaValid(config, changes) ==
    LET after == Over(config, changes) IN
    /\ "timeout_seconds" \in DOMAIN changes =>
          /\ changes.timeout_seconds \in TIMEOUT_BOUNDS
          /\ changes.timeout_seconds > after.settle_seconds
    /\ "settle_seconds" \in DOMAIN changes =>
          /\ changes.settle_seconds \in SETTLE_BOUNDS
          /\ changes.settle_seconds < after.timeout_seconds

AiValid(changes) ==
    "llm_provider" \in DOMAIN changes => changes.llm_provider \in Providers

RemediationValid(changes) ==
    "dry_run" \in DOMAIN changes => changes.dry_run \in BOOLEAN

MonitoringValid(changes) ==
    "prometheus_url" \in DOMAIN changes => changes.prometheus_url \in Urls

Valid(c, config, changes) ==
    /\ DOMAIN changes \subseteq Range(EDITABLE_FIELDS[c])
    /\ c = "policy" => PolicyValid(config, changes)
    /\ c = "rca" => RcaValid(config, changes)
    /\ c = "remediation" => RemediationValid(changes)
    /\ c = "ai" => AiValid(changes)
    /\ c = "monitoring" => MonitoringValid(changes)

-----------------------------------------------------------------------------
(***************************************************************************)
(* The object graph of one environment.                                    *)
(***************************************************************************)
Reasoner(provider) == IF provider \in Keyed THEN provider ELSE NoReasoner

build_context(environment, provider) ==
    [config      |-> Defaults,
     remediation |-> [f \in FIELDS_DUPLICATED_ELSEWHERE |-> Defaults[f]],
     decision    |-> [f \in {"min_replicas", "max_replicas"} |-> Defaults[f]],
     reasoner    |-> Reasoner(provider),
     prom        |-> environment.url,
     environment |-> environment]

\* A bug: the engines take the value of the diff.
sync_dependent_engines_FromDiff(ctx, changes) ==
    [ctx EXCEPT !.remediation = Over(@, changes), !.decision = Over(@, changes)]

\* Each engine takes the value the policy has now, for the fields changed.
sync_dependent_engines(ctx, changes) ==
    LET now == [f \in DOMAIN changes \cap FIELDS_DUPLICATED_ELSEWHERE |->
                   ctx.config[f]]
    IN  [ctx EXCEPT !.remediation = Over(@, now), !.decision = Over(@, now)]

rebuild_reasoner(ctx, provider) == [ctx EXCEPT !.reasoner = Reasoner(provider)]

\* setattr on the live object; the AI category's is Settings.
apply_diffs(ctx, c, changes) ==
    CASE c \in ConfigCategory -> [ctx EXCEPT !.config = Over(@, changes)]
      [] c = "monitoring"     -> [ctx EXCEPT !.prom = changes.prometheus_url]
      [] OTHER                -> ctx

apply_settings(provider, c, changes) ==
    IF c = "ai" THEN changes.llm_provider ELSE provider

\* A bug: stored overrides are assigned without validation.
Reload_Raw(ctx, c, rows) ==
    LET applied == apply_diffs(ctx, c, rows)
    IN  IF c = "policy" THEN sync_dependent_engines(applied, rows) ELSE applied

\* reload_stored_overrides of a context category: everything, or nothing.
Reload(ctx, c, rows) ==
    IF Valid(c, ctx.config, rows)
    THEN LET applied == apply_diffs(ctx, c, rows)
         IN  IF c = "policy" THEN sync_dependent_engines(applied, rows)
                             ELSE applied
    ELSE ctx

ReloadProvider(rows) ==
    IF rows # <<>> /\ AiValid(rows) THEN rows.llm_provider ELSE DefaultProvider

(***************************************************************************)
(* lifespan: the oldest environment, the overrides of four categories.     *)
(* Monitoring is not among them: its values come back with the environment.*)
(***************************************************************************)
StartProvider == ReloadProvider(overrides["ai"])

StartContext ==
    LET built       == build_context(Head(environments), DefaultProvider)
        policy      == Reload(built, "policy", overrides["policy"])
        rca         == Reload(policy, "rca", overrides["rca"])
        remediation == Reload(rca, "remediation", overrides["remediation"])
    IN  rebuild_reasoner(remediation, StartProvider)

\* A bug: an INSERT without its ON CONFLICT clause.
upsert_environment_Insert(record) == Append(environments, record)

\* A bug: ON CONFLICT DO NOTHING.
upsert_environment_Ignore(record) ==
    IF \E k \in DOMAIN environments : environments[k].id = record.id
    THEN environments ELSE Append(environments, record)

upsert_environment(record) ==
    IF \E k \in DOMAIN environments : environments[k].id = record.id
    THEN [k \in DOMAIN environments |->
             IF environments[k].id = record.id THEN record
                                               ELSE environments[k]]
    ELSE Append(environments, record)

-----------------------------------------------------------------------------
Free == [pc |-> "free"]

\* The context a request found active, and works on to its end.
Active == Len(contexts)
Ctx(a) == contexts[request[a].ctx]

Busy(a)  == request[a].pc # "free"
Quiet    == \A a \in Admin : ~Busy(a)
Goto(a, pc) == request' = [request EXCEPT ![a].pc = pc]
Done(a)  == request' = [request EXCEPT ![a] = Free]

LiveValue(ctx, f) ==
    CASE f = "llm_provider"   -> settings
      [] f = "prometheus_url" -> ctx.prom
      [] OTHER                -> ctx.config[f]

Starts(a) ==
    /\ ~Busy(a) /\ requests < MaxRequests
    /\ requests' = requests + 1
    /\ orderly' = (orderly /\ Quiet /\ Len(contexts) = 1)

\* Any write may raise; the request ends there and undoes nothing.
Fails(a) ==
    /\ failures < MaxFailures
    /\ failures' = failures + 1
    /\ orderly' = FALSE
    /\ Done(a)

(***************************************************************************)
(* _apply_and_audit, first step: validate against the live object.         *)
(***************************************************************************)
Validate(a, c, changes) ==
    LET ctx == contexts[Active]
        ok  == Valid(c, ctx.config, changes)
    IN  request' = [request EXCEPT ![a] =
            [pc   |-> IF ok THEN "validated" ELSE "rejected",
             ctx  |-> Active,
             category |-> c,
             new  |-> changes,
             old  |-> IF ok THEN [f \in DOMAIN changes |-> LiveValue(ctx, f)]
                            ELSE <<>>,
             todo |-> DOMAIN changes]]

Submit(a, c, changes) ==
    /\ Starts(a)
    /\ Validate(a, c, changes)
    /\ UNCHANGED <<contexts, settings, stored, failures, raced>>

\* restore_config_change: the old values of an applied change, as a new one.
Restore(a, k) ==
    /\ history[k].status = "applied"
    /\ Starts(a)
    /\ Validate(a, history[k].category, history[k].old)
    /\ UNCHANGED <<contexts, settings, stored, failures, raced>>

\* A bug: the old values are read when the change has been made.
Entry_Late(a, status) ==
    LET r == request[a] IN
    [category |-> r.category, new |-> r.new, status |-> status,
     old |-> IF status = "applied"
             THEN [f \in DOMAIN r.new |-> LiveValue(Ctx(a), f)] ELSE <<>>]

Entry(a, status) ==
    [category |-> request[a].category, old |-> request[a].old,
     new |-> request[a].new, status |-> status]

Audit(a, pc, status) ==
    /\ request[a].pc = pc
    /\ \/ history' = Append(history, Entry(a, status)) /\ Done(a)
          /\ UNCHANGED <<failures, orderly>>
       \/ Fails(a) /\ UNCHANGED history
    /\ UNCHANGED <<contexts, settings, overrides, environments, requests,
                   raced>>

AuditRejection(a) == Audit(a, "rejected", "rejected")

HasAfterApply == {"policy", "ai", "monitoring"}

Mutate(a) ==
    LET r == request[a] IN
    /\ r.pc = "validated"
    /\ contexts' = [contexts EXCEPT ![r.ctx] = apply_diffs(@, r.category, r.new)]
    /\ settings' = apply_settings(settings, r.category, r.new)
    /\ Goto(a, IF r.category \in HasAfterApply THEN "mutated" ELSE "storing")
    /\ raced' = (raced \/ \E b \in Admin \ {a} :
                             /\ request[b].pc = "validated"
                             /\ request[b].category = r.category)
    /\ UNCHANGED <<stored, requests, failures, orderly>>

AfterApply(a) ==
    LET r == request[a] IN
    /\ r.pc = "mutated" /\ r.category \in {"policy", "ai"}
    /\ contexts' = [contexts EXCEPT ![r.ctx] =
                       IF r.category = "policy"
                       THEN sync_dependent_engines(@, r.new)
                       ELSE rebuild_reasoner(@, settings)]
    /\ Goto(a, "storing")
    /\ UNCHANGED <<settings, stored, requests, failures, orderly, raced>>

\* The environment of the context with the connection of the change.
RecordOf(a) ==
    [Ctx(a).environment EXCEPT !.url = request[a].new.prometheus_url]

\* The record in memory first,
sync_environment_record(a) ==
    LET r == request[a] IN
    /\ r.pc = "mutated" /\ r.category = "monitoring"
    /\ contexts' = [contexts EXCEPT ![r.ctx].environment = RecordOf(a)]
    /\ Goto(a, "recorded")
    /\ UNCHANGED <<settings, stored, requests, failures, orderly, raced>>

\* then the row, whatever another thread has made of the record since.
StoreRecord(a) ==
    /\ request[a].pc = "recorded"
    /\ \/ environments' = upsert_environment(RecordOf(a)) /\ Goto(a, "storing")
          /\ UNCHANGED <<failures, orderly>>
       \/ Fails(a) /\ UNCHANGED environments
    /\ UNCHANGED <<contexts, settings, overrides, history, requests, raced>>

\* Field g comes before field f in the diffs of category c.
Precedes(c, g, f) ==
    \E j, k \in DOMAIN EDITABLE_FIELDS[c] :
        j < k /\ EDITABLE_FIELDS[c][j] = g /\ EDITABLE_FIELDS[c][k] = f

\* One row after the other, each in a transaction of its own.
set_config_override(a) ==
    LET r == request[a]
        c == r.category
    IN
    /\ r.pc = "storing"
    /\ \E f \in r.todo :
          /\ \A g \in r.todo : ~Precedes(c, g, f)
          /\ \/ /\ overrides' = [overrides EXCEPT ![c] =
                       [g \in DOMAIN @ \cup {f} |->
                           IF g = f THEN r.new[f] ELSE @[g]]]
                /\ request' = [request EXCEPT ![a].todo = @ \ {f}]
                /\ UNCHANGED <<failures, orderly>>
             \/ Fails(a) /\ UNCHANGED overrides
    /\ UNCHANGED <<contexts, settings, history, environments, requests, raced>>

AuditApplied(a) ==
    /\ request[a].pc = "storing" => request[a].todo = {}
    /\ Audit(a, "storing", "applied")

-----------------------------------------------------------------------------
(***************************************************************************)
(* register_environment: the row, then a context built from Settings alone *)
(* and made the active one.                                                *)
(***************************************************************************)
RegisterStores(a, e) ==
    LET record == [id |-> e, url |-> DefaultUrl] IN
    /\ \A k \in DOMAIN environments : environments[k].id # e
    /\ ~Busy(a) /\ requests < MaxRequests
    /\ requests' = requests + 1
    /\ orderly' = (orderly /\ Quiet)
    /\ environments' = upsert_environment(record)
    /\ request' = [request EXCEPT ![a] = [pc |-> "registering", env |-> record]]
    /\ UNCHANGED <<contexts, settings, overrides, history, failures, raced>>

Activate(a) ==
    /\ request[a].pc = "registering"
    /\ contexts' = Append(contexts, build_context(request[a].env, settings))
    /\ Done(a)
    /\ UNCHANGED <<settings, stored, requests, failures, orderly, raced>>

(***************************************************************************)
(* The process dies and starts again: memory is rebuilt from the store.    *)
(***************************************************************************)
Restart ==
    /\ contexts' = <<StartContext>>
    /\ settings' = StartProvider
    /\ request' = [a \in Admin |-> Free]
    /\ orderly' = (orderly /\ Quiet)
    /\ raced' = FALSE
    /\ UNCHANGED <<stored, requests, failures>>

Init ==
    LET first == [id |-> FirstEnvironment, url |-> DefaultUrl] IN
    /\ contexts = <<build_context(first, DefaultProvider)>>
    /\ settings = DefaultProvider
    /\ overrides = [c \in Category |-> <<>>]
    /\ history = <<>>
    /\ environments = <<first>>
    /\ request = [a \in Admin |-> Free]
    /\ requests = 0 /\ failures = 0
    /\ orderly = TRUE /\ raced = FALSE

AdminStep(a) ==
    \/ \E c \in Category : \E changes \in Requests[c] : Submit(a, c, changes)
    \/ \E k \in DOMAIN history : Restore(a, k)
    \/ AuditRejection(a)
    \/ Mutate(a)
    \/ AfterApply(a)
    \/ sync_environment_record(a)
    \/ StoreRecord(a)
    \/ set_config_override(a)
    \/ AuditApplied(a)
    \/ \E e \in OtherEnvironments : RegisterStores(a, e)
    \/ Activate(a)

Next == Restart \/ \E a \in Admin : AdminStep(a)

Spec == Init /\ [][Next]_vars

-----------------------------------------------------------------------------
(***************************************************************************)
(* Properties.                                                             *)
(***************************************************************************)
\* Every variable keeps its type: requests name a context that exists and
\* only fields of their category, rows and entries only editable fields.
TypeOK ==
    /\ \A g \in DOMAIN contexts :
          /\ DOMAIN contexts[g].config = DOMAIN Defaults
          /\ contexts[g].reasoner \in Keyed \cup {NoReasoner}
          /\ contexts[g].environment.id \in OtherEnvironments \cup {FirstEnvironment}
    /\ settings \in Providers
    /\ \A c \in Category : DOMAIN overrides[c] \subseteq Range(EDITABLE_FIELDS[c])
    /\ \A k \in DOMAIN history :
          /\ history[k].status \in {"applied", "rejected"}
          /\ history[k].status = "applied" =>
                DOMAIN history[k].old = DOMAIN history[k].new
    /\ \A j, k \in DOMAIN environments :
          environments[j].id = environments[k].id => j = k
    /\ \A a \in Admin :
          request[a].pc \in {"validated", "rejected", "mutated",
                            "recorded", "storing"} =>
             /\ request[a].ctx \in DOMAIN contexts
             /\ request[a].todo \subseteq DOMAIN request[a].new
    /\ requests \in 0..MaxRequests /\ failures \in 0..MaxFailures
    /\ orderly \in BOOLEAN /\ raced \in BOOLEAN

(***************************************************************************)
(* What autonomy runs on is always within the hard bounds, and never       *)
(* permits a permanently denied Deployment: through failed writes, half    *)
(* stored changes, restarts that reload what is left of them, registered   *)
(* environments and overlapping requests.  Pairs of fields are in order    *)
(* too, unless two changes were validated against each other's past; a     *)
(* restart ends even that, as it validates what it reloads.                *)
(***************************************************************************)
BoundsHold ==
    \A g \in DOMAIN contexts :
        /\ InBounds(contexts[g].config)
        /\ ~raced => Ordered(contexts[g].config)

(***************************************************************************)
(* The engines' own copies are the policy's values as soon as no change is *)
(* between the live object and its copies, however changes interleave and  *)
(* whatever became of storing them: policy never permits what remediation  *)
(* then refuses as an internal inconsistency.                              *)
(***************************************************************************)
EnginesAgree ==
    \A g \in DOMAIN contexts :
        \/ \E a \in Admin : /\ request[a].pc = "mutated"
                            /\ request[a].category = "policy"
                            /\ request[a].ctx = g
        \/ LET ctx == contexts[g] IN
           /\ \A f \in DOMAIN ctx.remediation : ctx.remediation[f] = ctx.config[f]
           /\ \A f \in DOMAIN ctx.decision : ctx.decision[f] = ctx.config[f]

(***************************************************************************)
(* A restart brings back exactly the configuration the process has run on  *)
(* since it started - every category, the engines' copies, the reasoner    *)
(* and the connection - when requests came one after the other and none    *)
(* was cut short.  That is contexts[1]: what is in force, unless an        *)
(* environment has been registered since, whose context the restart drops. *)
(* Once a change has been made in such a context nothing is claimed any    *)
(* more: its rows are then loaded into the first environment's.            *)
(***************************************************************************)
RestartChangesNothing ==
    orderly /\ Quiet => /\ contexts[1] = StartContext
                        /\ settings = StartProvider

Initial(f) ==
    CASE f = "llm_provider"   -> DefaultProvider
      [] f = "prometheus_url" -> DefaultUrl
      [] OTHER                -> Defaults[f]

\* The k-th entry of the history records a change of field f.
Sets(k, f) == history[k].status = "applied" /\ f \in DOMAIN history[k].new

\* Value v is what the entries before the k-th leave field f at.
LeftAt(f, k, v) ==
    \/ v = Initial(f) /\ \A j \in 1..(k - 1) : ~Sets(j, f)
    \/ \E j \in 1..(k - 1) : /\ Sets(j, f) /\ v = history[j].new[f]
                            /\ \A i \in (j + 1)..(k - 1) : ~Sets(i, f)

(***************************************************************************)
(* The history of each field is an unbroken chain from its default to its  *)
(* value in the configuration the process started with (in force, unless   *)
(* an environment has been registered since), so restoring changes newest  *)
(* first retraces it: also across rejected changes, restores, registered   *)
(* environments and restarts.  As above, it ends with a change made in the *)
(* context of an environment registered since startup.                     *)
(***************************************************************************)
HistoryIsAChain ==
    orderly /\ Quiet =>
        \A c \in Category : \A f \in Range(EDITABLE_FIELDS[c]) :
            /\ \A k \in DOMAIN history :
                  Sets(k, f) => LeftAt(f, k, history[k].old[f])
            /\ LeftAt(f, Len(history) + 1, LiveValue(contexts[1], f))

(***************************************************************************)
(* What the comment on get_config_overrides promises: overrides are        *)
(* applied at startup and after every apply "so the running process and    *)
(* the stored state never disagree".                                       *)
(***************************************************************************)
ProcessMatchesStore ==
    Quiet => \A c \in Category \ {"monitoring"} : \A f \in DOMAIN overrides[c] :
                 LiveValue(contexts[Active], f) = overrides[c][f]

=============================================================================
