------------------------- MODULE AdministrationSafety -------------------------
(***************************************************************************)
(* Proofs about Administration, for any number of administrators, changes, *)
(* environments and restarts: what is in force is within its hard bounds,  *)
(* and the engines that keep copies agree with it; every variable keeps    *)
(* its type; and while requests come one after the other, what is stored   *)
(* and recorded is what is in force.                                       *)
(***************************************************************************)
EXTENDS Administration, SequenceTheorems, TLAPS

Copied == {"min_replicas", "max_replicas"}    \* the fields decision copies

(***************************************************************************)
(* Configurations.                                                         *)
(***************************************************************************)
\* A live configuration: every field, each within its own bounds.
ConfigSound(v) == DOMAIN v = Fields /\ InBounds(v)

\* What validation leaves of a change, whatever the configuration was.
FieldsSound(c, new) ==
    /\ DOMAIN new \subseteq Range(EDITABLE_FIELDS[c])
    /\ c = "policy" =>
          /\ "confidence_rollback" \in DOMAIN new =>
                new.confidence_rollback \in CONFIDENCE_FLOOR..CONFIDENCE_CEILING
          /\ \A f \in DOMAIN new \cap Copied :
                new[f] \in MIN_REPLICAS_FLOOR..MAX_REPLICAS_CEILING
          /\ "allowed_deployments" \in DOMAIN new =>
                new.allowed_deployments \cap Frozen = {}
    /\ c = "rca" =>
          /\ "settle_seconds" \in DOMAIN new => new.settle_seconds \in SETTLE_BOUNDS
          /\ "timeout_seconds" \in DOMAIN new => new.timeout_seconds \in TIMEOUT_BOUNDS

\* The fields of each category, and of all of them.
LEMMA FieldFacts ==
    /\ Range(EDITABLE_FIELDS["policy"]) =
          {"allowed_deployments", "confidence_rollback", "min_replicas", "max_replicas"}
    /\ Range(EDITABLE_FIELDS["rca"]) = {"settle_seconds", "timeout_seconds"}
    /\ Range(EDITABLE_FIELDS["remediation"]) = {"dry_run"}
    /\ Category = {"policy", "rca", "remediation", "ai", "monitoring"}
    /\ Fields = {"allowed_deployments", "confidence_rollback", "min_replicas",
                 "max_replicas", "settle_seconds", "timeout_seconds", "dry_run"}
  <1>1. /\ Range(EDITABLE_FIELDS["policy"]) =
              {"allowed_deployments", "confidence_rollback", "min_replicas",
               "max_replicas"}
        /\ Range(EDITABLE_FIELDS["rca"]) = {"settle_seconds", "timeout_seconds"}
        /\ Range(EDITABLE_FIELDS["remediation"]) = {"dry_run"}
    BY DEF Range, EDITABLE_FIELDS
  <1>2. Category = {"policy", "rca", "remediation", "ai", "monitoring"}
    BY DEF Category, EDITABLE_FIELDS
  <1>3. Fields = Range(EDITABLE_FIELDS["policy"]) \cup Range(EDITABLE_FIELDS["rca"])
                 \cup Range(EDITABLE_FIELDS["remediation"])
    BY DEF Fields, ConfigCategory
  <1> QED
    BY <1>1, <1>2, <1>3

\* Over, field by field.
LEMMA OverFacts ==
    ASSUME NEW old, NEW new
    PROVE  /\ DOMAIN Over(old, new) = DOMAIN old
           /\ \A f \in DOMAIN old :
                 Over(old, new)[f] = IF f \in DOMAIN new THEN new[f] ELSE old[f]
  BY DEF Over

\* A change that is validated is within bounds.
LEMMA ValidFields ==
    ASSUME NEW v, ConfigSound(v), NEW c \in Category, NEW new, Valid(c, v, new)
    PROVE  FieldsSound(c, new)
  <1>1. v.min_replicas \in 1..20 /\ v.max_replicas \in 1..20
    BY DEF ConfigSound, InBounds, MIN_REPLICAS_FLOOR, MAX_REPLICAS_CEILING
  <1>2. DOMAIN v = Fields
    BY DEF ConfigSound
  <1>3. ASSUME c = "policy"
        PROVE  \A f \in DOMAIN new \cap Copied : new[f] \in 1..20
    <2> DEFINE after == Over(v, new)
    <2>1. PolicyValid(v, new)
      BY <1>3 DEF Valid
    <2>2. /\ after.min_replicas = IF "min_replicas" \in DOMAIN new
                                  THEN new.min_replicas ELSE v.min_replicas
          /\ after.max_replicas = IF "max_replicas" \in DOMAIN new
                                  THEN new.max_replicas ELSE v.max_replicas
      BY <1>2, OverFacts, FieldFacts
    <2>3. /\ "min_replicas" \in DOMAIN new => new.min_replicas \in 1..after.max_replicas
          /\ "max_replicas" \in DOMAIN new => new.max_replicas \in after.min_replicas..20
      BY <2>1 DEF PolicyValid, MIN_REPLICAS_FLOOR, MAX_REPLICAS_CEILING
    <2> HIDE DEF after
    <2>4. /\ "min_replicas" \in DOMAIN new => new.min_replicas \in 1..20
          /\ "max_replicas" \in DOMAIN new => new.max_replicas \in 1..20
      BY <1>1, <2>2, <2>3
    <2> QED
      BY <2>4 DEF Copied
  <1> QED
    BY <1>3 DEF Valid, PolicyValid, RcaValid, FieldsSound, MIN_REPLICAS_FLOOR,
                MAX_REPLICAS_CEILING

\* A sound configuration stays sound with a change that is within bounds.
LEMMA OverSound ==
    ASSUME NEW v, ConfigSound(v), NEW c \in Category, NEW new, FieldsSound(c, new)
    PROVE  ConfigSound(Over(v, new))
  <1> DEFINE w == Over(v, new)
  <1>1. /\ DOMAIN w = Fields /\ DOMAIN v = Fields
        /\ \A f \in Fields : w[f] = IF f \in DOMAIN new THEN new[f] ELSE v[f]
    BY OverFacts DEF ConfigSound
  <1> HIDE DEF w
  <1>2. /\ "confidence_rollback" \in DOMAIN new => c = "policy"
        /\ "min_replicas" \in DOMAIN new => c = "policy"
        /\ "max_replicas" \in DOMAIN new => c = "policy"
        /\ "allowed_deployments" \in DOMAIN new => c = "policy"
        /\ "settle_seconds" \in DOMAIN new => c = "rca"
        /\ "timeout_seconds" \in DOMAIN new => c = "rca"
    BY FieldFacts DEF FieldsSound, EDITABLE_FIELDS, Range
  <1>3. w.confidence_rollback \in CONFIDENCE_FLOOR..CONFIDENCE_CEILING
    BY <1>1, <1>2, FieldFacts DEF FieldsSound, ConfigSound, InBounds
  <1>4. /\ w.min_replicas \in MIN_REPLICAS_FLOOR..MAX_REPLICAS_CEILING
        /\ w.max_replicas \in MIN_REPLICAS_FLOOR..MAX_REPLICAS_CEILING
    BY <1>1, <1>2, FieldFacts DEF FieldsSound, ConfigSound, InBounds, Copied
  <1>5. w.settle_seconds \in SETTLE_BOUNDS /\ w.timeout_seconds \in TIMEOUT_BOUNDS
    BY <1>1, <1>2, FieldFacts DEF FieldsSound, ConfigSound, InBounds
  <1>6. w.allowed_deployments \cap Frozen = {}
    BY <1>1, <1>2, FieldFacts DEF FieldsSound, ConfigSound, InBounds
  <1> QED
    BY <1>1, <1>3, <1>4, <1>5, <1>6 DEF ConfigSound, InBounds, w

\* A pair in order stays in order with a change that is valid.
LEMMA OverOrdered ==
    ASSUME NEW v, ConfigSound(v), Ordered(v), NEW c \in Category, NEW new,
           Valid(c, v, new)
    PROVE  Ordered(Over(v, new))
  <1> DEFINE w == Over(v, new)
  <1>1. /\ DOMAIN v = Fields /\ v.min_replicas <= v.max_replicas
        /\ v.settle_seconds < v.timeout_seconds
    BY DEF ConfigSound, Ordered
  <1>2. \A f \in Fields : w[f] = IF f \in DOMAIN new THEN new[f] ELSE v[f]
    BY <1>1, OverFacts
  <1>3. /\ v.min_replicas \in Int /\ v.max_replicas \in Int
        /\ v.settle_seconds \in Int /\ v.timeout_seconds \in Int
    BY DEF ConfigSound, InBounds, MIN_REPLICAS_FLOOR, MAX_REPLICAS_CEILING,
           SETTLE_BOUNDS, TIMEOUT_BOUNDS
  <1>4. w.min_replicas \in Int /\ w.max_replicas \in Int
        /\ w.settle_seconds \in Int /\ w.timeout_seconds \in Int
    <2>1. ConfigSound(w)
      BY ValidFields, OverSound
    <2> HIDE DEF w
    <2>2. InBounds(w)
      BY <2>1 DEF ConfigSound
    <2>3. /\ w.min_replicas \in 1..20 /\ w.max_replicas \in 1..20
          /\ w.settle_seconds \in 0..300 /\ w.timeout_seconds \in 10..600
      BY <2>2, Zenon DEF InBounds, MIN_REPLICAS_FLOOR, MAX_REPLICAS_CEILING,
                         SETTLE_BOUNDS, TIMEOUT_BOUNDS
    <2>4. \A m, n \in Nat : \A x \in m..n : x \in Int
      OBVIOUS
    <2> QED
      BY <2>3, <2>4
  <1>5. /\ "min_replicas" \in DOMAIN new \/ "max_replicas" \in DOMAIN new
           => c = "policy"
        /\ "settle_seconds" \in DOMAIN new \/ "timeout_seconds" \in DOMAIN new
           => c = "rca"
    BY DEF Valid, EDITABLE_FIELDS, Range, Category
  <1>6. /\ "min_replicas" \in DOMAIN new => new.min_replicas \in 1..w.max_replicas
        /\ "max_replicas" \in DOMAIN new => new.max_replicas \in w.min_replicas..20
    BY <1>5 DEF Valid, PolicyValid, MIN_REPLICAS_FLOOR, MAX_REPLICAS_CEILING
  <1>7. /\ "timeout_seconds" \in DOMAIN new => new.timeout_seconds > w.settle_seconds
        /\ "settle_seconds" \in DOMAIN new => new.settle_seconds < w.timeout_seconds
    BY <1>5 DEF Valid, RcaValid
  <1> HIDE DEF w
  <1>8. w.min_replicas <= w.max_replicas
    BY <1>1, <1>2, <1>3, <1>4, <1>6, FieldFacts
  <1>9. w.settle_seconds < w.timeout_seconds
    BY <1>1, <1>2, <1>3, <1>4, <1>7, FieldFacts
  <1> QED
    BY <1>8, <1>9 DEF Ordered, w

\* A change of another category leaves a change as valid as it was.
LEMMA OtherCategory ==
    ASSUME NEW v, ConfigSound(v), NEW c \in Category, NEW new, Valid(c, v, new),
           NEW d \in Category \ {c}, NEW other, FieldsSound(d, other)
    PROVE  Valid(c, Over(v, other), new)
  <1> DEFINE w == Over(v, other)
  <1>1. DOMAIN v = Fields /\ DOMAIN w = Fields
    BY OverFacts DEF ConfigSound
  <1>2. \A f \in Range(EDITABLE_FIELDS[c]) \cap Fields : w[f] = v[f]
    <2>1. \A f \in Range(EDITABLE_FIELDS[c]) : f \notin Range(EDITABLE_FIELDS[d])
      BY DEF EDITABLE_FIELDS, Range, Category
    <2> QED
      BY <1>1, <2>1, OverFacts DEF FieldsSound
  <1> HIDE DEF w
  <1>3. ASSUME c = "policy"
        PROVE  PolicyValid(w, new)
    <2>1. w.min_replicas = v.min_replicas /\ w.max_replicas = v.max_replicas
      BY <1>2, <1>3, FieldFacts
    <2>2. /\ Over(w, new).min_replicas = Over(v, new).min_replicas
          /\ Over(w, new).max_replicas = Over(v, new).max_replicas
      BY <1>1, <2>1, OverFacts, FieldFacts
    <2> QED
      BY <1>3, <2>2 DEF Valid, PolicyValid
  <1>4. ASSUME c = "rca"
        PROVE  RcaValid(w, new)
    <2>1. /\ w.settle_seconds = v.settle_seconds
          /\ w.timeout_seconds = v.timeout_seconds
      BY <1>2, <1>4, FieldFacts
    <2>2. /\ Over(w, new).settle_seconds = Over(v, new).settle_seconds
          /\ Over(w, new).timeout_seconds = Over(v, new).timeout_seconds
      BY <1>1, <2>1, OverFacts, FieldFacts
    <2> QED
      BY <1>4, <2>2 DEF Valid, RcaValid
  <1> QED
    BY <1>3, <1>4 DEF Valid, w

-----------------------------------------------------------------------------
(***************************************************************************)
(* Contexts.                                                               *)
(***************************************************************************)
ContextSound(x) ==
    /\ DOMAIN x = {"config", "remediation", "decision", "reasoner", "prom",
                   "environment"}
    /\ ConfigSound(x.config)
    /\ DOMAIN x.remediation = FIELDS_DUPLICATED_ELSEWHERE
    /\ DOMAIN x.decision = Copied

\* The copies of field f are what the policy says.
AgreeOn(x, f) ==
    /\ f \in FIELDS_DUPLICATED_ELSEWHERE => x.remediation[f] = x.config[f]
    /\ f \in Copied => x.decision[f] = x.config[f]

Agrees(x) == \A f \in FIELDS_DUPLICATED_ELSEWHERE : AgreeOn(x, f)

\* A context that has just been built.
LEMMA BuiltSound ==
    ASSUME NEW environment, NEW provider
    PROVE  LET x == build_context(environment, provider) IN
           ContextSound(x) /\ Ordered(x.config) /\ Agrees(x)
  BY AdministrationAssumption, FieldFacts
     DEF build_context, ContextSound, ConfigSound, Agrees, AgreeOn, Copied,
         FIELDS_DUPLICATED_ELSEWHERE

\* Mutating the live object.
LEMMA ApplySound ==
    ASSUME NEW x, ContextSound(x), NEW c \in Category, NEW new, FieldsSound(c, new)
    PROVE  LET y == apply_diffs(x, c, new) IN
           /\ ContextSound(y)
           /\ y.config = IF c \in ConfigCategory THEN Over(x.config, new) ELSE x.config
           /\ y.remediation = x.remediation /\ y.decision = x.decision
  <1> DEFINE y == apply_diffs(x, c, new)
  <1>1. CASE c \in ConfigCategory
    <2>1. y = [x EXCEPT !.config = Over(x.config, new)]
      <3>1. c # "monitoring"
        BY <1>1 DEF ConfigCategory
      <3> QED
        BY <1>1, <3>1 DEF apply_diffs
    <2>2. ConfigSound(Over(x.config, new))
      BY OverSound DEF ContextSound
    <2> HIDE DEF y
    <2>3. /\ DOMAIN y = DOMAIN x /\ y.config = Over(x.config, new)
          /\ y.remediation = x.remediation /\ y.decision = x.decision
      BY <2>1 DEF ContextSound
    <2>4. ContextSound(y)
      BY <2>2, <2>3 DEF ContextSound
    <2> QED
      BY <1>1, <2>3, <2>4 DEF y
  <1>2. CASE c = "monitoring"
    <2>1. y = [x EXCEPT !.prom = new.prometheus_url]
      BY <1>2 DEF apply_diffs, ConfigCategory
    <2> HIDE DEF y
    <2>2. /\ DOMAIN y = DOMAIN x /\ y.config = x.config
          /\ y.remediation = x.remediation /\ y.decision = x.decision
      BY <2>1 DEF ContextSound
    <2>3. ContextSound(y)
      BY <2>2 DEF ContextSound
    <2> QED
      BY <1>2, <2>2, <2>3 DEF y, ConfigCategory
  <1>3. CASE c = "ai"
    <2>1. y = x
      BY <1>3 DEF apply_diffs, ConfigCategory
    <2> QED
      BY <1>3, <2>1 DEF ConfigCategory
  <1> QED
    BY <1>1, <1>2, <1>3, FieldFacts DEF ConfigCategory

\* The engines take the values of the fields that were changed.
LEMMA SyncSound ==
    ASSUME NEW x, ContextSound(x), NEW new
    PROVE  LET y == sync_dependent_engines(x, new) IN
           /\ ContextSound(y) /\ y.config = x.config
           /\ \A f \in FIELDS_DUPLICATED_ELSEWHERE :
                 f \in DOMAIN new \/ AgreeOn(x, f) => AgreeOn(y, f)
  <1> DEFINE now == [f \in DOMAIN new \cap FIELDS_DUPLICATED_ELSEWHERE |-> x.config[f]]
             y   == sync_dependent_engines(x, new)
  <1>1. y = [x EXCEPT !.remediation = Over(x.remediation, now),
                      !.decision = Over(x.decision, now)]
    BY DEF sync_dependent_engines, ContextSound
  <1> HIDE DEF y
  <1>2. /\ DOMAIN y = DOMAIN x /\ y.config = x.config
        /\ y.remediation = Over(x.remediation, now)
        /\ y.decision = Over(x.decision, now)
    BY <1>1 DEF ContextSound
  <1>3. /\ DOMAIN y.remediation = FIELDS_DUPLICATED_ELSEWHERE
        /\ \A f \in FIELDS_DUPLICATED_ELSEWHERE :
              y.remediation[f] = IF f \in DOMAIN new THEN x.config[f]
                                                     ELSE x.remediation[f]
    BY <1>2, OverFacts DEF ContextSound
  <1>4. /\ DOMAIN y.decision = Copied
        /\ \A f \in Copied :
              y.decision[f] = IF f \in DOMAIN new THEN x.config[f] ELSE x.decision[f]
    BY <1>2, OverFacts DEF ContextSound, Copied, FIELDS_DUPLICATED_ELSEWHERE
  <1>5. ContextSound(y)
    BY <1>2, <1>3, <1>4 DEF ContextSound
  <1>6. \A f \in FIELDS_DUPLICATED_ELSEWHERE :
           f \in DOMAIN new \/ AgreeOn(x, f) => AgreeOn(y, f)
    BY <1>2, <1>3, <1>4 DEF AgreeOn
  <1> QED
    BY <1>2, <1>5, <1>6 DEF y

\* What is read back at startup is in order, too.
LEMMA ReloadSound ==
    ASSUME NEW x, ContextSound(x), Ordered(x.config), Agrees(x),
           NEW c \in ConfigCategory, NEW rows
    PROVE  LET y == Reload(x, c, rows) IN
           ContextSound(y) /\ Ordered(y.config) /\ Agrees(y)
  <1> DEFINE y == apply_diffs(x, c, rows)
  <1>1. c \in Category
    BY FieldFacts DEF ConfigCategory
  <1>2. CASE ~Valid(c, x.config, rows)
    BY <1>2 DEF Reload
  <1>3. CASE Valid(c, x.config, rows)
    <2>1. ConfigSound(x.config)
      BY DEF ContextSound
    <2>2. FieldsSound(c, rows) /\ Ordered(Over(x.config, rows))
      BY <1>1, <1>3, <2>1, ValidFields, OverOrdered
    <2>3. /\ ContextSound(y) /\ y.config = Over(x.config, rows)
          /\ y.remediation = x.remediation /\ y.decision = x.decision
      BY <1>1, <2>2, ApplySound
    <2>4. \A f \in FIELDS_DUPLICATED_ELSEWHERE : f \notin DOMAIN rows => AgreeOn(y, f)
      <3>1. \A f \in FIELDS_DUPLICATED_ELSEWHERE :
               f \notin DOMAIN rows => y.config[f] = x.config[f]
        BY <2>1, <2>3, OverFacts, FieldFacts
           DEF ConfigSound, FIELDS_DUPLICATED_ELSEWHERE
      <3> QED
        BY <2>3, <3>1 DEF Agrees, AgreeOn
    <2> HIDE DEF y
    <2>5. CASE c = "policy"
      <3> DEFINE z == sync_dependent_engines(y, rows)
      <3>1. Reload(x, c, rows) = z
        BY <1>3, <2>5 DEF Reload, y
      <3>2. ContextSound(z) /\ z.config = y.config
            /\ \A f \in FIELDS_DUPLICATED_ELSEWHERE :
                  f \in DOMAIN rows \/ AgreeOn(y, f) => AgreeOn(z, f)
        BY <2>3, SyncSound
      <3> HIDE DEF z
      <3> QED
        BY <2>2, <2>3, <2>4, <3>1, <3>2 DEF Agrees
    <2>6. CASE c # "policy"
      <3>1. Reload(x, c, rows) = y
        BY <1>3, <2>6 DEF Reload, y
      <3>2. \A f \in FIELDS_DUPLICATED_ELSEWHERE : f \notin DOMAIN rows
        BY <2>2, <2>6, FieldFacts
           DEF FieldsSound, FIELDS_DUPLICATED_ELSEWHERE, ConfigCategory
      <3> QED
        BY <2>2, <2>3, <2>4, <3>1, <3>2 DEF Agrees
    <2> QED
      BY <2>5, <2>6
  <1> QED
    BY <1>2, <1>3

\* Whatever rows survived, startup builds a sound context.
LEMMA StartSound == ContextSound(StartContext) /\ Ordered(StartContext.config)
                    /\ Agrees(StartContext)
  <1> DEFINE good(x) == ContextSound(x) /\ Ordered(x.config) /\ Agrees(x)
             built       == build_context(Head(environments), DefaultProvider)
             policy      == Reload(built, "policy", overrides["policy"])
             rca         == Reload(policy, "rca", overrides["rca"])
             remediation == Reload(rca, "remediation", overrides["remediation"])
  <1>1. good(built)
    BY BuiltSound
  <1> HIDE DEF built
  <1>2. good(policy)
    BY <1>1, ReloadSound DEF ConfigCategory
  <1> HIDE DEF policy
  <1>3. good(rca)
    BY <1>2, ReloadSound DEF ConfigCategory
  <1> HIDE DEF rca
  <1>4. good(remediation)
    BY <1>3, ReloadSound DEF ConfigCategory
  <1>5. StartContext = rebuild_reasoner(remediation, StartProvider)
    BY DEF StartContext, built, policy, rca
  <1> HIDE DEF remediation
  <1>6. /\ DOMAIN StartContext = DOMAIN remediation
        /\ StartContext.config = remediation.config
        /\ StartContext.remediation = remediation.remediation
        /\ StartContext.decision = remediation.decision
    BY <1>4, <1>5 DEF rebuild_reasoner, ContextSound
  <1> QED
    BY <1>4, <1>6 DEF ContextSound, Agrees, AgreeOn

-----------------------------------------------------------------------------
(***************************************************************************)
(* The inductive invariant.  ~raced is what makes the pairs inductive:     *)
(* until two changes of a category overlap, a change that was validated is *)
(* still valid when it is made.                                            *)
(***************************************************************************)
Working  == {"validated", "mutated"}                 \* a change in progress
Changing == Working \cup {"rejected", "recorded", "storing"}    \* any request

RequestSound(r) ==
    /\ "pc" \in DOMAIN r
    /\ r.pc \in Changing =>
          /\ DOMAIN r = {"pc", "ctx", "category", "new", "old", "todo"}
          /\ r.ctx \in 1..Len(contexts)
          /\ r.category \in Category
          /\ r.pc \in Working => FieldsSound(r.category, r.new)

\* What a restore reads back.
HistorySound ==
    /\ history \in Seq(Range(history))
    /\ \A k \in 1..Len(history) : history[k].category \in Category

ContextsSound ==
    /\ contexts \in Seq(Range(contexts))
    /\ Len(contexts) \in Nat \ {0}
    /\ \A g \in 1..Len(contexts) : ContextSound(contexts[g])

RequestsSound ==
    /\ DOMAIN request = Admin
    /\ \A a \in Admin : RequestSound(request[a])

\* A copy that differs is one a change in progress is about to correct.
CopiesFollow ==
    \A g \in 1..Len(contexts) : \A f \in FIELDS_DUPLICATED_ELSEWHERE :
        \/ AgreeOn(contexts[g], f)
        \/ \E a \in Admin : /\ request[a].pc = "mutated"
                            /\ request[a].category = "policy"
                            /\ request[a].ctx = g
                            /\ f \in DOMAIN request[a].new

PairsFollow ==
    ~raced =>
        /\ \A g \in 1..Len(contexts) : Ordered(contexts[g].config)
        /\ \A a \in Admin : request[a].pc = "validated" =>
              Valid(request[a].category, contexts[request[a].ctx].config,
                    request[a].new)

Sound ==
    ContextsSound /\ RequestsSound /\ HistorySound /\ CopiesFollow /\ PairsFollow

\* A sequence is one of its own elements.
LEMMA OwnRange ==
    ASSUME NEW S, NEW s \in Seq(S)
    PROVE  s \in Seq(Range(s))
  <1>1. Len(s) \in Nat /\ DOMAIN s = 1..Len(s) /\ s \in [1..Len(s) -> S]
    BY LenProperties
  <1>2. s \in [1..Len(s) -> Range(s)]
    BY <1>1 DEF Range
  <1> QED
    BY <1>1, <1>2

\* One context is replaced.
LEMMA ReplaceSound ==
    ASSUME ContextsSound, NEW g \in 1..Len(contexts), NEW x, ContextSound(x),
           contexts' = [contexts EXCEPT ![g] = x]
    PROVE  /\ ContextsSound' /\ Len(contexts') = Len(contexts)
           /\ \A k \in 1..Len(contexts) :
                 contexts'[k] = IF k = g THEN x ELSE contexts[k]
  <1> DEFINE S == Range(contexts) \cup {x}
  <1>1. contexts \in Seq(S)
    <2>1. Range(contexts) \subseteq S
      OBVIOUS
    <2>2. contexts \in Seq(Range(contexts)) /\ Len(contexts) \in Nat
      BY DEF ContextsSound
    <2>3. \A k \in 1..Len(contexts) : contexts[k] \in S
      BY <2>1, <2>2, LenProperties
    <2> QED
      BY <2>1, <2>2, <2>3, SeqMonotonic
  <1>2. x \in S
    OBVIOUS
  <1> HIDE DEF S
  <1>3. /\ contexts' \in Seq(S) /\ Len(contexts') = Len(contexts)
        /\ \A k \in 1..Len(contexts) :
              contexts'[k] = IF k = g THEN x ELSE contexts[k]
    BY <1>1, <1>2, ExceptSeq
  <1>4. contexts' \in Seq(Range(contexts'))
    BY <1>3, OwnRange
  <1> QED
    BY <1>3, <1>4 DEF ContextsSound

\* A context is registered.
LEMMA AppendSound ==
    ASSUME ContextsSound, NEW x, ContextSound(x), contexts' = Append(contexts, x)
    PROVE  /\ ContextsSound' /\ Len(contexts') = Len(contexts) + 1
           /\ contexts'[Len(contexts) + 1] = x
           /\ \A k \in 1..Len(contexts) : contexts'[k] = contexts[k]
  <1> DEFINE S == Range(contexts) \cup {x}
  <1>1. contexts \in Seq(S) /\ Len(contexts) \in Nat \ {0}
    <2>1. Range(contexts) \subseteq S
      OBVIOUS
    <2>2. contexts \in Seq(Range(contexts)) /\ Len(contexts) \in Nat \ {0}
      BY DEF ContextsSound
    <2>3. \A k \in 1..Len(contexts) : contexts[k] \in S
      BY <2>1, <2>2, LenProperties
    <2> QED
      BY <2>1, <2>2, <2>3, SeqMonotonic
  <1>2. x \in S
    OBVIOUS
  <1> HIDE DEF S
  <1>3. /\ contexts' \in Seq(S) /\ Len(contexts') = Len(contexts) + 1
        /\ contexts'[Len(contexts) + 1] = x
        /\ \A k \in 1..Len(contexts) : contexts'[k] = contexts[k]
    BY <1>1, <1>2, AppendProperties
  <1>4. contexts' \in Seq(Range(contexts'))
    BY <1>3, OwnRange
  <1>5. ASSUME NEW k \in 1..Len(contexts')
        PROVE  ContextSound(contexts'[k])
    <2>1. k \in 1..Len(contexts) \/ k = Len(contexts) + 1
      BY <1>1, <1>3
    <2> QED
      BY <1>3, <2>1 DEF ContextsSound
  <1> QED
    BY <1>1, <1>3, <1>4, <1>5 DEF ContextsSound

\* An entry is added to the history, or none is.
LEMMA HistoryStep ==
    ASSUME HistorySound,
           \/ UNCHANGED history
           \/ \E e : e.category \in Category /\ history' = Append(history, e)
    PROVE  HistorySound'
  <1>1. CASE UNCHANGED history
    BY <1>1 DEF HistorySound
  <1>2. ASSUME NEW e, e.category \in Category, history' = Append(history, e)
        PROVE  HistorySound'
    <2> DEFINE S == Range(history) \cup {e}
    <2>1. history \in Seq(S) /\ Len(history) \in Nat
      <3>1. Range(history) \subseteq S
        OBVIOUS
      <3>2. history \in Seq(Range(history)) /\ Len(history) \in Nat
        BY LenProperties DEF HistorySound
      <3>3. \A k \in 1..Len(history) : history[k] \in S
        BY <3>1, <3>2, LenProperties
      <3> QED
        BY <3>1, <3>2, <3>3, SeqMonotonic
    <2>2. e \in S
      OBVIOUS
    <2> HIDE DEF S
    <2>3. /\ history' \in Seq(S) /\ Len(history') = Len(history) + 1
          /\ history'[Len(history) + 1] = e
          /\ \A k \in 1..Len(history) : history'[k] = history[k]
      BY <1>2, <2>1, <2>2, AppendProperties
    <2>4. history' \in Seq(Range(history'))
      BY <2>3, OwnRange
    <2>5. ASSUME NEW k \in 1..Len(history')
          PROVE  history'[k].category \in Category
      <3>1. k \in 1..Len(history) \/ k = Len(history) + 1
        BY <2>1, <2>3
      <3> QED
        BY <1>2, <2>3, <3>1 DEF HistorySound
    <2> QED
      BY <2>4, <2>5 DEF HistorySound
  <1> QED
    BY <1>1, <1>2

\* The request of one administrator moves on.
LEMMA MoveFacts ==
    ASSUME RequestsSound, NEW a \in Admin, NEW r, request' = [request EXCEPT ![a] = r]
    PROVE  /\ DOMAIN request' = Admin /\ request'[a] = r
           /\ \A b \in Admin \ {a} : request'[b] = request[b]
  BY DEF RequestsSound

\* Requests stay sound when one moves on and no context is lost.
LEMMA RequestsStep ==
    ASSUME RequestsSound, NEW a \in Admin, NEW r, RequestSound(r),
           request' = [request EXCEPT ![a] = r],
           1..Len(contexts) \subseteq 1..Len(contexts')
    PROVE  RequestsSound'
  <1>1. /\ DOMAIN request' = Admin /\ request'[a] = r
        /\ \A b \in Admin \ {a} : request'[b] = request[b]
    BY MoveFacts
  <1>2. ASSUME NEW b \in Admin
        PROVE  RequestSound(request[b])'
    BY <1>1 DEF RequestsSound, RequestSound
  <1> QED
    BY <1>1, <1>2 DEF RequestsSound

\* Steps outside the contexts: a request starts, stores, is audited or ends.
LEMMA AsideSound ==
    ASSUME Sound, UNCHANGED <<contexts, raced>>, HistorySound',
           NEW a \in Admin, request[a].pc # "mutated",
           NEW r, RequestSound(r), r.pc # "validated",
           request' = [request EXCEPT ![a] = r]
    PROVE  Sound'
  <1>1. /\ DOMAIN request' = Admin /\ request'[a] = r
        /\ \A b \in Admin \ {a} : request'[b] = request[b]
    BY MoveFacts DEF Sound
  <1>2. ContextsSound'
    BY DEF Sound, ContextsSound
  <1>3. RequestsSound'
    BY RequestsStep DEF Sound
  <1>4. CopiesFollow'
    BY <1>1 DEF Sound, CopiesFollow, AgreeOn
  <1>5. PairsFollow'
    BY <1>1 DEF Sound, PairsFollow
  <1> QED
    BY <1>2, <1>3, <1>4, <1>5 DEF Sound

-----------------------------------------------------------------------------
(***************************************************************************)
(* Every action preserves the invariant.                                   *)
(***************************************************************************)
\* A change is validated against the live object as it is now.
LEMMA ValidateSound ==
    ASSUME Sound, NEW a \in Admin, NEW c \in Category, NEW changes,
           Starts(a), Validate(a, c, changes), UNCHANGED <<contexts, history, raced>>
    PROVE  Sound'
  <1> DEFINE x  == contexts[Active]
             ok == Valid(c, x.config, changes)
  <1>1. PICK old, todo : request' = [request EXCEPT ![a] =
                [pc |-> IF ok THEN "validated" ELSE "rejected", ctx |-> Active,
                 category |-> c, new |-> changes, old |-> old, todo |-> todo]]
    BY DEF Validate
  <1> DEFINE r == [pc |-> IF ok THEN "validated" ELSE "rejected", ctx |-> Active,
                   category |-> c, new |-> changes, old |-> old, todo |-> todo]
  <1>2. Active \in 1..Len(contexts) /\ ContextSound(x)
    BY DEF Sound, ContextsSound, Active
  <1>3. ok => FieldsSound(c, changes)
    BY <1>2, ValidFields DEF ContextSound
  <1>4. /\ DOMAIN r = {"pc", "ctx", "category", "new", "old", "todo"}
        /\ r.pc \in {"validated", "rejected"} /\ r.ctx = Active /\ r.category = c
        /\ r.new = changes /\ (r.pc = "validated" => ok)
    OBVIOUS
  <1> HIDE DEF ok
  <1>5. RequestSound(r)
    BY <1>2, <1>3, <1>4 DEF RequestSound, Working
  <1>6. request[a].pc # "mutated"
    BY DEF Starts, Busy
  <1>7. /\ DOMAIN request' = Admin /\ request'[a] = r
        /\ \A b \in Admin \ {a} : request'[b] = request[b]
    BY <1>1, MoveFacts DEF Sound
  <1> HIDE DEF r
  <1>8. ContextsSound' /\ HistorySound'
    BY DEF Sound, ContextsSound, HistorySound
  <1>9. RequestsSound'
    BY <1>5, <1>7 DEF Sound, RequestsSound, RequestSound
  <1>10. CopiesFollow'
    BY <1>6, <1>7 DEF Sound, CopiesFollow, AgreeOn
  <1>11. PairsFollow'
    BY <1>4, <1>7 DEF Sound, PairsFollow, ok
  <1> QED
    BY <1>8, <1>9, <1>10, <1>11 DEF Sound

\* The live object is changed.
LEMMA MutateSound ==
    ASSUME Sound, NEW a \in Admin, Mutate(a)
    PROVE  Sound'
  <1> DEFINE r == request[a]
             g == r.ctx
             x == contexts[g]
             c == r.category
             y == apply_diffs(x, c, r.new)
             p == IF c \in HasAfterApply THEN "mutated" ELSE "storing"
  <1>1. /\ r.pc = "validated" /\ RequestSound(r)
        /\ contexts' = [contexts EXCEPT ![g] = y]
        /\ request' = [request EXCEPT ![a].pc = p]
        /\ raced' = (raced \/ \E b \in Admin \ {a} :
                        request[b].pc = "validated" /\ request[b].category = c)
        /\ UNCHANGED history
    BY DEF Mutate, Goto, Sound, RequestsSound, stored
  <1>2. /\ DOMAIN r = {"pc", "ctx", "category", "new", "old", "todo"}
        /\ g \in 1..Len(contexts) /\ c \in Category /\ FieldsSound(c, r.new)
        /\ p \in {"mutated", "storing"} /\ (c = "policy" => p = "mutated")
    BY <1>1 DEF RequestSound, Working, Changing, HasAfterApply
  <1>3. ContextSound(x) /\ ConfigSound(x.config)
    BY <1>2 DEF Sound, ContextsSound, ContextSound
  <1>4. /\ ContextSound(y)
        /\ y.config = IF c \in ConfigCategory THEN Over(x.config, r.new) ELSE x.config
        /\ y.remediation = x.remediation /\ y.decision = x.decision
    BY <1>2, <1>3, ApplySound
  <1> DEFINE s == [r EXCEPT !.pc = p]
  <1>5. /\ DOMAIN request' = Admin /\ request'[a] = s
        /\ \A b \in Admin \ {a} : request'[b] = request[b]
    BY <1>1, MoveFacts DEF Sound
  <1>6. /\ DOMAIN s = DOMAIN r /\ s.pc = p /\ s.ctx = g /\ s.category = c
        /\ s.new = r.new
    BY <1>2
  <1>7. ASSUME NEW b \in Admin, b # a, request[b].pc = "validated"
        PROVE  RequestSound(request[b]) /\ FieldsSound(request[b].category, request[b].new)
               /\ request[b].ctx \in 1..Len(contexts) /\ request[b].category \in Category
    BY <1>7 DEF Sound, RequestsSound, RequestSound, Working, Changing
  <1> HIDE DEF y, p, s
  <1>8. /\ ContextsSound' /\ Len(contexts') = Len(contexts)
        /\ \A k \in 1..Len(contexts) : contexts'[k] = IF k = g THEN y ELSE contexts[k]
    BY <1>1, <1>2, <1>4, ReplaceSound DEF Sound
  <1>9. RequestsSound'
    <2>1. RequestSound(s)
      BY <1>2, <1>6 DEF RequestSound
    <2>2. request' = [request EXCEPT ![a] = s]
      BY <1>1 DEF s
    <2> QED
      BY <1>8, <2>1, <2>2, RequestsStep DEF Sound
  <1>10. HistorySound'
    BY <1>1, HistoryStep DEF Sound
  <1>11. CopiesFollow'
    <2> SUFFICES ASSUME NEW k \in 1..Len(contexts), NEW f \in FIELDS_DUPLICATED_ELSEWHERE
                 PROVE  \/ AgreeOn(contexts'[k], f)
                        \/ \E b \in Admin : /\ request'[b].pc = "mutated"
                                            /\ request'[b].category = "policy"
                                            /\ request'[b].ctx = k
                                            /\ f \in DOMAIN request'[b].new
      BY <1>8 DEF CopiesFollow, AgreeOn
    <2>1. CASE k = g /\ c = "policy" /\ f \in DOMAIN r.new
      BY <1>2, <1>5, <1>6, <2>1
    <2>2. CASE k = g /\ ~(c = "policy" /\ f \in DOMAIN r.new)
      <3>1. c \in ConfigCategory => f \notin DOMAIN r.new
        BY <1>2, <2>2, FieldFacts
           DEF ConfigCategory, FieldsSound, FIELDS_DUPLICATED_ELSEWHERE
      <3>2. y.config[f] = x.config[f]
        BY <1>3, <1>4, <3>1, OverFacts, FieldFacts
           DEF ConfigSound, FIELDS_DUPLICATED_ELSEWHERE
      <3>3. AgreeOn(x, f) => AgreeOn(contexts'[k], f)
        BY <1>4, <1>8, <2>2, <3>2 DEF AgreeOn
      <3> QED
        BY <1>1, <1>5, <2>2, <3>3 DEF Sound, CopiesFollow
    <2>3. CASE k # g
      BY <1>1, <1>5, <1>8, <2>3 DEF Sound, CopiesFollow
    <2> QED
      BY <2>1, <2>2, <2>3
  <1>12. PairsFollow'
    <2> SUFFICES ASSUME ~raced'
                 PROVE  /\ \A k \in 1..Len(contexts) : Ordered(contexts'[k].config)
                        /\ \A b \in Admin : request'[b].pc = "validated" =>
                              Valid(request'[b].category,
                                    contexts'[request'[b].ctx].config, request'[b].new)
      BY <1>8 DEF PairsFollow
    <2>1. /\ ~raced
          /\ \A b \in Admin \ {a} : request[b].pc = "validated" => request[b].category # c
      BY <1>1
    <2>2. Ordered(x.config) /\ Valid(c, x.config, r.new)
      BY <1>1, <1>2, <2>1 DEF Sound, PairsFollow
    <2>3. Ordered(y.config)
      BY <1>2, <1>3, <1>4, <2>2, OverOrdered
    <2>4. ASSUME NEW k \in 1..Len(contexts)
          PROVE  Ordered(contexts'[k].config)
      BY <1>8, <2>1, <2>3 DEF Sound, PairsFollow
    <2>5. ASSUME NEW b \in Admin, request'[b].pc = "validated"
          PROVE  Valid(request'[b].category, contexts'[request'[b].ctx].config,
                       request'[b].new)
      <3> DEFINE q == request[b]
      <3>1. b # a /\ request'[b] = q
        BY <1>2, <1>5, <1>6, <2>5
      <3>2. q.pc = "validated" /\ q.category # c
        BY <2>1, <2>5, <3>1
      <3>3. /\ q.ctx \in 1..Len(contexts) /\ q.category \in Category
            /\ Valid(q.category, contexts[q.ctx].config, q.new)
        BY <1>7, <2>1, <3>1, <3>2 DEF Sound, PairsFollow
      <3> HIDE DEF q
      <3>4. CASE q.ctx = g /\ c \in ConfigCategory
        <4>1. Valid(q.category, Over(x.config, r.new), q.new)
          BY <1>2, <1>3, <3>2, <3>3, <3>4, OtherCategory
        <4> QED
          BY <1>4, <1>8, <3>1, <3>3, <3>4, <4>1
      <3>5. CASE q.ctx = g /\ c \notin ConfigCategory
        BY <1>4, <1>8, <3>1, <3>3, <3>5
      <3>6. CASE q.ctx # g
        BY <1>8, <3>1, <3>3, <3>6
      <3> QED
        BY <3>4, <3>5, <3>6
    <2> QED
      BY <2>4, <2>5
  <1> QED
    BY <1>8, <1>9, <1>10, <1>11, <1>12 DEF Sound

\* A request that goes on to storing is sound.
LEMMA NextRequest ==
    ASSUME Sound, NEW a \in Admin, request[a].pc = "mutated",
           NEW pc \in {"recorded", "storing"}, Goto(a, pc)
    PROVE  \E s : /\ request' = [request EXCEPT ![a] = s]
                  /\ RequestSound(s) /\ s.pc \notin Working
  <1> DEFINE s == [request[a] EXCEPT !.pc = pc]
  <1>1. request' = [request EXCEPT ![a] = s]
    BY DEF Goto
  <1>2. RequestSound(request[a])
    BY DEF Sound, RequestsSound
  <1>3. RequestSound(s) /\ s.pc \notin Working
    BY <1>2 DEF RequestSound, Working, Changing
  <1> HIDE DEF s
  <1> QED
    BY <1>1, <1>3

\* What follows a change in memory: only copies, the reasoner or the
\* environment record of its context change.
LEMMA FollowUpSound ==
    ASSUME Sound, NEW a \in Admin, request[a].pc = "mutated",
           NEW pc \in {"recorded", "storing"}, Goto(a, pc),
           NEW y, ContextSound(y), y.config = contexts[request[a].ctx].config,
           contexts' = [contexts EXCEPT ![request[a].ctx] = y],
           \A f \in FIELDS_DUPLICATED_ELSEWHERE :
              \/ AgreeOn(contexts[request[a].ctx], f)
              \/ request[a].category = "policy" /\ f \in DOMAIN request[a].new
              => AgreeOn(y, f),
           UNCHANGED <<history, raced>>
    PROVE  Sound'
  <1> DEFINE r == request[a]
             g == r.ctx
  <1>1. PICK s : /\ request' = [request EXCEPT ![a] = s]
                 /\ RequestSound(s) /\ s.pc \notin Working
    BY NextRequest
  <1>2. g \in 1..Len(contexts)
    BY DEF Sound, RequestsSound, RequestSound, Working, Changing
  <1>3. /\ ContextsSound' /\ Len(contexts') = Len(contexts)
        /\ \A k \in 1..Len(contexts) : contexts'[k] = IF k = g THEN y ELSE contexts[k]
    BY <1>2, ReplaceSound DEF Sound
  <1>4. /\ request'[a] = s /\ s.pc \notin {"mutated", "validated"}
        /\ \A b \in Admin \ {a} : request'[b] = request[b]
    BY <1>1, MoveFacts DEF Sound, Working
  <1>5. RequestsSound'
    BY <1>1, <1>3, RequestsStep DEF Sound
  <1>6. HistorySound'
    BY DEF Sound, HistorySound
  <1>7. CopiesFollow'
    <2> SUFFICES ASSUME NEW k \in 1..Len(contexts), NEW f \in FIELDS_DUPLICATED_ELSEWHERE
                 PROVE  \/ AgreeOn(contexts'[k], f)
                        \/ \E b \in Admin : /\ request'[b].pc = "mutated"
                                            /\ request'[b].category = "policy"
                                            /\ request'[b].ctx = k
                                            /\ f \in DOMAIN request'[b].new
      BY <1>3 DEF CopiesFollow, AgreeOn
    <2>1. \/ AgreeOn(contexts[k], f)
          \/ \E b \in Admin : /\ request[b].pc = "mutated"
                              /\ request[b].category = "policy"
                              /\ request[b].ctx = k
                              /\ f \in DOMAIN request[b].new
      BY DEF Sound, CopiesFollow
    <2>2. CASE k = g
      BY <1>3, <1>4, <2>1, <2>2
    <2>3. CASE k # g
      BY <1>3, <1>4, <2>1, <2>3
    <2> QED
      BY <2>2, <2>3
  <1>8. PairsFollow'
    <2> SUFFICES ASSUME ~raced'
                 PROVE  /\ \A k \in 1..Len(contexts) : Ordered(contexts'[k].config)
                        /\ \A b \in Admin : request'[b].pc = "validated" =>
                              Valid(request'[b].category,
                                    contexts'[request'[b].ctx].config, request'[b].new)
      BY <1>3 DEF PairsFollow
    <2>1. \A k \in 1..Len(contexts) : contexts'[k].config = contexts[k].config
      BY <1>3
    <2>2. ASSUME NEW b \in Admin, request'[b].pc = "validated"
          PROVE  Valid(request'[b].category, contexts'[request'[b].ctx].config,
                       request'[b].new)
      <3>1. request'[b] = request[b]
        BY <1>4, <2>2
      <3>2. request[b].ctx \in 1..Len(contexts)
        BY <2>2, <3>1 DEF Sound, RequestsSound, RequestSound, Working, Changing
      <3> QED
        BY <2>1, <2>2, <3>1, <3>2 DEF Sound, PairsFollow
    <2> QED
      BY <2>1, <2>2 DEF Sound, PairsFollow
  <1> QED
    BY <1>3, <1>5, <1>6, <1>7, <1>8 DEF Sound

\* The engines follow the policy, or the reasoner is built again.
LEMMA AfterApplySound ==
    ASSUME Sound, NEW a \in Admin, AfterApply(a)
    PROVE  Sound'
  <1> DEFINE r == request[a]
             x == contexts[r.ctx]
             y == IF r.category = "policy" THEN sync_dependent_engines(x, r.new)
                                           ELSE rebuild_reasoner(x, settings)
  <1>1. /\ r.pc = "mutated" /\ Goto(a, "storing")
        /\ contexts' = [contexts EXCEPT ![r.ctx] = y]
        /\ UNCHANGED <<history, raced>>
    BY DEF AfterApply, stored
  <1>2. r.ctx \in 1..Len(contexts) /\ ContextSound(x)
    BY <1>1 DEF Sound, ContextsSound, RequestsSound, RequestSound, Working, Changing
  <1>3. /\ ContextSound(y) /\ y.config = x.config
        /\ \A f \in FIELDS_DUPLICATED_ELSEWHERE :
              \/ AgreeOn(x, f)
              \/ r.category = "policy" /\ f \in DOMAIN r.new
              => AgreeOn(y, f)
    <2>1. CASE r.category = "policy"
      BY <1>2, <2>1, SyncSound
    <2>2. CASE r.category # "policy"
      <3>1. y = [x EXCEPT !.reasoner = Reasoner(settings)]
        BY <2>2 DEF rebuild_reasoner
      <3> HIDE DEF y
      <3>2. /\ DOMAIN y = DOMAIN x /\ y.config = x.config
            /\ y.remediation = x.remediation /\ y.decision = x.decision
        BY <1>2, <3>1 DEF ContextSound
      <3> QED
        BY <1>2, <2>2, <3>2 DEF ContextSound, AgreeOn
    <2> QED
      BY <2>1, <2>2
  <1> HIDE DEF y
  <1> QED
    BY <1>1, <1>3, FollowUpSound

\* The environment record of the context follows the connection.
LEMMA SyncRecordSound ==
    ASSUME Sound, NEW a \in Admin, sync_environment_record(a)
    PROVE  Sound'
  <1> DEFINE r == request[a]
             x == contexts[r.ctx]
             y == [x EXCEPT !.environment = RecordOf(a)]
  <1>1. /\ r.pc = "mutated" /\ Goto(a, "recorded")
        /\ contexts' = [contexts EXCEPT ![r.ctx].environment = RecordOf(a)]
        /\ UNCHANGED <<history, raced>>
    BY DEF sync_environment_record, stored
  <1>2. r.ctx \in 1..Len(contexts) /\ ContextSound(x)
    BY <1>1 DEF Sound, ContextsSound, RequestsSound, RequestSound, Working, Changing
  <1>3. contexts' = [contexts EXCEPT ![r.ctx] = y]
    BY <1>1
  <1>4. /\ DOMAIN y = DOMAIN x /\ y.config = x.config
        /\ y.remediation = x.remediation /\ y.decision = x.decision
    BY <1>2 DEF ContextSound
  <1> HIDE DEF y
  <1>5. /\ ContextSound(y)
        /\ \A f \in FIELDS_DUPLICATED_ELSEWHERE : AgreeOn(x, f) => AgreeOn(y, f)
    BY <1>2, <1>4 DEF ContextSound, AgreeOn
  <1>6. r.category = "monitoring"
    BY DEF sync_environment_record
  <1> QED
    BY <1>1, <1>3, <1>4, <1>5, <1>6, FollowUpSound

\* Its row is written, or the request dies first.
LEMMA StoreRecordSound ==
    ASSUME Sound, NEW a \in Admin, StoreRecord(a)
    PROVE  Sound'
  <1> DEFINE s == [request[a] EXCEPT !.pc = "storing"]
  <1>1. /\ request[a].pc = "recorded" /\ UNCHANGED <<contexts, history, raced>>
        /\ \/ request' = [request EXCEPT ![a] = s]
           \/ request' = [request EXCEPT ![a] = Free]
    BY DEF StoreRecord, Goto, Fails, Done
  <1>2. HistorySound'
    BY <1>1 DEF Sound, HistorySound
  <1>3. RequestSound(s) /\ s.pc # "validated"
    BY <1>1 DEF Sound, RequestsSound, RequestSound, Working, Changing
  <1>4. RequestSound(Free) /\ Free.pc # "validated"
    BY DEF Free, RequestSound, Working, Changing
  <1> HIDE DEF s
  <1> QED
    BY <1>1, <1>2, <1>3, <1>4, AsideSound

\* The outcome is recorded, or the request dies first.
LEMMA AuditSound ==
    ASSUME Sound, NEW a \in Admin, NEW pc \in {"rejected", "storing"}, NEW status,
           Audit(a, pc, status)
    PROVE  Sound'
  <1>1. /\ request[a].pc = pc /\ request' = [request EXCEPT ![a] = Free]
        /\ UNCHANGED <<contexts, raced>>
        /\ history' = Append(history, Entry(a, status)) \/ UNCHANGED history
    BY DEF Audit, Fails, Done
  <1>2. Entry(a, status).category \in Category
    BY <1>1 DEF Entry, Sound, RequestsSound, RequestSound, Changing
  <1> HIDE DEF Entry
  <1>3. HistorySound'
    BY <1>1, <1>2, HistoryStep DEF Sound
  <1>4. RequestSound(Free) /\ Free.pc # "validated" /\ request[a].pc # "mutated"
    BY <1>1 DEF Free, RequestSound, Working, Changing
  <1> QED
    BY <1>1, <1>3, <1>4, AsideSound

\* A field is stored, or the request dies first.
LEMMA StoreSound ==
    ASSUME Sound, NEW a \in Admin, set_config_override(a)
    PROVE  Sound'
  <1> DEFINE s(f) == [request[a] EXCEPT !.todo = @ \ {f}]
  <1>1. /\ request[a].pc = "storing" /\ UNCHANGED <<contexts, history, raced>>
        /\ \/ \E f \in request[a].todo : request' = [request EXCEPT ![a] = s(f)]
           \/ request' = [request EXCEPT ![a] = Free]
    BY DEF set_config_override, Fails, Done
  <1>2. HistorySound'
    BY <1>1 DEF Sound, HistorySound
  <1>3. \A f : RequestSound(s(f)) /\ s(f).pc = "storing"
    BY <1>1 DEF Sound, RequestsSound, RequestSound, Working, Changing
  <1>4. RequestSound(Free) /\ Free.pc # "validated"
    BY DEF Free, RequestSound, Working, Changing
  <1> HIDE DEF s
  <1> QED
    BY <1>1, <1>2, <1>3, <1>4, AsideSound

\* The row of a new environment is written.
LEMMA RegisterSound ==
    ASSUME Sound, NEW a \in Admin, NEW e, RegisterStores(a, e)
    PROVE  Sound'
  <1> DEFINE s == [pc |-> "registering", env |-> [id |-> e, url |-> DefaultUrl]]
  <1>1. /\ request[a].pc # "mutated" /\ UNCHANGED <<contexts, history, raced>>
        /\ request' = [request EXCEPT ![a] = s]
    BY DEF RegisterStores, Busy
  <1>2. HistorySound'
    BY <1>1 DEF Sound, HistorySound
  <1>3. RequestSound(s) /\ s.pc # "validated"
    BY DEF RequestSound, Working, Changing
  <1> HIDE DEF s
  <1> QED
    BY <1>1, <1>2, <1>3, AsideSound

\* Its context is built and becomes the active one.
LEMMA ActivateSound ==
    ASSUME Sound, NEW a \in Admin, Activate(a)
    PROVE  Sound'
  <1> DEFINE x == build_context(request[a].env, settings)
             n == Len(contexts)
  <1>1. /\ request[a].pc = "registering" /\ contexts' = Append(contexts, x)
        /\ request' = [request EXCEPT ![a] = Free] /\ UNCHANGED <<history, raced>>
    BY DEF Activate, Done, stored
  <1>2. ContextSound(x) /\ Ordered(x.config) /\ Agrees(x)
    BY BuiltSound
  <1> HIDE DEF x
  <1>3. /\ ContextsSound' /\ Len(contexts') = n + 1 /\ contexts'[n + 1] = x
        /\ \A k \in 1..n : contexts'[k] = contexts[k]
    BY <1>1, <1>2, AppendSound DEF Sound
  <1>4. n \in Nat /\ 1..Len(contexts') = (1..n) \cup {n + 1} /\ n + 1 \notin 1..n
    BY <1>3 DEF Sound, ContextsSound
  <1>5. RequestSound(Free) /\ Free.pc \notin {"validated", "mutated"}
    BY DEF Free, RequestSound, Working, Changing
  <1>6. /\ request'[a] = Free
        /\ \A b \in Admin \ {a} : request'[b] = request[b]
    BY <1>1, MoveFacts DEF Sound
  <1>7. RequestsSound'
    BY <1>1, <1>4, <1>5, RequestsStep DEF Sound
  <1>8. HistorySound'
    BY <1>1 DEF Sound, HistorySound
  <1> HIDE DEF n
  <1>9. CopiesFollow'
    <2> SUFFICES ASSUME NEW k \in (1..n) \cup {n + 1},
                        NEW f \in FIELDS_DUPLICATED_ELSEWHERE
                 PROVE  \/ AgreeOn(contexts'[k], f)
                        \/ \E b \in Admin : /\ request'[b].pc = "mutated"
                                            /\ request'[b].category = "policy"
                                            /\ request'[b].ctx = k
                                            /\ f \in DOMAIN request'[b].new
      BY <1>4 DEF CopiesFollow, AgreeOn
    <2>1. CASE k = n + 1
      BY <1>2, <1>3, <2>1 DEF Agrees
    <2>2. CASE k \in 1..n
      <3>1. \/ AgreeOn(contexts[k], f)
            \/ \E b \in Admin : /\ request[b].pc = "mutated"
                                /\ request[b].category = "policy"
                                /\ request[b].ctx = k
                                /\ f \in DOMAIN request[b].new
        BY <2>2 DEF Sound, CopiesFollow, n
      <3> QED
        BY <1>1, <1>3, <1>6, <2>2, <3>1
    <2> QED
      BY <2>1, <2>2
  <1>10. PairsFollow'
    <2>1. ASSUME ~raced', NEW k \in (1..n) \cup {n + 1}
          PROVE  Ordered(contexts'[k].config)
      BY <1>1, <1>2, <1>3, <2>1 DEF Sound, PairsFollow, n
    <2>2. ASSUME ~raced', NEW b \in Admin, request'[b].pc = "validated"
          PROVE  Valid(request'[b].category, contexts'[request'[b].ctx].config,
                       request'[b].new)
      <3>1. request'[b] = request[b]
        BY <1>5, <1>6, <2>2
      <3>2. request[b].ctx \in 1..n
        BY <2>2, <3>1 DEF Sound, RequestsSound, RequestSound, Working, Changing, n
      <3> QED
        BY <1>1, <1>3, <2>2, <3>1, <3>2 DEF Sound, PairsFollow
    <2> QED
      BY <1>4, <2>1, <2>2 DEF PairsFollow
  <1> QED
    BY <1>3, <1>7, <1>8, <1>9, <1>10 DEF Sound

\* The first start.
LEMMA InitSound ==
    ASSUME Init
    PROVE  Sound
  <1> DEFINE x == build_context([id |-> FirstEnvironment, url |-> DefaultUrl],
                                DefaultProvider)
  <1>1. ContextSound(x) /\ Ordered(x.config) /\ Agrees(x) /\ contexts = <<x>>
    BY BuiltSound DEF Init
  <1> HIDE DEF x
  <1>2. contexts \in Seq({x}) /\ Len(contexts) = 1 /\ contexts[1] = x
    BY <1>1
  <1>3. contexts \in Seq(Range(contexts))
    BY <1>2, OwnRange
  <1>4. ContextsSound
    BY <1>1, <1>2, <1>3 DEF ContextsSound
  <1>5. RequestsSound
    BY DEF Init, RequestsSound, RequestSound, Free, Changing, Working
  <1>6. HistorySound
    BY DEF Init, HistorySound
  <1>7. CopiesFollow
    BY <1>1, <1>2 DEF CopiesFollow, Agrees
  <1>8. PairsFollow
    BY <1>1, <1>2 DEF Init, PairsFollow, Free
  <1> QED
    BY <1>4, <1>5, <1>6, <1>7, <1>8 DEF Sound

\* Every later one.
LEMMA RestartSound ==
    ASSUME Sound, Restart
    PROVE  Sound'
  <1> DEFINE x == StartContext
  <1>1. /\ ContextSound(x) /\ Ordered(x.config) /\ Agrees(x)
        /\ contexts' = <<x>> /\ request' = [a \in Admin |-> Free]
        /\ UNCHANGED history
    BY StartSound DEF Restart, stored
  <1> HIDE DEF x
  <1>2. contexts' \in Seq({x}) /\ Len(contexts') = 1 /\ contexts'[1] = x
    BY <1>1
  <1>3. contexts' \in Seq(Range(contexts'))
    BY <1>2, OwnRange
  <1>4. ContextsSound'
    BY <1>1, <1>2, <1>3 DEF ContextsSound
  <1>5. RequestsSound'
    BY <1>1 DEF RequestsSound, RequestSound, Free, Changing, Working
  <1>6. HistorySound'
    BY <1>1 DEF Sound, HistorySound
  <1>7. CopiesFollow'
    <2>1. \A f \in FIELDS_DUPLICATED_ELSEWHERE : AgreeOn(contexts'[1], f)
      BY <1>1, <1>2 DEF Agrees
    <2> QED
      BY <1>2, <2>1 DEF CopiesFollow, AgreeOn
  <1>8. PairsFollow'
    BY <1>1, <1>2 DEF PairsFollow, Free
  <1> QED
    BY <1>4, <1>5, <1>6, <1>7, <1>8 DEF Sound

(***************************************************************************)
(* Contexts are sound, copies are the policy's or about to be, pairs are   *)
(* in order until two changes race: whatever administrators do, whichever  *)
(* writes fail and whenever the process restarts.                          *)
(***************************************************************************)
THEOREM Invariance == Spec => []Sound
  <1>1. Sound /\ [Next]_vars => Sound'
    <2> SUFFICES ASSUME Sound, [Next]_vars
                 PROVE  Sound'
      OBVIOUS
    <2>1. CASE Restart
      BY <2>1, RestartSound
    <2>2. ASSUME NEW a \in Admin, AdminStep(a)
          PROVE  Sound'
      <3>1. ASSUME NEW c \in Category, NEW changes, Submit(a, c, changes)
            PROVE  Sound'
        BY <3>1, ValidateSound DEF Submit, stored
      <3>2. ASSUME NEW k \in DOMAIN history, Restore(a, k)
            PROVE  Sound'
        <4>1. history[k].category \in Category
          BY LenProperties DEF Sound, HistorySound
        <4> QED
          BY <3>2, <4>1, ValidateSound DEF Restore, stored
      <3>3. CASE AuditRejection(a)
        BY <3>3, AuditSound DEF AuditRejection
      <3>4. CASE Mutate(a)
        BY <3>4, MutateSound
      <3>5. CASE AfterApply(a)
        BY <3>5, AfterApplySound
      <3>6. CASE sync_environment_record(a)
        BY <3>6, SyncRecordSound
      <3>11. CASE StoreRecord(a)
        BY <3>11, StoreRecordSound
      <3>7. CASE set_config_override(a)
        BY <3>7, StoreSound
      <3>8. CASE AuditApplied(a)
        BY <3>8, AuditSound DEF AuditApplied
      <3>9. ASSUME NEW e \in OtherEnvironments, RegisterStores(a, e)
            PROVE  Sound'
        BY <3>9, RegisterSound
      <3>10. CASE Activate(a)
        BY <3>10, ActivateSound
      <3> QED
        BY <2>2, <3>1, <3>2, <3>3, <3>4, <3>5, <3>6, <3>7, <3>8, <3>9, <3>10,
           <3>11
           DEF AdminStep
    <2>3. CASE UNCHANGED vars
      BY <2>3 DEF vars, stored, Sound, ContextsSound, RequestsSound, RequestSound,
                  HistorySound, CopiesFollow, PairsFollow, AgreeOn
    <2> QED
      BY <2>1, <2>2, <2>3 DEF Next
  <1> QED
    BY InitSound, <1>1, PTL DEF Spec

(***************************************************************************)
(* Autonomy never runs on a value outside its hard bounds or a Deployment  *)
(* that is frozen, and pairs of fields are in order unless two changes     *)
(* were validated against each other's past.                               *)
(***************************************************************************)
THEOREM WithinBounds == Spec => []BoundsHold
  <1>1. Sound => BoundsHold
    <2> SUFFICES ASSUME Sound, NEW g \in DOMAIN contexts
                 PROVE  /\ InBounds(contexts[g].config)
                        /\ ~raced => Ordered(contexts[g].config)
      BY DEF BoundsHold
    <2>1. g \in 1..Len(contexts)
      BY LenProperties DEF Sound, ContextsSound
    <2> QED
      BY <2>1 DEF Sound, ContextsSound, ContextSound, ConfigSound, PairsFollow
  <1> QED
    BY Invariance, <1>1, PTL

(***************************************************************************)
(* The engines' copies are the policy's values whenever no change is       *)
(* between the live object and its copies.                                 *)
(***************************************************************************)
THEOREM CopiesAgree == Spec => []EnginesAgree
  <1>1. Sound => EnginesAgree
    <2> SUFFICES ASSUME Sound, NEW g \in DOMAIN contexts,
                        ~ \E a \in Admin : /\ request[a].pc = "mutated"
                                            /\ request[a].category = "policy"
                                            /\ request[a].ctx = g
                 PROVE  /\ \A f \in DOMAIN contexts[g].remediation :
                              contexts[g].remediation[f] = contexts[g].config[f]
                        /\ \A f \in DOMAIN contexts[g].decision :
                              contexts[g].decision[f] = contexts[g].config[f]
      BY Zenon DEF EnginesAgree
    <2>1. g \in 1..Len(contexts)
      BY LenProperties DEF Sound, ContextsSound
    <2>2. \A f \in FIELDS_DUPLICATED_ELSEWHERE : AgreeOn(contexts[g], f)
      BY <2>1 DEF Sound, CopiesFollow
    <2>3. /\ DOMAIN contexts[g].remediation = FIELDS_DUPLICATED_ELSEWHERE
          /\ DOMAIN contexts[g].decision = Copied
      BY <2>1 DEF Sound, ContextsSound, ContextSound
    <2> QED
      BY <2>2, <2>3 DEF AgreeOn, Copied, FIELDS_DUPLICATED_ELSEWHERE
  <1> QED
    BY Invariance, <1>1, PTL

-----------------------------------------------------------------------------
(***************************************************************************)
(* Types, stronger than TypeOK where a step needs more: contexts, rows and *)
(* entries are functions of exactly their fields, what is stored passed    *)
(* validation, and a change in progress has its old and its new values.    *)
(***************************************************************************)
Made     == {"mutated", "recorded", "storing"}      \* a change that is in force

EnvironmentTyped(e) ==
    /\ e = [id |-> e.id, url |-> e.url]
    /\ e.id \in OtherEnvironments \cup {FirstEnvironment}

ContextTyped(x) ==
    /\ x = [config |-> x.config, remediation |-> x.remediation,
            decision |-> x.decision, reasoner |-> x.reasoner,
            prom |-> x.prom, environment |-> x.environment]
    /\ x.config = [f \in Fields |-> x.config[f]]
    /\ x.remediation = [f \in FIELDS_DUPLICATED_ELSEWHERE |-> x.remediation[f]]
    /\ x.decision = [f \in Copied |-> x.decision[f]]
    /\ x.reasoner \in Keyed \cup {NoReasoner}
    /\ EnvironmentTyped(x.environment)

\* Values category c accepts whatever is in force.
Accepted(c, new) ==
    /\ DOMAIN new \subseteq Range(EDITABLE_FIELDS[c])
    /\ c = "remediation" => RemediationValid(new)
    /\ c = "ai" => AiValid(new)

RequestTyped(r) ==
    /\ r.pc \in Changing \cup {"free", "registering"}
    /\ r.pc = "registering" => EnvironmentTyped(r.env)
    /\ r.pc \in Changing => r.todo \subseteq DOMAIN r.new
    /\ r.pc \in Changing \ {"rejected"} =>
          /\ DOMAIN r.new # {} /\ DOMAIN r.old = DOMAIN r.new
          /\ Accepted(r.category, r.new)
    /\ r.pc \in Working => r.todo = DOMAIN r.new

RowsTyped(c, rows) == Accepted(c, rows) /\ (rows = <<>> \/ DOMAIN rows # {})

EntryTyped(e) ==
    /\ e.status \in {"applied", "rejected"}
    /\ e.status = "applied" =>
          DOMAIN e.new # {} /\ DOMAIN e.old = DOMAIN e.new

EnvironmentsTyped ==
    /\ environments \in Seq(Range(environments)) /\ Len(environments) # 0
    /\ \A k \in 1..Len(environments) : EnvironmentTyped(environments[k])
    /\ \A j, k \in 1..Len(environments) :
          environments[j].id = environments[k].id => j = k

Typed ==
    /\ \A g \in 1..Len(contexts) : ContextTyped(contexts[g])
    /\ settings \in Providers
    /\ DOMAIN overrides = Category
    /\ \A c \in Category : RowsTyped(c, overrides[c])
    /\ \A k \in 1..Len(history) : EntryTyped(history[k])
    /\ EnvironmentsTyped
    /\ \A a \in Admin : RequestTyped(request[a])
    /\ requests \in 0..MaxRequests /\ failures \in 0..MaxFailures
    /\ orderly \in BOOLEAN /\ raced \in BOOLEAN

-----------------------------------------------------------------------------
\* The fields of a context, one at a time.
LEMMA ContextFields ==
    ASSUME NEW x, ContextTyped(x), NEW w
    PROVE  /\ [x EXCEPT !.config = w] =
                 [config |-> w, remediation |-> x.remediation, decision |-> x.decision,
                  reasoner |-> x.reasoner, prom |-> x.prom, environment |-> x.environment]
           /\ [x EXCEPT !.reasoner = w] =
                 [config |-> x.config, remediation |-> x.remediation,
                  decision |-> x.decision, reasoner |-> w, prom |-> x.prom,
                  environment |-> x.environment]
           /\ [x EXCEPT !.prom = w] =
                 [config |-> x.config, remediation |-> x.remediation,
                  decision |-> x.decision, reasoner |-> x.reasoner, prom |-> w,
                  environment |-> x.environment]
           /\ [x EXCEPT !.environment = w] =
                 [config |-> x.config, remediation |-> x.remediation,
                  decision |-> x.decision, reasoner |-> x.reasoner, prom |-> x.prom,
                  environment |-> w]
  BY DEF ContextTyped

\* A context that has just been built.
LEMMA BuiltTyped ==
    ASSUME NEW e, EnvironmentTyped(e), NEW provider
    PROVE  ContextTyped(build_context(e, provider))
  <1> DEFINE x == build_context(e, provider)
  <1>1. /\ x = [config |-> x.config, remediation |-> x.remediation,
                decision |-> x.decision, reasoner |-> x.reasoner,
                prom |-> x.prom, environment |-> x.environment]
        /\ x.config = Defaults /\ x.environment = e
        /\ x.remediation = [f \in FIELDS_DUPLICATED_ELSEWHERE |-> Defaults[f]]
        /\ x.decision = [f \in Copied |-> Defaults[f]]
        /\ x.reasoner = Reasoner(provider)
    BY DEF build_context, Copied
  <1> HIDE DEF x
  <1>2. x.config = [f \in Fields |-> x.config[f]]
    BY <1>1, AdministrationAssumption
  <1>3. /\ x.remediation = [f \in FIELDS_DUPLICATED_ELSEWHERE |-> x.remediation[f]]
        /\ x.decision = [f \in Copied |-> x.decision[f]]
    BY <1>1
  <1>4. x.reasoner \in Keyed \cup {NoReasoner}
    BY <1>1 DEF Reasoner
  <1> QED
    BY <1>1, <1>2, <1>3, <1>4 DEF ContextTyped, x

\* Changing a function field by field leaves a function of the same fields.
LEMMA OverTyped ==
    ASSUME NEW S, NEW old, old = [f \in S |-> old[f]], NEW new
    PROVE  Over(old, new) = [f \in S |-> Over(old, new)[f]]
  BY DEF Over

\* The live object is changed; nothing else in the context but its connection.
LEMMA ApplyTyped ==
    ASSUME NEW x, ContextTyped(x), NEW c \in Category, NEW new
    PROVE  /\ ContextTyped(apply_diffs(x, c, new))
           /\ apply_diffs(x, c, new).config =
                 IF c \in ConfigCategory THEN Over(x.config, new) ELSE x.config
           /\ apply_diffs(x, c, new).prom =
                 IF c = "monitoring" THEN new.prometheus_url ELSE x.prom
           /\ apply_diffs(x, c, new).reasoner = x.reasoner
           /\ apply_diffs(x, c, new).environment = x.environment
  <1> DEFINE y == apply_diffs(x, c, new)
  <1>1. CASE c \in ConfigCategory
    <2> DEFINE v == Over(x.config, new)
    <2>1. y = [x EXCEPT !.config = v] /\ c # "monitoring"
      BY <1>1 DEF apply_diffs, ConfigCategory
    <2>2. v = [f \in Fields |-> v[f]]
      BY OverTyped DEF ContextTyped
    <2> HIDE DEF v, y
    <2>3. y = [config |-> v, remediation |-> x.remediation, decision |-> x.decision,
               reasoner |-> x.reasoner, prom |-> x.prom, environment |-> x.environment]
      BY <2>1, ContextFields
    <2>4. ContextTyped(y)
      BY <2>2, <2>3 DEF ContextTyped
    <2> QED
      BY <1>1, <2>1, <2>3, <2>4 DEF v, y
  <1>2. CASE c = "monitoring"
    <2>1. y = [x EXCEPT !.prom = new.prometheus_url] /\ c \notin ConfigCategory
      BY <1>2 DEF apply_diffs, ConfigCategory
    <2> HIDE DEF y
    <2>2. y = [config |-> x.config, remediation |-> x.remediation,
               decision |-> x.decision, reasoner |-> x.reasoner,
               prom |-> new.prometheus_url, environment |-> x.environment]
      BY <2>1, ContextFields
    <2>3. ContextTyped(y)
      BY <2>2 DEF ContextTyped
    <2> QED
      BY <1>2, <2>1, <2>2, <2>3 DEF y
  <1>3. CASE c = "ai"
    BY <1>3 DEF apply_diffs, ConfigCategory
  <1> QED
    BY <1>1, <1>2, <1>3, FieldFacts DEF ConfigCategory

\* Only the copies change.
LEMMA SyncTyped ==
    ASSUME NEW x, ContextTyped(x), NEW new
    PROVE  LET y == sync_dependent_engines(x, new) IN
           /\ ContextTyped(y) /\ y.config = x.config /\ y.prom = x.prom
           /\ y.reasoner = x.reasoner /\ y.environment = x.environment
  <1> DEFINE now == [f \in DOMAIN new \cap FIELDS_DUPLICATED_ELSEWHERE |-> x.config[f]]
             y   == sync_dependent_engines(x, new)
             r   == Over(x.remediation, now)
             d   == Over(x.decision, now)
  <1>1. y = [x EXCEPT !.remediation = r, !.decision = d]
    BY DEF sync_dependent_engines, ContextTyped
  <1>2. /\ r = [f \in FIELDS_DUPLICATED_ELSEWHERE |-> r[f]]
        /\ d = [f \in Copied |-> d[f]]
    <2> HIDE DEF now
    <2>1. /\ x.remediation = [f \in FIELDS_DUPLICATED_ELSEWHERE |-> x.remediation[f]]
          /\ x.decision = [f \in Copied |-> x.decision[f]]
      BY DEF ContextTyped
    <2>2. r = [f \in FIELDS_DUPLICATED_ELSEWHERE |-> r[f]]
      BY <2>1, OverTyped
    <2>3. d = [f \in Copied |-> d[f]]
      BY <2>1, OverTyped
    <2> QED
      BY <2>2, <2>3
  <1> HIDE DEF y, r, d
  <1>3. y = [config |-> x.config, remediation |-> r, decision |-> d,
             reasoner |-> x.reasoner, prom |-> x.prom, environment |-> x.environment]
    BY <1>1 DEF ContextTyped
  <1>4. ContextTyped(y)
    BY <1>2, <1>3 DEF ContextTyped
  <1> QED
    BY <1>3, <1>4 DEF y

\* Only the reasoner changes.
LEMMA RebuildTyped ==
    ASSUME NEW x, ContextTyped(x), NEW provider
    PROVE  LET y == rebuild_reasoner(x, provider) IN
           /\ ContextTyped(y) /\ y.reasoner = Reasoner(provider)
           /\ y.config = x.config /\ y.prom = x.prom /\ y.environment = x.environment
           /\ y.remediation = x.remediation /\ y.decision = x.decision
  <1> DEFINE y == rebuild_reasoner(x, provider)
  <1>1. y = [x EXCEPT !.reasoner = Reasoner(provider)]
    BY DEF rebuild_reasoner
  <1>2. Reasoner(provider) \in Keyed \cup {NoReasoner}
    BY DEF Reasoner
  <1> HIDE DEF y
  <1>3. y = [config |-> x.config, remediation |-> x.remediation,
             decision |-> x.decision, reasoner |-> Reasoner(provider),
             prom |-> x.prom, environment |-> x.environment]
    BY <1>1, ContextFields
  <1>4. ContextTyped(y)
    BY <1>2, <1>3 DEF ContextTyped
  <1> QED
    BY <1>3, <1>4 DEF y

-----------------------------------------------------------------------------
(***************************************************************************)
(* Every action preserves the types.                                       *)
(***************************************************************************)
\* A row is replaced by one of the same environment, or added.
LEMMA UpsertTyped ==
    ASSUME EnvironmentsTyped, NEW e, EnvironmentTyped(e),
           environments' = upsert_environment(e)
    PROVE  /\ EnvironmentsTyped'
           /\ (\E k \in 1..Len(environments) : environments[k].id = e.id) =>
                 /\ Len(environments') = Len(environments)
                 /\ \A k \in 1..Len(environments) : environments'[k] =
                       IF environments[k].id = e.id THEN e ELSE environments[k]
  <1> DEFINE n == Len(environments)
             S == Range(environments) \cup {e}
  <1>1. /\ n \in Nat /\ DOMAIN environments = 1..n
        /\ \A k \in 1..n : environments[k] \in S
        /\ environments \in Seq(S)
    <2>1. environments \in Seq(Range(environments)) /\ Range(environments) \subseteq S
      BY DEF EnvironmentsTyped
    <2>2. /\ n \in Nat /\ DOMAIN environments = 1..n
          /\ \A k \in 1..n : environments[k] \in S
      BY <2>1, LenProperties
    <2> QED
      BY <2>1, <2>2, SeqMonotonic
  <1>2. e \in S
    OBVIOUS
  <1>3. /\ n # 0 /\ \A k \in 1..n : EnvironmentTyped(environments[k])
        /\ \A j, k \in 1..n : environments[j].id = environments[k].id => j = k
    BY DEF EnvironmentsTyped
  <1>4. CASE \E k \in 1..n : environments[k].id = e.id
    <2>1. environments' = [k \in 1..n |-> IF environments[k].id = e.id
                                          THEN e ELSE environments[k]]
      BY <1>1, <1>4 DEF upsert_environment
    <2> HIDE DEF S
    <2>2. environments' \in [1..n -> S]
      BY <1>1, <1>2, <2>1
    <2>3. environments' \in Seq(S) /\ Len(environments') = n
      BY <1>1, <2>2
    <2>4. environments' \in Seq(Range(environments'))
      BY <2>3, OwnRange
    <2>5. \A k \in 1..n : /\ EnvironmentTyped(environments'[k])
                          /\ environments'[k].id = environments[k].id
      BY <1>3, <2>1
    <2> QED
      BY <1>3, <2>1, <2>3, <2>4, <2>5 DEF EnvironmentsTyped
  <1>5. CASE \A k \in 1..n : environments[k].id # e.id
    <2>1. environments' = Append(environments, e)
      BY <1>1, <1>5 DEF upsert_environment
    <2> HIDE DEF S
    <2>2. /\ environments' \in Seq(S) /\ Len(environments') = n + 1
          /\ environments'[n + 1] = e
          /\ \A k \in 1..n : environments'[k] = environments[k]
      BY <1>1, <1>2, <2>1, AppendProperties
    <2>3. environments' \in Seq(Range(environments'))
      BY <2>2, OwnRange
    <2>4. 1..(n + 1) = (1..n) \cup {n + 1} /\ n + 1 # 0
      BY <1>1
    <2> HIDE DEF n
    <2>5. \A k \in (1..n) \cup {n + 1} : EnvironmentTyped(environments'[k])
      BY <1>3, <2>2
    <2>6. \A j, k \in (1..n) \cup {n + 1} :
             environments'[j].id = environments'[k].id => j = k
      BY <1>3, <1>5, <2>2
    <2> QED
      BY <1>5, <2>2, <2>3, <2>4, <2>5, <2>6 DEF EnvironmentsTyped, n
  <1> QED
    BY <1>4, <1>5

\* What is read back at startup has its types.
LEMMA ReloadTyped ==
    ASSUME NEW x, ContextTyped(x), NEW c \in ConfigCategory, NEW rows
    PROVE  LET y == Reload(x, c, rows) IN
           /\ ContextTyped(y) /\ y.prom = x.prom /\ y.environment = x.environment
           /\ Valid(c, x.config, rows) => y.config = Over(x.config, rows)
  <1> DEFINE y == apply_diffs(x, c, rows)
             z == sync_dependent_engines(y, rows)
  <1>1. /\ ContextTyped(y) /\ y.config = Over(x.config, rows)
        /\ y.prom = x.prom /\ y.environment = x.environment
    <2>1. c \in Category /\ c # "monitoring"
      BY FieldFacts DEF ConfigCategory
    <2> QED
      BY <2>1, ApplyTyped
  <1>2. CASE ~Valid(c, x.config, rows)
    BY <1>2 DEF Reload
  <1>3. CASE Valid(c, x.config, rows) /\ c = "policy"
    <2>1. Reload(x, c, rows) = z
      BY <1>3 DEF Reload
    <2> HIDE DEF y
    <2>2. /\ ContextTyped(z) /\ z.config = y.config
          /\ z.prom = y.prom /\ z.environment = y.environment
      BY <1>1, SyncTyped
    <2> HIDE DEF z
    <2> QED
      BY <1>1, <2>1, <2>2
  <1>4. CASE Valid(c, x.config, rows) /\ c # "policy"
    <2>1. Reload(x, c, rows) = y
      BY <1>4 DEF Reload
    <2> HIDE DEF y
    <2> QED
      BY <1>1, <2>1
  <1> QED
    BY <1>2, <1>3, <1>4

\* Startup builds a context from the oldest environment.
LEMMA StartTyped ==
    ASSUME EnvironmentsTyped
    PROVE  /\ ContextTyped(StartContext)
           /\ StartContext.environment = environments[1]
           /\ StartContext.prom = environments[1].url
           /\ StartContext.reasoner = Reasoner(StartProvider)
  <1> DEFINE built       == build_context(Head(environments), DefaultProvider)
             policy      == Reload(built, "policy", overrides["policy"])
             rca         == Reload(policy, "rca", overrides["rca"])
             remediation == Reload(rca, "remediation", overrides["remediation"])
             kept(x)     == /\ ContextTyped(x) /\ x.environment = environments[1]
                            /\ x.prom = environments[1].url
  <1>1. kept(built)
    <2>1. Head(environments) = environments[1] /\ EnvironmentTyped(environments[1])
      BY LenProperties DEF EnvironmentsTyped
    <2>2. /\ built.environment = Head(environments)
          /\ built.prom = Head(environments).url
      BY DEF build_context
    <2> QED
      BY <2>1, <2>2, BuiltTyped
  <1> HIDE DEF built
  <1>2. kept(policy)
    BY <1>1, ReloadTyped DEF ConfigCategory
  <1> HIDE DEF policy
  <1>3. kept(rca)
    BY <1>2, ReloadTyped DEF ConfigCategory
  <1> HIDE DEF rca
  <1>4. kept(remediation)
    BY <1>3, ReloadTyped DEF ConfigCategory
  <1>5. StartContext = rebuild_reasoner(remediation, StartProvider)
    BY DEF StartContext, built, policy, rca
  <1> HIDE DEF remediation
  <1> QED
    BY <1>4, <1>5, RebuildTyped

\* The rows of the AI category give a provider that Settings knows.
LEMMA StartProviderFacts ==
    ASSUME Typed
    PROVE  /\ StartProvider \in Providers
           /\ StartProvider = IF "llm_provider" \in DOMAIN overrides["ai"]
                              THEN overrides["ai"].llm_provider ELSE DefaultProvider
  <1> DEFINE rows == overrides["ai"]
  <1>1. RowsTyped("ai", rows)
    BY FieldFacts DEF Typed
  <1>2. Range(EDITABLE_FIELDS["ai"]) = {"llm_provider"}
    BY DEF Range, EDITABLE_FIELDS
  <1>3. StartProvider = ReloadProvider(rows)
    BY DEF StartProvider
  <1> HIDE DEF rows
  <1>4. AiValid(rows) /\ DOMAIN rows \subseteq {"llm_provider"}
        /\ (rows = <<>> \/ DOMAIN rows # {})
    BY <1>1, <1>2 DEF RowsTyped, Accepted
  <1>5. rows # <<>> <=> "llm_provider" \in DOMAIN rows
    BY <1>4
  <1>6. StartProvider = IF "llm_provider" \in DOMAIN rows
                        THEN rows.llm_provider ELSE DefaultProvider
    BY <1>3, <1>4, <1>5 DEF ReloadProvider
  <1> QED
    BY <1>4, <1>6, AdministrationAssumption DEF AiValid, rows

\* One element is added to a sequence.
LEMMA AppendFacts ==
    ASSUME NEW s, s \in Seq(Range(s)), NEW e
    PROVE  /\ Len(s) \in Nat /\ DOMAIN s = 1..Len(s)
           /\ Len(Append(s, e)) = Len(s) + 1 /\ Append(s, e)[Len(s) + 1] = e
           /\ \A k \in 1..Len(s) : Append(s, e)[k] = s[k]
           /\ 1..(Len(s) + 1) = (1..Len(s)) \cup {Len(s) + 1}
  <1> DEFINE S == Range(s) \cup {e}
  <1>1. Len(s) \in Nat /\ DOMAIN s = 1..Len(s) /\ \A k \in 1..Len(s) : s[k] \in S
    BY LenProperties
  <1>2. Range(s) \subseteq S /\ e \in S
    OBVIOUS
  <1> HIDE DEF S
  <1>3. s \in Seq(S)
    BY <1>1, <1>2, SeqMonotonic
  <1>4. /\ Len(Append(s, e)) = Len(s) + 1 /\ Append(s, e)[Len(s) + 1] = e
        /\ \A k \in 1..Len(s) : Append(s, e)[k] = s[k]
    BY <1>2, <1>3, AppendProperties
  <1>5. 1..(Len(s) + 1) = (1..Len(s)) \cup {Len(s) + 1}
    BY <1>1
  <1> QED
    BY <1>1, <1>4, <1>5

\* One context is replaced.
LEMMA ReplaceTyped ==
    ASSUME Sound, Typed, NEW g \in 1..Len(contexts), NEW y, ContextTyped(y),
           contexts' = [contexts EXCEPT ![g] = y]
    PROVE  /\ Len(contexts') = Len(contexts)
           /\ \A k \in 1..Len(contexts) :
                 contexts'[k] = IF k = g THEN y ELSE contexts[k]
           /\ \A k \in 1..Len(contexts') : ContextTyped(contexts'[k])
  <1> DEFINE S == Range(contexts) \cup {y}
  <1>1. contexts \in Seq(S)
    <2>1. Range(contexts) \subseteq S
      OBVIOUS
    <2>2. contexts \in Seq(Range(contexts)) /\ Len(contexts) \in Nat
      BY DEF Sound, ContextsSound
    <2>3. \A k \in 1..Len(contexts) : contexts[k] \in S
      BY <2>1, <2>2, LenProperties
    <2> QED
      BY <2>1, <2>2, <2>3, SeqMonotonic
  <1>2. y \in S
    OBVIOUS
  <1> HIDE DEF S
  <1>3. /\ Len(contexts') = Len(contexts)
        /\ \A k \in 1..Len(contexts) :
              contexts'[k] = IF k = g THEN y ELSE contexts[k]
    BY <1>1, <1>2, ExceptSeq
  <1> QED
    BY <1>3 DEF Typed

\* One request moves on.
LEMMA MoveTyped ==
    ASSUME Sound, Typed, NEW a \in Admin, NEW r, RequestTyped(r),
           request' = [request EXCEPT ![a] = r]
    PROVE  \A b \in Admin : RequestTyped(request'[b])
  BY MoveFacts DEF Sound, Typed

\* A request ends.
LEMMA FreeTyped == RequestTyped(Free) /\ Free.pc = "free"
  BY DEF RequestTyped, Free, Changing, Working

\* A write fails.
LEMMA FailsTyped ==
    ASSUME Sound, Typed, NEW a \in Admin, Fails(a)
    PROVE  /\ \A b \in Admin : RequestTyped(request'[b])
           /\ failures' \in 0..MaxFailures /\ orderly' = FALSE
  <1>1. request' = [request EXCEPT ![a] = Free]
    BY DEF Fails, Done
  <1>2. \A b \in Admin : RequestTyped(request'[b])
    BY <1>1, MoveTyped, FreeTyped
  <1>3. failures' \in 0..MaxFailures
    BY AdministrationAssumption DEF Fails, Typed
  <1> QED
    BY <1>2, <1>3 DEF Fails

\* A change is validated or rejected.
LEMMA ValidateTyped ==
    ASSUME Sound, Typed, NEW a \in Admin, NEW c \in Category, NEW changes,
           DOMAIN changes # {}, Starts(a), Validate(a, c, changes),
           UNCHANGED <<contexts, settings, stored, failures, raced>>
    PROVE  Typed'
  <1> DEFINE x   == contexts[Active]
             ok  == Valid(c, x.config, changes)
             old == IF ok THEN [f \in DOMAIN changes |-> LiveValue(x, f)] ELSE <<>>
             r   == [pc |-> IF ok THEN "validated" ELSE "rejected", ctx |-> Active,
                     category |-> c, new |-> changes, old |-> old,
                     todo |-> DOMAIN changes]
  <1>1. request' = [request EXCEPT ![a] = r]
    BY DEF Validate
  <1>2. ok => Accepted(c, changes)
    BY DEF Accepted, Valid
  <1>3. /\ r.pc \in {"validated", "rejected"} /\ (r.pc = "validated" => ok)
        /\ r.new = changes /\ r.todo = DOMAIN changes /\ r.category = c /\ r.old = old
        /\ ok => DOMAIN old = DOMAIN changes
    OBVIOUS
  <1> HIDE DEF ok, old, r
  <1>4. RequestTyped(r)
    BY <1>2, <1>3 DEF RequestTyped, Changing, Working
  <1>5. \A b \in Admin : RequestTyped(request'[b])
    BY <1>1, <1>4, MoveTyped
  <1>6. requests' \in 0..MaxRequests /\ orderly' \in BOOLEAN
    BY AdministrationAssumption DEF Starts, Typed
  <1> QED
    BY <1>5, <1>6 DEF Typed, EnvironmentsTyped, stored

\* The outcome of a request is recorded.
LEMMA AuditTyped ==
    ASSUME Sound, Typed, NEW a \in Admin, NEW pc, NEW status, Audit(a, pc, status),
           <<pc, status>> \in {<<"rejected", "rejected">>, <<"storing", "applied">>}
    PROVE  Typed'
  <1> DEFINE e == Entry(a, status)
  <1>1. EntryTyped(e)
    <2>1. /\ e.status = status /\ e.new = request[a].new /\ e.old = request[a].old
      BY DEF Entry
    <2> QED
      BY <2>1 DEF EntryTyped, Audit, Typed, RequestTyped, Changing, Working
  <1>2. UNCHANGED <<contexts, settings, overrides, environments, requests, raced>>
    BY DEF Audit
  <1>3. CASE history' = Append(history, e) /\ Done(a) /\ UNCHANGED <<failures, orderly>>
    <2>1. \A k \in 1..Len(history') : EntryTyped(history'[k])
      <3> HIDE DEF e
      <3>1. history \in Seq(Range(history)) /\ \A k \in 1..Len(history) : EntryTyped(history[k])
        BY DEF Sound, HistorySound, Typed
      <3> QED
        BY <1>1, <1>3, <3>1, AppendFacts
    <2>2. request' = [request EXCEPT ![a] = Free]
      BY <1>3 DEF Done
    <2>3. \A b \in Admin : RequestTyped(request'[b])
      BY <2>2, FreeTyped, MoveTyped
    <2> QED
      BY <1>2, <1>3, <2>1, <2>3 DEF Typed, EnvironmentsTyped
  <1>4. CASE Fails(a) /\ UNCHANGED history
    BY <1>2, <1>4, FailsTyped DEF Typed, EnvironmentsTyped
  <1> QED
    BY <1>3, <1>4 DEF Audit

\* A change in progress names a context, a category and values it accepts.
LEMMA ChangeFacts ==
    ASSUME Sound, Typed, NEW a \in Admin, request[a].pc \in Changing \ {"rejected"}
    PROVE  /\ request[a].ctx \in 1..Len(contexts)
           /\ ContextTyped(contexts[request[a].ctx])
           /\ request[a].category \in Category
           /\ DOMAIN request[a] = {"pc", "ctx", "category", "new", "old", "todo"}
           /\ Accepted(request[a].category, request[a].new)
           /\ DOMAIN request[a].new # {} /\ DOMAIN request[a].old = DOMAIN request[a].new
           /\ request[a].todo \subseteq DOMAIN request[a].new
  <1>1. RequestSound(request[a]) /\ RequestTyped(request[a])
    BY DEF Sound, RequestsSound, Typed
  <1> QED
    BY <1>1 DEF RequestSound, RequestTyped, Typed

\* A change that was validated goes on.
LEMMA GotoTyped ==
    ASSUME Sound, Typed, NEW a \in Admin, request[a].pc \in Working \cup {"recorded"},
           NEW pc \in {"mutated", "recorded", "storing"}, Goto(a, pc),
           pc = "mutated" => request[a].pc \in Working
    PROVE  \A b \in Admin : RequestTyped(request'[b])
  <1> DEFINE r == [request[a] EXCEPT !.pc = pc]
  <1>1. request' = [request EXCEPT ![a] = r]
    BY DEF Goto
  <1>2. /\ DOMAIN request[a] = {"pc", "ctx", "category", "new", "old", "todo"}
        /\ RequestTyped(request[a])
    BY ChangeFacts DEF Typed, Working, Changing
  <1>3. /\ r.pc = pc /\ r.category = request[a].category /\ r.new = request[a].new
        /\ r.old = request[a].old /\ r.todo = request[a].todo
    BY <1>2
  <1> HIDE DEF r
  <1>4. RequestTyped(r)
    BY <1>2, <1>3 DEF RequestTyped, Working, Changing
  <1> QED
    BY <1>1, <1>4, MoveTyped

\* The category whose one field is the provider, and the connection's.
LEMMA SingleFields ==
    ASSUME NEW new, DOMAIN new # {}
    PROVE  /\ Accepted("ai", new) => DOMAIN new = {"llm_provider"}
           /\ Accepted("monitoring", new) => DOMAIN new = {"prometheus_url"}
  BY DEF Accepted, Range, EDITABLE_FIELDS

\* The live object is changed.
LEMMA MutateTyped ==
    ASSUME Sound, Typed, NEW a \in Admin, Mutate(a)
    PROVE  Typed'
  <1> DEFINE r == request[a]
             x == contexts[r.ctx]
             y == apply_diffs(x, r.category, r.new)
  <1>1. /\ r.pc = "validated" /\ contexts' = [contexts EXCEPT ![r.ctx] = y]
        /\ settings' = apply_settings(settings, r.category, r.new)
        /\ \E pc \in {"mutated", "storing"} : Goto(a, pc)
        /\ raced' \in BOOLEAN
        /\ UNCHANGED <<overrides, history, environments, requests, failures, orderly>>
    BY DEF Mutate, stored, HasAfterApply
  <1>2. /\ r.ctx \in 1..Len(contexts) /\ ContextTyped(x) /\ r.category \in Category
        /\ Accepted(r.category, r.new) /\ DOMAIN r.new # {}
    BY <1>1, ChangeFacts DEF Changing, Working
  <1>3. ContextTyped(y)
    BY <1>2, ApplyTyped
  <1>4. \A k \in 1..Len(contexts') : ContextTyped(contexts'[k])
    BY <1>1, <1>2, <1>3, ReplaceTyped
  <1>5. settings' \in Providers
    <2>1. CASE r.category = "ai"
      <3>1. DOMAIN r.new = {"llm_provider"} /\ AiValid(r.new)
        BY <1>2, <2>1, SingleFields DEF Accepted
      <3> QED
        BY <1>1, <2>1, <3>1 DEF apply_settings, AiValid
    <2>2. CASE r.category # "ai"
      BY <1>1, <2>2 DEF apply_settings, Typed
    <2> QED
      BY <2>1, <2>2
  <1>6. \A b \in Admin : RequestTyped(request'[b])
    BY <1>1, GotoTyped DEF Working
  <1> QED
    BY <1>1, <1>4, <1>5, <1>6 DEF Typed, EnvironmentsTyped

\* The engines follow the policy, or the reasoner is built again.
LEMMA AfterApplyTyped ==
    ASSUME Sound, Typed, NEW a \in Admin, AfterApply(a)
    PROVE  Typed'
  <1> DEFINE r == request[a]
             x == contexts[r.ctx]
             y == IF r.category = "policy" THEN sync_dependent_engines(x, r.new)
                                           ELSE rebuild_reasoner(x, settings)
  <1>1. /\ r.pc = "mutated" /\ Goto(a, "storing")
        /\ contexts' = [contexts EXCEPT ![r.ctx] = y]
        /\ UNCHANGED <<settings, overrides, history, environments, requests, failures,
                       orderly, raced>>
    BY DEF AfterApply, stored
  <1>2. r.ctx \in 1..Len(contexts) /\ ContextTyped(x)
    BY <1>1, ChangeFacts DEF Changing, Working
  <1>3. ContextTyped(y)
    BY <1>2, SyncTyped, RebuildTyped
  <1>4. \A k \in 1..Len(contexts') : ContextTyped(contexts'[k])
    BY <1>1, <1>2, <1>3, ReplaceTyped
  <1>5. \A b \in Admin : RequestTyped(request'[b])
    BY <1>1, GotoTyped DEF Working
  <1> QED
    BY <1>1, <1>4, <1>5 DEF Typed, EnvironmentsTyped

\* The connection of an environment changes.
LEMMA RecordFacts ==
    ASSUME NEW e, EnvironmentTyped(e), NEW url
    PROVE  LET record == [e EXCEPT !.url = url] IN
           /\ EnvironmentTyped(record) /\ record.id = e.id /\ record.url = url
  BY DEF EnvironmentTyped

\* The record a change makes of the environment of its context.
LEMMA RecordTyped ==
    ASSUME Sound, Typed, NEW a \in Admin, request[a].pc \in Made
    PROVE  EnvironmentTyped(RecordOf(a))
  <1>1. EnvironmentTyped(Ctx(a).environment)
    BY ChangeFacts DEF Ctx, ContextTyped, Made, Changing, Working
  <1> QED
    BY <1>1, RecordFacts DEF RecordOf

\* The environment record, in memory
LEMMA SyncRecordTyped ==
    ASSUME Sound, Typed, NEW a \in Admin, sync_environment_record(a)
    PROVE  Typed'
  <1> DEFINE r == request[a]
             x == contexts[r.ctx]
             y == [x EXCEPT !.environment = RecordOf(a)]
  <1>1. /\ r.pc = "mutated" /\ contexts' = [contexts EXCEPT ![r.ctx] = y]
        /\ Goto(a, "recorded")
        /\ UNCHANGED <<settings, overrides, history, environments, requests, failures,
                       orderly, raced>>
    BY DEF sync_environment_record, stored
  <1>2. r.ctx \in 1..Len(contexts) /\ ContextTyped(x)
    BY <1>1, ChangeFacts DEF Changing, Working
  <1>3. EnvironmentTyped(RecordOf(a))
    BY <1>1, RecordTyped DEF Made
  <1>4. ContextTyped(y)
    <2>1. y = [config |-> x.config, remediation |-> x.remediation,
               decision |-> x.decision, reasoner |-> x.reasoner, prom |-> x.prom,
               environment |-> RecordOf(a)]
      BY <1>2, ContextFields
    <2> HIDE DEF y
    <2> QED
      BY <1>2, <1>3, <2>1 DEF ContextTyped
  <1> HIDE DEF y
  <1>5. \A k \in 1..Len(contexts') : ContextTyped(contexts'[k])
    BY <1>1, <1>2, <1>4, ReplaceTyped
  <1>6. \A b \in Admin : RequestTyped(request'[b])
    BY <1>1, GotoTyped DEF Working
  <1> QED
    BY <1>1, <1>5, <1>6 DEF Typed, EnvironmentsTyped

\* and then stored.
LEMMA StoreRecordTyped ==
    ASSUME Sound, Typed, NEW a \in Admin, StoreRecord(a)
    PROVE  Typed'
  <1>1. /\ request[a].pc = "recorded"
        /\ UNCHANGED <<contexts, settings, overrides, history, requests, raced>>
    BY DEF StoreRecord
  <1>2. EnvironmentTyped(RecordOf(a))
    BY <1>1, RecordTyped DEF Made
  <1>3. CASE /\ environments' = upsert_environment(RecordOf(a)) /\ Goto(a, "storing")
             /\ UNCHANGED <<failures, orderly>>
    <2>1. EnvironmentsTyped'
      BY <1>2, <1>3, UpsertTyped DEF Typed
    <2>2. \A b \in Admin : RequestTyped(request'[b])
      BY <1>1, <1>3, GotoTyped
    <2> QED
      BY <1>1, <1>3, <2>1, <2>2 DEF Typed
  <1>4. CASE Fails(a) /\ UNCHANGED environments
    BY <1>1, <1>4, FailsTyped DEF Typed, EnvironmentsTyped
  <1> QED
    BY <1>3, <1>4 DEF StoreRecord

\* One field of a change in force is stored.
LEMMA StoreTyped ==
    ASSUME Sound, Typed, NEW a \in Admin, set_config_override(a)
    PROVE  Typed'
  <1> DEFINE r == request[a]
             c == r.category
             rows(f) == [g \in DOMAIN overrides[c] \cup {f} |->
                            IF g = f THEN r.new[f] ELSE overrides[c][g]]
             s(f) == [r EXCEPT !.todo = @ \ {f}]
  <1>1. /\ r.pc = "storing"
        /\ UNCHANGED <<contexts, settings, history, environments, requests, raced>>
    BY DEF set_config_override
  <1>2. PICK f \in r.todo :
           \/ /\ overrides' = [overrides EXCEPT ![c] = rows(f)]
              /\ request' = [request EXCEPT ![a] = s(f)]
              /\ UNCHANGED <<failures, orderly>>
           \/ Fails(a) /\ UNCHANGED overrides
    BY DEF set_config_override
  <1>3. /\ c \in Category /\ Accepted(c, r.new) /\ r.todo \subseteq DOMAIN r.new
        /\ DOMAIN r = {"pc", "ctx", "category", "new", "old", "todo"}
        /\ DOMAIN r.new # {} /\ DOMAIN r.old = DOMAIN r.new
    BY <1>1, ChangeFacts DEF Changing
  <1>4. CASE Fails(a) /\ UNCHANGED overrides
    BY <1>1, <1>4, FailsTyped DEF Typed, EnvironmentsTyped
  <1>5. CASE /\ overrides' = [overrides EXCEPT ![c] = rows(f)]
             /\ request' = [request EXCEPT ![a] = s(f)]
             /\ UNCHANGED <<failures, orderly>>
    <2>1. /\ s(f).pc = "storing" /\ s(f).category = c /\ s(f).new = r.new
          /\ s(f).old = r.old /\ s(f).todo = r.todo \ {f}
      BY <1>1, <1>3
    <2> HIDE DEF s
    <2>2. RequestTyped(s(f))
      BY <1>3, <2>1 DEF RequestTyped, Changing, Working
    <2>3. \A b \in Admin : RequestTyped(request'[b])
      BY <1>5, <2>2, MoveTyped
    <2>4. RowsTyped(c, rows(f))
      <3>1. RowsTyped(c, overrides[c]) /\ f \in DOMAIN r.new
        BY <1>2, <1>3 DEF Typed
      <3>2. /\ DOMAIN rows(f) = DOMAIN overrides[c] \cup {f}
            /\ \A g \in DOMAIN rows(f) :
                  rows(f)[g] = IF g = f THEN r.new[g] ELSE overrides[c][g]
        OBVIOUS
      <3> HIDE DEF rows
      <3> QED
        BY <1>3, <3>1, <3>2 DEF RowsTyped, Accepted, AiValid, RemediationValid
    <2> HIDE DEF rows
    <2>5. /\ DOMAIN overrides' = Category
          /\ \A d \in Category : RowsTyped(d, overrides'[d])
      BY <1>3, <1>5, <2>4 DEF Typed
    <2> QED
      BY <1>1, <1>5, <2>3, <2>5 DEF Typed, EnvironmentsTyped
  <1> QED
    BY <1>2, <1>4, <1>5

\* A row for a new environment.
LEMMA RegisterTyped ==
    ASSUME Sound, Typed, NEW a \in Admin, NEW e \in OtherEnvironments,
           RegisterStores(a, e)
    PROVE  Typed'
  <1> DEFINE record == [id |-> e, url |-> DefaultUrl]
             r      == [pc |-> "registering", env |-> record]
  <1>1. /\ environments' = upsert_environment(record)
        /\ request' = [request EXCEPT ![a] = r]
        /\ requests < MaxRequests /\ requests' = requests + 1
        /\ orderly' \in BOOLEAN
        /\ UNCHANGED <<contexts, settings, overrides, history, failures, raced>>
    BY DEF RegisterStores
  <1>2. EnvironmentTyped(record)
    BY DEF EnvironmentTyped
  <1> HIDE DEF record
  <1>3. RequestTyped(r)
    BY <1>2 DEF RequestTyped, Changing, Working
  <1> HIDE DEF r
  <1>4. \A b \in Admin : RequestTyped(request'[b])
    BY <1>1, <1>3, MoveTyped
  <1>5. EnvironmentsTyped'
    BY <1>1, <1>2, UpsertTyped DEF Typed
  <1>6. requests' \in 0..MaxRequests
    BY <1>1, AdministrationAssumption DEF Typed
  <1> QED
    BY <1>1, <1>4, <1>5, <1>6 DEF Typed

\* A context for it.
LEMMA ActivateTyped ==
    ASSUME Sound, Typed, NEW a \in Admin, Activate(a)
    PROVE  Typed'
  <1> DEFINE x == build_context(request[a].env, settings)
  <1>1. /\ contexts' = Append(contexts, x) /\ request' = [request EXCEPT ![a] = Free]
        /\ UNCHANGED <<settings, overrides, history, environments, requests, failures,
                       orderly, raced>>
    BY DEF Activate, Done, stored
  <1>2. ContextTyped(x)
    BY BuiltTyped DEF Activate, Typed, RequestTyped
  <1> HIDE DEF x
  <1>3. \A g \in 1..Len(contexts') : ContextTyped(contexts'[g])
    <2>1. /\ contexts \in Seq(Range(contexts))
          /\ \A g \in 1..Len(contexts) : ContextTyped(contexts[g])
      BY DEF Sound, ContextsSound, Typed
    <2> QED
      BY <1>1, <1>2, <2>1, AppendFacts
  <1>4. \A b \in Admin : RequestTyped(request'[b])
    BY <1>1, FreeTyped, MoveTyped
  <1> QED
    BY <1>1, <1>3, <1>4 DEF Typed, EnvironmentsTyped

\* The first start.
LEMMA InitTyped ==
    ASSUME Init
    PROVE  Typed
  <1> DEFINE e == [id |-> FirstEnvironment, url |-> DefaultUrl]
             x == build_context(e, DefaultProvider)
  <1>1. /\ contexts = <<x>> /\ environments = <<e>> /\ settings = DefaultProvider
        /\ overrides = [c \in Category |-> <<>>] /\ history = <<>>
        /\ request = [a \in Admin |-> Free] /\ requests = 0 /\ failures = 0
        /\ orderly = TRUE /\ raced = FALSE
    BY DEF Init
  <1>2. EnvironmentTyped(e) /\ ContextTyped(x)
    BY BuiltTyped DEF EnvironmentTyped
  <1> HIDE DEF e, x
  <1>3. EnvironmentsTyped
    <2>1. environments \in Seq({e}) /\ Len(environments) = 1 /\ environments[1] = e
      BY <1>1
    <2>2. environments \in Seq(Range(environments))
      BY <2>1, OwnRange
    <2> QED
      BY <1>2, <2>1, <2>2 DEF EnvironmentsTyped
  <1>4. \A c \in Category : RowsTyped(c, overrides[c])
    BY <1>1 DEF RowsTyped, Accepted, RemediationValid, AiValid
  <1>5. \A g \in 1..Len(contexts) : ContextTyped(contexts[g])
    BY <1>1, <1>2
  <1>6. \A k \in 1..Len(history) : EntryTyped(history[k])
    BY <1>1
  <1>7. \A a \in Admin : RequestTyped(request[a])
    BY <1>1, FreeTyped
  <1>8. requests \in 0..MaxRequests /\ failures \in 0..MaxFailures
    BY <1>1, AdministrationAssumption
  <1>9. settings \in Providers /\ DOMAIN overrides = Category
        /\ orderly \in BOOLEAN /\ raced \in BOOLEAN
    BY <1>1, AdministrationAssumption
  <1> QED
    BY <1>3, <1>4, <1>5, <1>6, <1>7, <1>8, <1>9 DEF Typed

\* Every later one.
LEMMA RestartTyped ==
    ASSUME Sound, Typed, Restart
    PROVE  Typed'
  <1> DEFINE x == StartContext
  <1>1. /\ contexts' = <<x>> /\ settings' = StartProvider
        /\ request' = [a \in Admin |-> Free] /\ orderly' = (orderly /\ Quiet)
        /\ raced' = FALSE
        /\ UNCHANGED <<overrides, history, environments, requests, failures>>
    BY DEF Restart, stored
  <1>2. ContextTyped(x) /\ StartProvider \in Providers
    BY StartTyped, StartProviderFacts DEF Typed
  <1> HIDE DEF x
  <1>3. \A g \in 1..Len(contexts') : ContextTyped(contexts'[g])
    BY <1>1, <1>2
  <1>4. orderly' \in BOOLEAN
    BY <1>1
  <1> QED
    BY <1>1, <1>2, <1>3, <1>4, FreeTyped DEF Typed, EnvironmentsTyped

\* Every step.
LEMMA StepTyped ==
    ASSUME Sound, Typed, [Next]_vars
    PROVE  Typed'
  <1>1. CASE Restart
    BY <1>1, RestartTyped
  <1>2. ASSUME NEW a \in Admin, AdminStep(a)
        PROVE  Typed'
    <2>1. ASSUME NEW c \in Category, NEW changes \in Requests[c], Submit(a, c, changes)
          PROVE  Typed'
      BY <2>1, ValidateTyped, AdministrationAssumption DEF Submit
    <2>2. ASSUME NEW k \in DOMAIN history, Restore(a, k)
          PROVE  Typed'
      <3>1. /\ history[k].category \in Category /\ history[k].status = "applied"
            /\ EntryTyped(history[k])
        BY <2>2, LenProperties DEF Sound, HistorySound, Typed, Restore
      <3>2. DOMAIN history[k].old # {}
        BY <3>1 DEF EntryTyped
      <3> QED
        BY <2>2, <3>1, <3>2, ValidateTyped DEF Restore
    <2>3. CASE AuditRejection(a)
      BY <2>3, AuditTyped DEF AuditRejection
    <2>4. CASE Mutate(a)
      BY <2>4, MutateTyped
    <2>5. CASE AfterApply(a)
      BY <2>5, AfterApplyTyped
    <2>6. CASE sync_environment_record(a)
      BY <2>6, SyncRecordTyped
    <2>11. CASE StoreRecord(a)
      BY <2>11, StoreRecordTyped
    <2>7. CASE set_config_override(a)
      BY <2>7, StoreTyped
    <2>8. CASE AuditApplied(a)
      BY <2>8, AuditTyped DEF AuditApplied
    <2>9. ASSUME NEW e \in OtherEnvironments, RegisterStores(a, e)
          PROVE  Typed'
      BY <2>9, RegisterTyped
    <2>10. CASE Activate(a)
      BY <2>10, ActivateTyped
    <2> QED
      BY <1>2, <2>1, <2>2, <2>3, <2>4, <2>5, <2>6, <2>7, <2>8, <2>9, <2>10,
         <2>11
         DEF AdminStep
  <1>3. CASE UNCHANGED vars
    BY <1>3 DEF vars, stored, Typed, EnvironmentsTyped
  <1> QED
    BY <1>1, <1>2, <1>3 DEF Next

(***************************************************************************)
(* Every variable keeps its type, whatever administrators submit, whichever*)
(* writes fail and whenever the process restarts: requests name a context  *)
(* that exists, rows and entries only editable fields, and no environment  *)
(* has two rows.                                                           *)
(***************************************************************************)
THEOREM AdministrationTyped == Spec => []TypeOK
  <1>1. Sound /\ Typed => TypeOK
    <2> SUFFICES ASSUME Sound, Typed
                 PROVE  TypeOK
      OBVIOUS
    <2>1. /\ DOMAIN contexts = 1..Len(contexts) /\ DOMAIN history = 1..Len(history)
          /\ DOMAIN environments = 1..Len(environments)
      BY LenProperties
         DEF Sound, ContextsSound, HistorySound, Typed, EnvironmentsTyped
    <2>2. ASSUME NEW g \in 1..Len(contexts)
          PROVE  /\ DOMAIN contexts[g].config = DOMAIN Defaults
                 /\ contexts[g].reasoner \in Keyed \cup {NoReasoner}
                 /\ contexts[g].environment.id
                       \in OtherEnvironments \cup {FirstEnvironment}
      <3>1. ContextTyped(contexts[g]) /\ DOMAIN contexts[g].config = Fields
        BY DEF Sound, ContextsSound, ContextSound, ConfigSound, Typed
      <3>2. DOMAIN Defaults = Fields
        BY AdministrationAssumption
      <3> QED
        BY <3>1, <3>2 DEF ContextTyped, EnvironmentTyped
    <2>3. ASSUME NEW a \in Admin,
                 request[a].pc \in {"validated", "rejected", "mutated", "recorded",
                                    "storing"}
          PROVE  /\ request[a].ctx \in 1..Len(contexts)
                 /\ request[a].todo \subseteq DOMAIN request[a].new
      <3>1. RequestSound(request[a]) /\ RequestTyped(request[a])
        BY DEF Sound, RequestsSound, Typed
      <3> QED
        BY <2>3, <3>1 DEF RequestSound, RequestTyped, Changing, Working
    <2>4. \A c \in Category : DOMAIN overrides[c] \subseteq Range(EDITABLE_FIELDS[c])
      BY DEF Typed, RowsTyped, Accepted
    <2>5. \A k \in 1..Len(history) :
             /\ history[k].status \in {"applied", "rejected"}
             /\ history[k].status = "applied" =>
                   DOMAIN history[k].old = DOMAIN history[k].new
      BY DEF Typed, EntryTyped
    <2>6. \A j, k \in 1..Len(environments) :
             environments[j].id = environments[k].id => j = k
      BY DEF Typed, EnvironmentsTyped
    <2> QED
      BY <2>1, <2>2, <2>3, <2>4, <2>5, <2>6 DEF TypeOK, Typed
  <1>2. Init => Typed
    BY InitTyped
  <1>3. Sound /\ Typed /\ [Next]_vars => Typed'
    BY StepTyped
  <1> QED
    BY Invariance, <1>1, <1>2, <1>3, PTL DEF Spec

-----------------------------------------------------------------------------
(***************************************************************************)
(* While requests come one after the other: r is the request in progress,  *)
(* or Free when there is none.  A change is only made in the context the   *)
(* process started with, contexts[1]; a registration adds another.         *)
(***************************************************************************)
Now(r) ==
    \/ Quiet /\ r = Free
    \/ \E a \in Admin : /\ Busy(a) /\ r = request[a]
                        /\ \A b \in Admin \ {a} : ~Busy(b)

\* What a restart would make of a field of category c.
Stored(c, f) == IF f \in DOMAIN overrides[c] THEN overrides[c][f] ELSE Initial(f)

\* The change r is in force, and has field f of category c.
Makes(r, c, f) == r.pc \in Made /\ r.category = c /\ f \in DOMAIN r.new

\* A field in force is stored, or about to be.
FieldKept(r, c, f) ==
    \/ LiveValue(contexts[1], f) = Stored(c, f)
    \/ Makes(r, c, f) /\ f \in r.todo

\* So is the connection, with the environment, in memory and then as a row,
EnvironmentKept(r) ==
    /\ contexts[1].environment.id = environments[1].id
    /\ IF r.pc = "recorded"
       THEN r.category = "monitoring" /\ contexts[1].environment.url = contexts[1].prom
       ELSE contexts[1].environment = environments[1]
    /\ \/ contexts[1].prom = environments[1].url
       \/ r.pc \in {"mutated", "recorded"} /\ r.category = "monitoring"

\* and the reasoner is the provider's, or about to be.
ReasonerKept(r) ==
    \/ contexts[1].reasoner = Reasoner(settings)
    \/ r.pc = "mutated" /\ r.category = "ai"

\* A change knows the values it replaces, and is in force until recorded.
ChangeKept(r) ==
    /\ r.pc = "validated" =>
          \A f \in DOMAIN r.new : r.old[f] = LiveValue(contexts[1], f)
    /\ r.pc \in Made =>
          \A f \in DOMAIN r.new : r.new[f] = LiveValue(contexts[1], f)

\* The entries of field f are a chain, up to the value it has in force or
\* the one that the change in progress replaces.
Chained(r, c, f) ==
    /\ \A k \in 1..Len(history) : Sets(k, f) => LeftAt(f, k, history[k].old[f])
    /\ LeftAt(f, Len(history) + 1,
              IF Makes(r, c, f) THEN r.old[f] ELSE LiveValue(contexts[1], f))

Kept(r) ==
    /\ EnvironmentKept(r) /\ ReasonerKept(r) /\ ChangeKept(r)
    /\ \A c \in Category : \A f \in Range(EDITABLE_FIELDS[c]) :
          /\ c # "monitoring" => FieldKept(r, c, f)
          /\ Chained(r, c, f)

InOrder ==
    orderly =>
        /\ ~raced
        /\ \E r \in {Free} \cup Range(request) :
              /\ Now(r) /\ Kept(r)
              /\ Len(contexts) = 1 \/ r.pc \in {"free", "registering"}

\* The value of a field in a context, the provider being in Settings.
ValueIn(x, provider, f) ==
    CASE f = "llm_provider"   -> provider
      [] f = "prometheus_url" -> x.prom
      [] OTHER                -> x.config[f]

\* Every field lives in one place.
LEMMA FieldPlaces ==
    ASSUME NEW c \in Category, NEW f \in Range(EDITABLE_FIELDS[c])
    PROVE  /\ c = "ai" => f = "llm_provider"
           /\ c = "monitoring" => f = "prometheus_url"
           /\ c \in ConfigCategory =>
                 f \in Fields /\ f # "llm_provider" /\ f # "prometheus_url"
           /\ \A d \in Category : f \in Range(EDITABLE_FIELDS[d]) => d = c
  <1>1. /\ Range(EDITABLE_FIELDS["ai"]) = {"llm_provider"}
        /\ Range(EDITABLE_FIELDS["monitoring"]) = {"prometheus_url"}
    BY DEF Range, EDITABLE_FIELDS
  <1> QED
    BY <1>1, FieldFacts DEF ConfigCategory

\* The value in force, and the one it started from.
LEMMA ValueFacts ==
    ASSUME NEW c \in Category, NEW f \in Range(EDITABLE_FIELDS[c]), NEW x, NEW provider
    PROVE  /\ c \in ConfigCategory =>
                 ValueIn(x, provider, f) = x.config[f] /\ Initial(f) = Defaults[f]
           /\ c = "ai" =>
                 ValueIn(x, provider, f) = provider /\ Initial(f) = DefaultProvider
           /\ c = "monitoring" =>
                 ValueIn(x, provider, f) = x.prom /\ Initial(f) = DefaultUrl
  BY FieldPlaces DEF ValueIn, Initial

\* A change changes the fields it has.
LEMMA ValueChanged ==
    ASSUME NEW x, ContextTyped(x), ContextSound(x), NEW c \in Category,
           NEW new, Accepted(c, new), DOMAIN new # {}, NEW provider,
           NEW d \in Category, NEW f \in Range(EDITABLE_FIELDS[d])
    PROVE  ValueIn(apply_diffs(x, c, new), apply_settings(provider, c, new), f) =
              IF f \in DOMAIN new THEN new[f] ELSE ValueIn(x, provider, f)
  <1> DEFINE y == apply_diffs(x, c, new)
             p == apply_settings(provider, c, new)
  <1>1. /\ y.config = IF c \in ConfigCategory THEN Over(x.config, new) ELSE x.config
        /\ y.prom = IF c = "monitoring" THEN new.prometheus_url ELSE x.prom
        /\ p = IF c = "ai" THEN new.llm_provider ELSE provider
    BY ApplyTyped DEF apply_settings
  <1>2. DOMAIN x.config = Fields
    BY DEF ContextSound, ConfigSound
  <1>3. /\ c = "ai" => DOMAIN new = {"llm_provider"}
        /\ c = "monitoring" => DOMAIN new = {"prometheus_url"}
        /\ DOMAIN new \subseteq Range(EDITABLE_FIELDS[c])
    BY SingleFields DEF Accepted
  <1>4. f \in DOMAIN new => d = c
    BY <1>3, FieldPlaces
  <1> SUFFICES ValueIn(y, p, f) = IF f \in DOMAIN new THEN new[f]
                                  ELSE ValueIn(x, provider, f)
    OBVIOUS
  <1> HIDE DEF y, p
  <1>5. CASE d \in ConfigCategory
    <2>1. /\ ValueIn(y, p, f) = y.config[f] /\ ValueIn(x, provider, f) = x.config[f]
          /\ f \in Fields
      BY <1>5, ValueFacts, FieldPlaces
    <2> QED
      BY <1>1, <1>2, <1>4, <1>5, <2>1, OverFacts
  <1>6. CASE d = "ai"
    <2>1. /\ ValueIn(y, p, f) = p /\ ValueIn(x, provider, f) = provider
          /\ f = "llm_provider"
      BY <1>6, ValueFacts, FieldPlaces
    <2> QED
      BY <1>1, <1>3, <1>4, <1>6, <2>1
  <1>7. CASE d = "monitoring"
    <2>1. /\ ValueIn(y, p, f) = y.prom /\ ValueIn(x, provider, f) = x.prom
          /\ f = "prometheus_url"
      BY <1>7, ValueFacts, FieldPlaces
    <2> QED
      BY <1>1, <1>3, <1>4, <1>7, <2>1
  <1>8. d \in ConfigCategory \/ d = "ai" \/ d = "monitoring"
    BY FieldFacts DEF ConfigCategory
  <1> QED
    BY <1>5, <1>6, <1>7, <1>8

-----------------------------------------------------------------------------
(***************************************************************************)
(* The history.                                                            *)
(***************************************************************************)
\* The entries so far, and one more.
LEMMA HistoryFacts ==
    ASSUME HistorySound, NEW e, history' = Append(history, e)
    PROVE  /\ Len(history) \in Nat /\ Len(history') = Len(history) + 1
           /\ history'[Len(history) + 1] = e
           /\ \A k \in 1..Len(history) : history'[k] = history[k]
           /\ 1..Len(history') = (1..Len(history)) \cup {Len(history) + 1}
  BY AppendFacts DEF HistorySound

\* What the entries before an entry left does not change,
LEMMA LeftBefore ==
    ASSUME HistorySound, NEW e, history' = Append(history, e), NEW f, NEW v,
           NEW k \in 1..(Len(history) + 1), LeftAt(f, k, v)
    PROVE  LeftAt(f, k, v)'
  <1> DEFINE n == Len(history)
  <1>1. n \in Nat /\ \A j \in 1..n : history'[j] = history[j]
    BY HistoryFacts
  <1>2. \A j \in 1..(k - 1) : j \in 1..n /\ (j + 1)..(k - 1) \subseteq 1..n
    BY <1>1
  <1> HIDE DEF n
  <1>3. \A j \in 1..(k - 1) : (Sets(j, f)' <=> Sets(j, f)) /\ history'[j] = history[j]
    BY <1>1, <1>2 DEF Sets
  <1>4. \A j \in 1..(k - 1) : \A i \in (j + 1)..(k - 1) : Sets(i, f)' <=> Sets(i, f)
    BY <1>1, <1>2 DEF Sets
  <1> QED
    BY <1>3, <1>4 DEF LeftAt

\* an entry that does not set a field leaves it where it was,
LEMMA LeftByOther ==
    ASSUME HistorySound, NEW e, history' = Append(history, e), NEW f, NEW v,
           ~(e.status = "applied" /\ f \in DOMAIN e.new),
           LeftAt(f, Len(history) + 1, v)
    PROVE  LeftAt(f, Len(history) + 1, v)'
  <1>n. PICK n : n = Len(history)
    OBVIOUS
  <1>1. /\ n \in Nat /\ history'[n + 1] = e /\ Len(history') = n + 1
        /\ \A j \in 1..n : history'[j] = history[j]
    BY <1>n, HistoryFacts
  <1> SUFFICES ASSUME LeftAt(f, n + 1, v)
               PROVE  LeftAt(f, n + 2, v)'
    <2>1. (n + 1) + 1 = n + 2
      BY <1>1
    <2> QED
      BY <1>n, <1>1, <2>1
  <1>2. /\ (n + 1) - 1 = n /\ (n + 2) - 1 = n + 1
        /\ 1..(n + 1) = (1..n) \cup {n + 1}
        /\ \A j \in 1..n : (j + 1)..(n + 1) = ((j + 1)..n) \cup {n + 1}
        /\ \A j \in 1..n : (j + 1)..n \subseteq 1..n
    BY <1>1
  <1>3. \A j \in 1..n : (Sets(j, f)' <=> Sets(j, f)) /\ history'[j] = history[j]
    BY <1>1 DEF Sets
  <1>4. ~Sets(n + 1, f)'
    BY <1>1 DEF Sets
  <1>5. CASE v = Initial(f) /\ \A j \in 1..n : ~Sets(j, f)
    BY <1>2, <1>3, <1>4, <1>5 DEF LeftAt
  <1>6. ASSUME NEW j \in 1..n, Sets(j, f), v = history[j].new[f],
               \A i \in (j + 1)..n : ~Sets(i, f)
        PROVE  LeftAt(f, n + 2, v)'
    <2>1. Sets(j, f)' /\ v = history'[j].new[f]
      BY <1>3, <1>6
    <2>2. \A i \in ((j + 1)..n) \cup {n + 1} : ~Sets(i, f)'
      BY <1>2, <1>3, <1>4, <1>6
    <2>3. j \in 1..((n + 2) - 1) /\ (j + 1)..((n + 2) - 1) = ((j + 1)..n) \cup {n + 1}
      BY <1>2
    <2> QED
      BY <2>1, <2>2, <2>3 DEF LeftAt
  <1> QED
    BY <1>2, <1>5, <1>6 DEF LeftAt

\* and one that sets it leaves it at its new value.
LEMMA LeftByEntry ==
    ASSUME HistorySound, NEW e, history' = Append(history, e), NEW f,
           e.status = "applied" /\ f \in DOMAIN e.new
    PROVE  LeftAt(f, Len(history) + 1, e.new[f])'
  <1>n. PICK n : n = Len(history)
    OBVIOUS
  <1>1. /\ n \in Nat /\ history'[n + 1] = e /\ Len(history') = n + 1
    BY <1>n, HistoryFacts
  <1>2. (n + 2) - 1 = n + 1 /\ n + 1 \in 1..(n + 1) /\ (n + 2)..(n + 1) = {}
        /\ (n + 1) + 1 = n + 2
    BY <1>1
  <1>3. Sets(n + 1, f)' /\ history'[n + 1].new[f] = e.new[f]
    BY <1>1 DEF Sets
  <1> QED
    BY <1>1, <1>2, <1>3 DEF LeftAt

-----------------------------------------------------------------------------
(***************************************************************************)
(* The steps of a request that no other overlaps.                          *)
(***************************************************************************)
\* Nothing changes but the request, and no change is in force.
LEMMA SameKept ==
    ASSUME NEW r, r.pc \notin Made, Kept(r), NEW s, s.pc \notin Made,
           s.pc = "validated" =>
              \A f \in DOMAIN s.new : s.old[f] = LiveValue(contexts[1], f),
           contexts'[1] = contexts[1], environments'[1] = environments[1],
           UNCHANGED <<settings, overrides, history>>
    PROVE  Kept(s)'
  <1>1. \A f : LiveValue(contexts[1], f)' = LiveValue(contexts[1], f)
    BY DEF LiveValue
  <1>2. \A c, f : ~Makes(r, c, f) /\ ~Makes(s, c, f)
    BY DEF Makes
  <1>3. r.pc \notin {"mutated", "recorded"} /\ s.pc \notin {"mutated", "recorded"}
    BY DEF Made
  <1>4. EnvironmentKept(s)' /\ ReasonerKept(s)'
    BY <1>3 DEF Kept, EnvironmentKept, ReasonerKept
  <1>5. ChangeKept(s)'
    BY <1>1 DEF ChangeKept
  <1>6. ASSUME NEW c \in Category, NEW f \in Range(EDITABLE_FIELDS[c])
        PROVE  /\ c # "monitoring" => FieldKept(s, c, f)'
               /\ Chained(s, c, f)'
    <2>1. (c # "monitoring" => FieldKept(r, c, f)) /\ Chained(r, c, f)
      BY DEF Kept
    <2>2. c # "monitoring" => FieldKept(s, c, f)'
      BY <1>1, <1>2, <2>1 DEF FieldKept, Stored
    <2>3. Chained(s, c, f)'
      BY <1>1, <1>2, <2>1 DEF Chained, LeftAt, Sets
    <2> QED
      BY <2>2, <2>3
  <1> QED
    BY <1>4, <1>5, <1>6 DEF Kept

\* A request starts: its change is validated against the values in force.
LEMMA ValidateKept ==
    ASSUME Len(contexts) = 1, NEW a \in Admin, NEW c \in Category, NEW changes,
           Validate(a, c, changes), Kept(Free),
           UNCHANGED <<contexts, settings, stored>>
    PROVE  \E s : /\ request' = [request EXCEPT ![a] = s] /\ Kept(s)'
                  /\ s.pc \in {"validated", "rejected"}
  <1>1. PICK x, provider : x = contexts[1] /\ provider = settings
    OBVIOUS
  <1> DEFINE ok == Valid(c, x.config, changes)
             s  == [pc |-> IF ok THEN "validated" ELSE "rejected", ctx |-> 1,
                    category |-> c, new |-> changes,
                    old |-> IF ok THEN [f \in DOMAIN changes |-> ValueIn(x, provider, f)]
                                  ELSE <<>>,
                    todo |-> DOMAIN changes]
  <1>2. \A f : LiveValue(x, f) = ValueIn(x, provider, f)
    BY <1>1 DEF LiveValue, ValueIn
  <1>3. request' = [request EXCEPT ![a] = s]
    BY <1>1, <1>2 DEF Validate, Active
  <1>4. /\ s.pc \in {"validated", "rejected"}
        /\ s.pc = "validated" =>
              \A f \in DOMAIN s.new : s.old[f] = ValueIn(x, provider, f)
    OBVIOUS
  <1> HIDE DEF s
  <1>5. Free.pc \notin Made /\ s.pc \notin Made
    BY <1>4 DEF Free, Made
  <1>6. Kept(s)'
    BY <1>1, <1>2, <1>4, <1>5, SameKept DEF stored
  <1> QED
    BY <1>3, <1>4, <1>6

\* The request is recorded and over.
LEMMA AuditKept ==
    ASSUME Sound, Typed, NEW a \in Admin, NEW r, r = request[a], Kept(r),
           NEW status, NEW pc, Audit(a, pc, status),
           \/ pc = "rejected" /\ status = "rejected"
           \/ pc = "storing" /\ status = "applied" /\ r.todo = {},
           ~Fails(a)
    PROVE  request' = [request EXCEPT ![a] = Free] /\ Kept(Free)'
  <1>1. PICK e : /\ e.status = status /\ e.new = r.new /\ e.old = r.old
                 /\ history' = Append(history, e)
    BY DEF Audit, Entry
  <1>2. /\ r.pc = pc /\ request' = [request EXCEPT ![a] = Free]
        /\ UNCHANGED <<contexts, settings, overrides, environments>>
    BY DEF Audit, Done
  <1>3. HistorySound /\ Free.pc \notin Made
        /\ Free.pc \notin {"validated", "recorded"}
        /\ r.pc \notin {"mutated", "recorded"}
    BY <1>2 DEF Sound, Free, Made
  <1>4. \A f : LiveValue(contexts[1], f)' = LiveValue(contexts[1], f)
    BY <1>2 DEF LiveValue
  <1>5. EnvironmentKept(Free)' /\ ReasonerKept(Free)'
    BY <1>2, <1>3 DEF Kept, EnvironmentKept, ReasonerKept
  <1>6. ChangeKept(Free)'
    BY <1>3 DEF ChangeKept
  <1>7. ASSUME NEW c \in Category, NEW f \in Range(EDITABLE_FIELDS[c])
        PROVE  /\ c # "monitoring" => FieldKept(Free, c, f)'
               /\ Chained(Free, c, f)'
    <2>1. (c # "monitoring" => FieldKept(r, c, f)) /\ Chained(r, c, f)
      BY DEF Kept
    <2>2. ~Makes(Free, c, f)
      BY <1>3 DEF Makes
    <2>3. c # "monitoring" => FieldKept(Free, c, f)'
      <3>1. ~(Makes(r, c, f) /\ f \in r.todo)
        BY <1>2 DEF Makes, Made
      <3> QED
        BY <1>2, <1>4, <2>1, <3>1 DEF FieldKept, Stored
    <2>4. Chained(Free, c, f)'
      <3>1. PICK n, v : n = Len(history) /\ v = LiveValue(contexts[1], f)
        OBVIOUS
      <3> DEFINE w == IF Makes(r, c, f) THEN r.old[f] ELSE v
      <3>2. LeftAt(f, n + 1, w)
        BY <2>1, <3>1 DEF Chained
      <3>3. /\ n \in Nat /\ Len(history') = n + 1 /\ history'[n + 1] = e
            /\ \A k \in 1..n : history'[k] = history[k]
            /\ 1..Len(history') = (1..n) \cup {n + 1} /\ n + 1 \in 1..(n + 1)
            /\ 1..n \subseteq 1..(n + 1)
        BY <1>1, <1>3, <3>1, HistoryFacts
      <3> HIDE DEF w
      <3>4. ASSUME NEW k \in 1..n, Sets(k, f)'
            PROVE  LeftAt(f, k, history[k].old[f])'
        <4>1. PICK u : u = history[k].old[f]
          OBVIOUS
        <4>2. LeftAt(f, k, u)
          BY <2>1, <3>1, <3>3, <3>4, <4>1 DEF Chained, Sets
        <4>3. LeftAt(f, k, u)'
          BY <1>1, <1>3, <3>1, <3>3, <4>2, LeftBefore
        <4> QED
          BY <3>3, <4>1, <4>3
      <3>5. /\ Sets(n + 1, f)' => LeftAt(f, n + 1, history[n + 1].old[f])'
            /\ LeftAt(f, (n + 1) + 1, v)'
        <4>1. CASE e.status = "applied" /\ f \in DOMAIN e.new
          <5>1. r.pc = "storing" /\ f \in DOMAIN r.new
            BY <1>1, <1>2, <4>1
          <5>2. /\ r.category \in Category
                /\ DOMAIN r.new \subseteq Range(EDITABLE_FIELDS[r.category])
            BY <5>1, ChangeFacts DEF Changing, Accepted
          <5>3. Makes(r, c, f)
            BY <5>1, <5>2, FieldPlaces DEF Makes, Made
          <5>4. w = e.old[f] /\ v = e.new[f]
            BY <1>1, <3>1, <5>1, <5>3 DEF Kept, ChangeKept, Made, w
          <5>5. LeftAt(f, n + 1, w)'
            BY <1>1, <1>3, <3>1, <3>2, <3>3, LeftBefore
          <5>6. LeftAt(f, (n + 1) + 1, e.new[f])'
            BY <1>1, <1>3, <3>1, <3>3, <4>1, LeftByEntry
          <5> QED
            BY <3>3, <5>4, <5>5, <5>6
        <4>2. CASE ~(e.status = "applied" /\ f \in DOMAIN e.new)
          <5>1. ~Makes(r, c, f)
            BY <1>1, <1>2, <4>2 DEF Makes, Made
          <5>2. LeftAt(f, (n + 1) + 1, v)'
            BY <1>1, <1>3, <3>1, <3>2, <3>3, <4>2, <5>1, LeftByOther DEF w
          <5>3. ~Sets(n + 1, f)'
            BY <3>3, <4>2 DEF Sets
          <5> QED
            BY <5>2, <5>3
        <4> QED
          BY <4>1, <4>2
      <3>6. \A k \in 1..Len(history') : Sets(k, f)' => LeftAt(f, k, history[k].old[f])'
        BY <3>3, <3>4, <3>5
      <3>7. LeftAt(f, Len(history) + 1, v)' /\ v = LiveValue(contexts[1], f)'
        BY <1>4, <3>1, <3>3, <3>5
      <3> QED
        BY <2>2, <3>6, <3>7 DEF Chained
    <2> QED
      BY <2>3, <2>4
  <1> QED
    BY <1>2, <1>5, <1>6, <1>7 DEF Kept

\* The change is made: the fields that differ from the store are its own.
LEMMA MutateKept ==
    ASSUME Sound, Typed, Len(contexts) = 1, NEW a \in Admin, NEW r, r = request[a],
           Kept(r), Mutate(a)
    PROVE  \E s : /\ request' = [request EXCEPT ![a] = s] /\ Kept(s)'
                  /\ s.pc \in Made /\ Len(contexts') = 1
  <1>1. PICK x, provider : x = contexts[1] /\ provider = settings
    OBVIOUS
  <1> DEFINE y == apply_diffs(x, r.category, r.new)
             q == apply_settings(provider, r.category, r.new)
             p == IF r.category \in HasAfterApply THEN "mutated" ELSE "storing"
             s == [r EXCEPT !.pc = p]
  <1>2. /\ r.pc = "validated" /\ r.ctx = 1 /\ r.category \in Category
        /\ DOMAIN r = {"pc", "ctx", "category", "new", "old", "todo"}
        /\ Accepted(r.category, r.new) /\ DOMAIN r.new # {}
        /\ ContextTyped(x) /\ ContextSound(x) /\ r.todo = DOMAIN r.new
    <2>1. r.pc = "validated"
      BY DEF Mutate
    <2>2. r.ctx \in 1..Len(contexts) /\ 1 \in 1..Len(contexts) /\ RequestTyped(r)
      BY <2>1, ChangeFacts DEF Changing, Working, Typed
    <2>3. r.ctx = 1
      BY <2>2
    <2>4. ContextTyped(x) /\ ContextSound(x)
      BY <1>1, <2>2 DEF Typed, Sound, ContextsSound
    <2> QED
      BY <2>1, <2>2, <2>3, <2>4, ChangeFacts DEF Changing, Working, RequestTyped
  <1>3. /\ contexts' = [contexts EXCEPT ![1] = y] /\ settings' = q
        /\ request' = [request EXCEPT ![a] = s]
        /\ UNCHANGED <<overrides, history, environments>>
    BY <1>1, <1>2 DEF Mutate, Goto, stored
  <1>4. /\ s.pc = p /\ s.category = r.category /\ s.new = r.new /\ s.old = r.old
        /\ s.todo = r.todo
    BY <1>2
  <1>5. /\ p \in Made /\ p # "recorded"
        /\ r.category \in {"monitoring", "ai"} => p = "mutated"
    BY DEF Made, HasAfterApply
  <1>6. /\ y.prom = IF r.category = "monitoring" THEN r.new.prometheus_url ELSE x.prom
        /\ y.reasoner = x.reasoner /\ y.environment = x.environment
        /\ ContextTyped(y)
        /\ q = IF r.category = "ai" THEN r.new.llm_provider ELSE provider
    <2>1. q = IF r.category = "ai" THEN r.new.llm_provider ELSE provider
      BY DEF apply_settings
    <2> HIDE DEF q, p, s
    <2>2. PICK c, new : c \in Category /\ c = r.category /\ new = r.new
      BY <1>2
    <2>3. ContextTyped(x) /\ c \in Category
      BY <1>2, <2>2
    <2>4. /\ ContextTyped(apply_diffs(x, c, new))
          /\ apply_diffs(x, c, new).prom =
                IF c = "monitoring" THEN new.prometheus_url ELSE x.prom
          /\ apply_diffs(x, c, new).reasoner = x.reasoner
          /\ apply_diffs(x, c, new).environment = x.environment
      BY <2>3, ApplyTyped
    <2> QED
      BY <2>1, <2>2, <2>4
  <1>7. \A d \in Category : \A f \in Range(EDITABLE_FIELDS[d]) :
           ValueIn(y, q, f) = IF f \in DOMAIN r.new THEN r.new[f]
                                                   ELSE ValueIn(x, provider, f)
    BY <1>2, ValueChanged
  <1> HIDE DEF y, q, p, s
  <1>8. contexts'[1] = y /\ Len(contexts') = 1
    BY <1>2, <1>3, <1>6, ReplaceTyped
  <1>9. \A f : /\ LiveValue(contexts[1], f) = ValueIn(x, provider, f)
               /\ LiveValue(contexts[1], f)' = ValueIn(y, q, f)
    BY <1>1, <1>3, <1>8 DEF LiveValue, ValueIn
  <1>10. r.pc \notin Made
    BY <1>2 DEF Made
  <1>11. EnvironmentKept(s)'
    BY <1>1, <1>2, <1>3, <1>4, <1>5, <1>6, <1>8 DEF Kept, EnvironmentKept
  <1>12. ReasonerKept(s)'
    BY <1>1, <1>2, <1>3, <1>4, <1>5, <1>6, <1>8 DEF Kept, ReasonerKept
  <1>13. ChangeKept(s)'
    <2>1. s.pc # "validated"
      BY <1>4, <1>5 DEF Made
    <2>2. \A f \in DOMAIN s.new : s.new[f] = LiveValue(contexts[1], f)'
      BY <1>2, <1>4, <1>7, <1>9 DEF Accepted
    <2> QED
      BY <2>1, <2>2 DEF ChangeKept
  <1>14. ASSUME NEW c \in Category, NEW f \in Range(EDITABLE_FIELDS[c])
         PROVE  /\ c # "monitoring" => FieldKept(s, c, f)'
                /\ Chained(s, c, f)'
    <2>1. (c # "monitoring" => FieldKept(r, c, f)) /\ Chained(r, c, f)
      BY DEF Kept
    <2>2. ~Makes(r, c, f) /\ (Makes(s, c, f) <=> f \in DOMAIN r.new)
      BY <1>2, <1>4, <1>5, <1>10, FieldPlaces DEF Makes, Accepted
    <2>3. f \notin DOMAIN r.new =>
             LiveValue(contexts[1], f)' = LiveValue(contexts[1], f)
      BY <1>7, <1>9
    <2>4. f \in DOMAIN r.new => r.old[f] = LiveValue(contexts[1], f)
      BY <1>2 DEF Kept, ChangeKept
    <2>5. c # "monitoring" => FieldKept(s, c, f)'
      BY <1>2, <1>3, <1>4, <2>1, <2>2, <2>3 DEF FieldKept, Stored
    <2>6. Chained(s, c, f)'
      BY <1>3, <1>4, <2>1, <2>2, <2>3, <2>4 DEF Chained, LeftAt, Sets
    <2> QED
      BY <2>5, <2>6
  <1>15. Kept(s)'
    BY <1>11, <1>12, <1>13, <1>14 DEF Kept
  <1> QED
    BY <1>3, <1>4, <1>5, <1>8, <1>15

\* A change that is in force goes on to be stored: the values stay.
LEMMA GoOnKept ==
    ASSUME NEW r, Kept(r), r.pc \in Made,
           DOMAIN r = {"pc", "ctx", "category", "new", "old", "todo"},
           \A f : LiveValue(contexts[1], f)' = LiveValue(contexts[1], f),
           NEW pc \in Made, NEW s, s = [r EXCEPT !.pc = pc],
           UNCHANGED <<overrides, history>>
    PROVE  /\ ChangeKept(s)'
           /\ \A c \in Category : \A f \in Range(EDITABLE_FIELDS[c]) :
                 /\ c # "monitoring" => FieldKept(s, c, f)'
                 /\ Chained(s, c, f)'
  <1>1. /\ s.pc = pc /\ s.category = r.category /\ s.new = r.new
        /\ s.old = r.old /\ s.todo = r.todo
    BY DEF Made
  <1>2. ChangeKept(s)'
    BY <1>1 DEF Kept, ChangeKept, Made
  <1>3. ASSUME NEW c \in Category, NEW f \in Range(EDITABLE_FIELDS[c])
        PROVE  /\ c # "monitoring" => FieldKept(s, c, f)'
               /\ Chained(s, c, f)'
    <2>1. (c # "monitoring" => FieldKept(r, c, f)) /\ Chained(r, c, f)
      BY DEF Kept
    <2>2. Makes(r, c, f) <=> Makes(s, c, f)
      BY <1>1 DEF Makes, Made
    <2>3. c # "monitoring" => FieldKept(s, c, f)'
      BY <1>1, <2>1, <2>2 DEF FieldKept, Stored
    <2>4. Chained(s, c, f)'
      BY <1>1, <2>1, <2>2 DEF Chained, LeftAt, Sets
    <2> QED
      BY <2>3, <2>4
  <1> QED
    BY <1>2, <1>3

\* The request a change is in, and the context it is made to.
LEMMA MutatedFacts ==
    ASSUME Sound, Typed, Len(contexts) = 1, NEW a \in Admin, NEW r, r = request[a],
           r.pc \in {"mutated", "recorded"}
    PROVE  /\ r.ctx = 1 /\ 1 \in 1..Len(contexts) /\ r.category \in Category
           /\ DOMAIN r = {"pc", "ctx", "category", "new", "old", "todo"}
           /\ Accepted(r.category, r.new) /\ DOMAIN r.new # {}
           /\ ContextTyped(contexts[1])
  <1>1. r.ctx \in 1..Len(contexts) /\ 1 \in 1..Len(contexts)
    BY ChangeFacts DEF Changing, Working
  <1>2. r.ctx = 1
    BY <1>1
  <1> QED
    BY <1>1, <1>2, ChangeFacts DEF Changing, Working, Typed

\* The engines follow the policy, or the reasoner is built again.
LEMMA AfterApplyKept ==
    ASSUME Sound, Typed, Len(contexts) = 1, NEW a \in Admin, NEW r, r = request[a],
           Kept(r), AfterApply(a)
    PROVE  \E s : /\ request' = [request EXCEPT ![a] = s] /\ Kept(s)'
                  /\ s.pc \in Made /\ Len(contexts') = 1
  <1>1. PICK x, provider : x = contexts[1] /\ provider = settings
    OBVIOUS
  <1> DEFINE y == IF r.category = "policy" THEN sync_dependent_engines(x, r.new)
                                           ELSE rebuild_reasoner(x, provider)
             s == [r EXCEPT !.pc = "storing"]
  <1>2. /\ r.pc = "mutated" /\ r.category \in {"policy", "ai"}
        /\ DOMAIN r = {"pc", "ctx", "category", "new", "old", "todo"}
        /\ ContextTyped(x) /\ r.ctx = 1 /\ 1 \in 1..Len(contexts)
    BY <1>1, MutatedFacts DEF AfterApply
  <1>3. /\ contexts' = [contexts EXCEPT ![1] = y]
        /\ request' = [request EXCEPT ![a] = s]
        /\ UNCHANGED <<settings, overrides, history, environments>>
    BY <1>1, <1>2 DEF AfterApply, Goto, stored
  <1>4. /\ ContextTyped(y) /\ y.config = x.config /\ y.prom = x.prom
        /\ y.environment = x.environment
        /\ r.category = "policy" => y.reasoner = x.reasoner
        /\ r.category = "ai" => y.reasoner = Reasoner(provider)
    BY <1>2, SyncTyped, RebuildTyped
  <1>5. s.pc = "storing" /\ s.category = r.category
    BY <1>2
  <1>6. s = [r EXCEPT !.pc = "storing"] /\ "storing" \in Made /\ r.pc \in Made
    BY <1>2 DEF Made
  <1> HIDE DEF y, s
  <1>7. contexts'[1] = y /\ Len(contexts') = 1
    BY <1>2, <1>3, <1>4, ReplaceTyped
  <1>8. \A f : LiveValue(contexts[1], f)' = LiveValue(contexts[1], f)
    BY <1>1, <1>3, <1>4, <1>7 DEF LiveValue
  <1>9. EnvironmentKept(s)' /\ ReasonerKept(s)'
    BY <1>1, <1>2, <1>3, <1>4, <1>5, <1>7
       DEF Kept, EnvironmentKept, ReasonerKept
  <1>10. /\ ChangeKept(s)'
         /\ \A c \in Category : \A f \in Range(EDITABLE_FIELDS[c]) :
               /\ c # "monitoring" => FieldKept(s, c, f)'
               /\ Chained(s, c, f)'
    BY <1>2, <1>3, <1>6, <1>8, GoOnKept
  <1>11. Kept(s)'
    BY <1>9, <1>10 DEF Kept
  <1> QED
    BY <1>3, <1>5, <1>7, <1>11 DEF Made

\* The environment takes over the connection that is in force,
LEMMA SyncRecordKept ==
    ASSUME Sound, Typed, Len(contexts) = 1, NEW a \in Admin, NEW r, r = request[a],
           Kept(r), sync_environment_record(a)
    PROVE  \E s : /\ request' = [request EXCEPT ![a] = s] /\ Kept(s)'
                  /\ s.pc \in Made /\ Len(contexts') = 1
  <1>1. PICK x : x = contexts[1]
    OBVIOUS
  <1> DEFINE e == RecordOf(a)
             y == [x EXCEPT !.environment = e]
             s == [r EXCEPT !.pc = "recorded"]
  <1>2. /\ r.pc = "mutated" /\ r.category = "monitoring"
        /\ DOMAIN r = {"pc", "ctx", "category", "new", "old", "todo"}
        /\ ContextTyped(x) /\ r.ctx = 1 /\ 1 \in 1..Len(contexts)
        /\ DOMAIN r.new = {"prometheus_url"}
    BY <1>1, MutatedFacts, SingleFields DEF sync_environment_record
  <1>3. /\ contexts' = [contexts EXCEPT ![1] = y]
        /\ request' = [request EXCEPT ![a] = s]
        /\ UNCHANGED <<settings, overrides, history, environments>>
    BY <1>1, <1>2 DEF sync_environment_record, Goto, stored
  <1>4. EnvironmentTyped(e) /\ e.id = x.environment.id /\ e.url = r.new.prometheus_url
    BY <1>1, <1>2, RecordFacts DEF ContextTyped, RecordOf, Ctx
  <1>5. s.pc = "recorded" /\ s.category = r.category
    BY <1>2
  <1>6. s = [r EXCEPT !.pc = "recorded"] /\ "recorded" \in Made /\ r.pc \in Made
    BY <1>2 DEF Made
  <1> HIDE DEF e, s
  <1>7. y = [config |-> x.config, remediation |-> x.remediation, decision |-> x.decision,
             reasoner |-> x.reasoner, prom |-> x.prom, environment |-> e]
    BY <1>2, ContextFields
  <1> HIDE DEF y
  <1>8. ContextTyped(y)
    BY <1>2, <1>4, <1>7 DEF ContextTyped
  <1>9. contexts'[1] = y /\ Len(contexts') = 1
    BY <1>2, <1>3, <1>8, ReplaceTyped
  <1>10. \A f : LiveValue(contexts[1], f)' = LiveValue(contexts[1], f)
    BY <1>1, <1>3, <1>7, <1>9 DEF LiveValue
  <1>11. x.prom = r.new.prometheus_url
    BY <1>1, <1>2 DEF Kept, ChangeKept, Made, LiveValue
  <1>12. EnvironmentKept(s)' /\ ReasonerKept(s)'
    BY <1>1, <1>2, <1>3, <1>4, <1>5, <1>7, <1>9, <1>11
       DEF Kept, EnvironmentKept, ReasonerKept
  <1>13. /\ ChangeKept(s)'
         /\ \A c \in Category : \A f \in Range(EDITABLE_FIELDS[c]) :
               /\ c # "monitoring" => FieldKept(s, c, f)'
               /\ Chained(s, c, f)'
    BY <1>2, <1>3, <1>6, <1>10, GoOnKept
  <1>14. Kept(s)'
    BY <1>12, <1>13 DEF Kept
  <1> QED
    BY <1>3, <1>5, <1>9, <1>14 DEF Made

\* and so does its row.
LEMMA StoreRecordKept ==
    ASSUME Sound, Typed, Len(contexts) = 1, NEW a \in Admin, NEW r, r = request[a],
           Kept(r), StoreRecord(a), ~Fails(a)
    PROVE  \E s : /\ request' = [request EXCEPT ![a] = s] /\ Kept(s)'
                  /\ s.pc \in Made
  <1>1. PICK x : x = contexts[1]
    OBVIOUS
  <1> DEFINE e == RecordOf(a)
             s == [r EXCEPT !.pc = "storing"]
  <1>2. /\ r.pc = "recorded" /\ r.category = "monitoring"
        /\ DOMAIN r = {"pc", "ctx", "category", "new", "old", "todo"}
        /\ ContextTyped(x) /\ r.ctx = 1 /\ DOMAIN r.new = {"prometheus_url"}
    BY <1>1, MutatedFacts, SingleFields DEF StoreRecord, Kept, EnvironmentKept
  <1>3. /\ environments' = upsert_environment(e)
        /\ request' = [request EXCEPT ![a] = s]
        /\ UNCHANGED <<contexts, settings, overrides, history>>
    BY <1>2 DEF StoreRecord, Goto
  <1>4. EnvironmentTyped(e) /\ e.id = x.environment.id /\ e.url = r.new.prometheus_url
    BY <1>1, <1>2, RecordFacts DEF ContextTyped, RecordOf, Ctx
  <1>5. s.pc = "storing" /\ s.category = r.category
    BY <1>2
  <1>6. s = [r EXCEPT !.pc = "storing"] /\ "storing" \in Made /\ r.pc \in Made
    BY <1>2 DEF Made
  <1> HIDE DEF e, s
  <1>7. x.prom = r.new.prometheus_url
    BY <1>1, <1>2 DEF Kept, ChangeKept, Made, LiveValue
  <1>8. x.environment = e /\ x.prom = e.url
    <2>1. x.environment.url = x.prom /\ EnvironmentTyped(x.environment)
      BY <1>1, <1>2 DEF Kept, EnvironmentKept, ContextTyped
    <2> QED
      BY <1>4, <1>7, <2>1 DEF EnvironmentTyped
  <1>9. environments'[1] = e
    <2>1. 1 \in 1..Len(environments)
      BY LenProperties DEF Typed, EnvironmentsTyped
    <2>2. environments[1].id = e.id
      BY <1>1, <1>4 DEF Kept, EnvironmentKept
    <2> QED
      BY <1>3, <1>4, <2>1, <2>2, UpsertTyped DEF Typed
  <1>10. \A f : LiveValue(contexts[1], f)' = LiveValue(contexts[1], f)
    BY <1>3 DEF LiveValue
  <1>11. EnvironmentKept(s)' /\ ReasonerKept(s)'
    BY <1>1, <1>2, <1>3, <1>5, <1>8, <1>9 DEF Kept, EnvironmentKept, ReasonerKept
  <1>12. /\ ChangeKept(s)'
         /\ \A c \in Category : \A f \in Range(EDITABLE_FIELDS[c]) :
               /\ c # "monitoring" => FieldKept(s, c, f)'
               /\ Chained(s, c, f)'
    BY <1>2, <1>3, <1>6, <1>10, GoOnKept
  <1>13. Kept(s)'
    BY <1>11, <1>12 DEF Kept
  <1> QED
    BY <1>3, <1>5, <1>13 DEF Made

\* A new environment has its row after the first one's,
LEMMA RegisterKept ==
    ASSUME Sound, Typed, NEW a \in Admin, NEW e \in OtherEnvironments,
           RegisterStores(a, e), Kept(Free)
    PROVE  \E s : /\ request' = [request EXCEPT ![a] = s] /\ Kept(s)'
                  /\ s.pc = "registering"
  <1> DEFINE record == [id |-> e, url |-> DefaultUrl]
             s      == [pc |-> "registering", env |-> record]
  <1>1. /\ \A k \in DOMAIN environments : environments[k].id # e
        /\ environments' = upsert_environment(record)
        /\ request' = [request EXCEPT ![a] = s]
        /\ UNCHANGED <<contexts, settings, overrides, history>>
    BY DEF RegisterStores
  <1>2. environments' = Append(environments, record)
    BY <1>1 DEF upsert_environment
  <1> HIDE DEF record
  <1>3. s.pc = "registering"
    OBVIOUS
  <1> HIDE DEF s
  <1>4. environments'[1] = environments[1]
    <2>1. environments \in Seq(Range(environments)) /\ 1 \in 1..Len(environments)
      BY LenProperties DEF Typed, EnvironmentsTyped
    <2> QED
      BY <1>2, <2>1, AppendFacts
  <1>5. Free.pc \notin Made /\ s.pc \notin Made /\ s.pc # "validated"
    BY <1>3 DEF Free, Made
  <1>6. Kept(s)'
    BY <1>1, <1>4, <1>5, SameKept
  <1> QED
    BY <1>1, <1>3, <1>6

\* and its context after that of the one the process started with.
LEMMA ActivateKept ==
    ASSUME Sound, NEW a \in Admin, NEW r, r = request[a], Kept(r), Activate(a)
    PROVE  request' = [request EXCEPT ![a] = Free] /\ Kept(Free)'
  <1>1. /\ r.pc = "registering" /\ request' = [request EXCEPT ![a] = Free]
        /\ \E x : contexts' = Append(contexts, x)
        /\ UNCHANGED <<settings, overrides, history, environments>>
    BY DEF Activate, Done, stored
  <1>2. contexts'[1] = contexts[1]
    <2>1. contexts \in Seq(Range(contexts)) /\ 1 \in 1..Len(contexts)
      BY DEF Sound, ContextsSound
    <2> QED
      BY <1>1, <2>1, AppendFacts
  <1>3. Free.pc \notin Made /\ r.pc \notin Made /\ Free.pc # "validated"
    BY <1>1 DEF Free, Made
  <1>4. Kept(Free)'
    BY <1>1, <1>2, <1>3, SameKept
  <1> QED
    BY <1>1, <1>4

\* One more field of the change is stored.
LEMMA StoreKept ==
    ASSUME Sound, Typed, Len(contexts) = 1, NEW a \in Admin, NEW r, r = request[a],
           Kept(r), set_config_override(a), ~Fails(a)
    PROVE  \E s : /\ request' = [request EXCEPT ![a] = s] /\ Kept(s)'
                  /\ s.pc \in Made
  <1> DEFINE d == r.category
             rows(f) == [g \in DOMAIN overrides[d] \cup {f} |->
                            IF g = f THEN r.new[f] ELSE overrides[d][g]]
  <1>1. PICK f : /\ f \in r.todo /\ overrides' = [overrides EXCEPT ![d] = rows(f)]
                 /\ request' = [request EXCEPT ![a] = [r EXCEPT !.todo = @ \ {f}]]
    BY DEF set_config_override
  <1> DEFINE s == [r EXCEPT !.todo = @ \ {f}]
  <1>2. /\ r.pc = "storing"
        /\ UNCHANGED <<contexts, settings, history, environments>>
    BY DEF set_config_override
  <1>3. /\ DOMAIN r = {"pc", "ctx", "category", "new", "old", "todo"}
        /\ d \in Category /\ Accepted(d, r.new) /\ r.todo \subseteq DOMAIN r.new
    BY <1>2, ChangeFacts DEF Changing
  <1>4. /\ s.pc = "storing" /\ s.category = d /\ s.new = r.new /\ s.old = r.old
        /\ s.todo = r.todo \ {f}
    BY <1>2, <1>3
  <1>5. request' = [request EXCEPT ![a] = s]
    BY <1>1
  <1> HIDE DEF s
  <1>6. \A g : LiveValue(contexts[1], g)' = LiveValue(contexts[1], g)
    BY <1>2 DEF LiveValue
  <1>7. EnvironmentKept(s)' /\ ReasonerKept(s)' /\ ChangeKept(s)'
    <2>1. EnvironmentKept(s)' /\ ReasonerKept(s)'
      BY <1>2, <1>4 DEF Kept, EnvironmentKept, ReasonerKept
    <2>2. ChangeKept(s)'
      BY <1>2, <1>4, <1>6 DEF Kept, ChangeKept, Made
    <2> QED
      BY <2>1, <2>2
  <1>8. ASSUME NEW c \in Category, NEW g \in Range(EDITABLE_FIELDS[c])
        PROVE  /\ c # "monitoring" => FieldKept(s, c, g)'
               /\ Chained(s, c, g)'
    <2>1. (c # "monitoring" => FieldKept(r, c, g)) /\ Chained(r, c, g)
      BY DEF Kept
    <2>2. Makes(r, c, g) <=> Makes(s, c, g)
      BY <1>2, <1>4 DEF Makes
    <2>3. c # "monitoring" => FieldKept(s, c, g)'
      <3>1. DOMAIN overrides = Category
        BY DEF Typed
      <3>2. CASE g = f
        <4>1. c = d
          BY <1>1, <1>3, <3>2, FieldPlaces DEF Accepted
        <4>2. overrides'[c] = rows(f)
          BY <1>1, <3>1, <4>1
        <4>3. Stored(c, g)' = r.new[g]
          BY <3>2, <4>2 DEF Stored
        <4>4. LiveValue(contexts[1], g) = r.new[g]
          BY <1>1, <1>2, <1>3, <3>2 DEF Kept, ChangeKept, Made
        <4> QED
          BY <1>6, <4>3, <4>4 DEF FieldKept
      <3>3. CASE g # f
        <4>1. /\ g \in DOMAIN overrides'[c] <=> g \in DOMAIN overrides[c]
              /\ g \in DOMAIN overrides[c] => overrides'[c][g] = overrides[c][g]
          <5>1. CASE c = d
            <6>1. overrides'[c] = rows(f)
              BY <1>1, <3>1, <5>1
            <6> QED
              BY <3>3, <5>1, <6>1
          <5>2. CASE c # d
            BY <1>1, <3>1, <5>2
          <5> QED
            BY <5>1, <5>2
        <4>2. Stored(c, g)' = Stored(c, g)
          BY <4>1 DEF Stored, Initial
        <4> QED
          BY <1>4, <1>6, <2>1, <2>2, <3>3, <4>2 DEF FieldKept
      <3> QED
        BY <3>2, <3>3
    <2>4. Chained(s, c, g)'
      BY <1>2, <1>4, <1>6, <2>1, <2>2 DEF Chained, LeftAt, Sets
    <2> QED
      BY <2>3, <2>4
  <1>9. Kept(s)'
    BY <1>7, <1>8 DEF Kept
  <1> QED
    BY <1>4, <1>5, <1>9 DEF Made

\* The first start.
LEMMA InitInOrder ==
    ASSUME Init
    PROVE  InOrder
  <1> DEFINE e == [id |-> FirstEnvironment, url |-> DefaultUrl]
             x == build_context(e, DefaultProvider)
  <1>1. /\ contexts = <<x>> /\ environments = <<e>> /\ settings = DefaultProvider
        /\ overrides = [c \in Category |-> <<>>] /\ history = <<>>
        /\ request = [a \in Admin |-> Free] /\ ~raced
    BY DEF Init
  <1>2. /\ x.config = Defaults /\ x.prom = DefaultUrl /\ x.environment = e
        /\ x.reasoner = Reasoner(DefaultProvider) /\ e.url = DefaultUrl
    BY DEF build_context
  <1> HIDE DEF e, x
  <1>3. /\ contexts[1] = x /\ Len(contexts) = 1
        /\ environments[1] = e /\ Len(environments) = 1 /\ Len(history) = 0
    BY <1>1
  <1>4. Free.pc \notin Made /\ Free.pc \notin {"validated", "recorded"}
    BY DEF Free, Made
  <1>5. EnvironmentKept(Free) /\ ReasonerKept(Free) /\ ChangeKept(Free)
    BY <1>1, <1>2, <1>3, <1>4 DEF EnvironmentKept, ReasonerKept, ChangeKept
  <1>6. ASSUME NEW c \in Category, NEW f \in Range(EDITABLE_FIELDS[c])
        PROVE  FieldKept(Free, c, f) /\ Chained(Free, c, f)
    <2>1. LiveValue(contexts[1], f) = Initial(f)
      BY <1>1, <1>2, <1>3 DEF LiveValue, Initial
    <2>2. FieldKept(Free, c, f)
      BY <1>1, <2>1 DEF FieldKept, Stored
    <2>3. LeftAt(f, Len(history) + 1, LiveValue(contexts[1], f))
      BY <1>3, <2>1 DEF LeftAt
    <2>4. ~Makes(Free, c, f)
      BY <1>4 DEF Makes
    <2> QED
      BY <1>3, <2>2, <2>3, <2>4 DEF Chained
  <1>7. Now(Free)
    BY <1>1 DEF Now, Quiet, Busy, Free
  <1>8. Kept(Free)
    BY <1>5, <1>6 DEF Kept
  <1> QED
    BY <1>1, <1>3, <1>7, <1>8 DEF InOrder

\* Rows that give a configuration in bounds and in order are valid.
LEMMA RowsValid ==
    ASSUME NEW v, ConfigSound(v), NEW w, ConfigSound(w), Ordered(w),
           NEW c \in ConfigCategory, NEW rows, Accepted(c, rows),
           \A f \in Range(EDITABLE_FIELDS[c]) :
              w[f] = IF f \in DOMAIN rows THEN rows[f] ELSE v[f]
    PROVE  Valid(c, v, rows)
  <1> DEFINE after == Over(v, rows)
  <1>1. \A f \in Range(EDITABLE_FIELDS[c]) : after[f] = w[f]
    <2>1. DOMAIN v = Fields /\ \A f \in Range(EDITABLE_FIELDS[c]) : f \in Fields
      BY FieldFacts DEF ConfigSound, ConfigCategory
    <2> QED
      BY <2>1, OverFacts
  <1> HIDE DEF after
  <1>2. InBounds(w)
    BY DEF ConfigSound
  <1>3. \A f \in DOMAIN rows : rows[f] = w[f]
    BY DEF Accepted
  <1>4. ASSUME c = "policy"
        PROVE  PolicyValid(v, rows)
    <2>1. after.min_replicas = w.min_replicas /\ after.max_replicas = w.max_replicas
      BY <1>1, <1>4, FieldFacts
    <2>2. /\ w.min_replicas \in 1..20 /\ w.max_replicas \in 1..20
          /\ w.min_replicas <= w.max_replicas
      BY <1>2 DEF InBounds, Ordered, MIN_REPLICAS_FLOOR, MAX_REPLICAS_CEILING
    <2>3. /\ w.min_replicas \in 1..w.max_replicas
          /\ w.max_replicas \in w.min_replicas..20
      BY <2>2
    <2>4. /\ "min_replicas" \in DOMAIN rows =>
                rows.min_replicas \in MIN_REPLICAS_FLOOR..after.max_replicas
          /\ "max_replicas" \in DOMAIN rows =>
                rows.max_replicas \in after.min_replicas..MAX_REPLICAS_CEILING
      BY <1>3, <2>1, <2>3 DEF MIN_REPLICAS_FLOOR, MAX_REPLICAS_CEILING
    <2>5. /\ "confidence_rollback" \in DOMAIN rows =>
                rows.confidence_rollback \in CONFIDENCE_FLOOR..CONFIDENCE_CEILING
          /\ "allowed_deployments" \in DOMAIN rows =>
                rows.allowed_deployments \cap Frozen = {}
      BY <1>2, <1>3 DEF InBounds
    <2> QED
      BY <2>4, <2>5 DEF PolicyValid, after
  <1>5. ASSUME c = "rca"
        PROVE  RcaValid(v, rows)
    <2>1. /\ after.settle_seconds = w.settle_seconds
          /\ after.timeout_seconds = w.timeout_seconds
      BY <1>1, <1>5, FieldFacts
    <2>2. /\ w.settle_seconds \in 0..300 /\ w.timeout_seconds \in 10..600
          /\ w.settle_seconds < w.timeout_seconds
      BY <1>2 DEF InBounds, Ordered, SETTLE_BOUNDS, TIMEOUT_BOUNDS
    <2>3. w.timeout_seconds > w.settle_seconds
      BY <2>2
    <2>4. /\ "timeout_seconds" \in DOMAIN rows =>
                /\ rows.timeout_seconds \in TIMEOUT_BOUNDS
                /\ rows.timeout_seconds > after.settle_seconds
          /\ "settle_seconds" \in DOMAIN rows =>
                /\ rows.settle_seconds \in SETTLE_BOUNDS
                /\ rows.settle_seconds < after.timeout_seconds
      BY <1>3, <2>1, <2>2, <2>3 DEF SETTLE_BOUNDS, TIMEOUT_BOUNDS
    <2> QED
      BY <2>4 DEF RcaValid, after
  <1> QED
    BY <1>4, <1>5 DEF Valid, Accepted, ConfigCategory

\* One category is read back.
LEMMA ReloadKept ==
    ASSUME NEW y, ContextSound(y), ContextTyped(y), Ordered(y.config), Agrees(y),
           NEW w, ConfigSound(w), Ordered(w),
           NEW c \in ConfigCategory, NEW rows, Accepted(c, rows),
           \A f \in Range(EDITABLE_FIELDS[c]) :
              w[f] = IF f \in DOMAIN rows THEN rows[f] ELSE y.config[f]
    PROVE  /\ ContextSound(Reload(y, c, rows)) /\ ContextTyped(Reload(y, c, rows))
           /\ Ordered(Reload(y, c, rows).config) /\ Agrees(Reload(y, c, rows))
           /\ \A f \in Fields : Reload(y, c, rows).config[f] =
                 IF f \in Range(EDITABLE_FIELDS[c]) THEN w[f] ELSE y.config[f]
  <1> DEFINE z == Reload(y, c, rows)
  <1>1. ConfigSound(y.config) /\ DOMAIN y.config = Fields
    BY DEF ContextSound, ConfigSound
  <1>2. Valid(c, y.config, rows)
    BY <1>1, RowsValid
  <1>3. ContextSound(z) /\ Ordered(z.config) /\ Agrees(z)
    BY ReloadSound
  <1>4. ContextTyped(z) /\ z.config = Over(y.config, rows)
    BY <1>2, ReloadTyped
  <1> HIDE DEF z
  <1>5. \A f \in Fields : z.config[f] =
           IF f \in Range(EDITABLE_FIELDS[c]) THEN w[f] ELSE y.config[f]
    BY <1>1, <1>4, OverFacts DEF Accepted
  <1> QED
    BY <1>3, <1>4, <1>5 DEF z

\* Two contexts with the same configuration, whose copies agree with it.
LEMMA SameContext ==
    ASSUME NEW x, ContextTyped(x), Agrees(x), NEW y, ContextTyped(y), Agrees(y),
           \A f \in Fields : x.config[f] = y.config[f], x.reasoner = y.reasoner,
           x.prom = y.prom, x.environment = y.environment
    PROVE  x = y
  <1>1. x.config = y.config
    BY DEF ContextTyped
  <1>2. /\ \A f \in FIELDS_DUPLICATED_ELSEWHERE : x.remediation[f] = y.remediation[f]
        /\ \A f \in Copied : x.decision[f] = y.decision[f]
    BY <1>1 DEF Agrees, AgreeOn, Copied, FIELDS_DUPLICATED_ELSEWHERE
  <1>3. x.remediation = y.remediation /\ x.decision = y.decision
    BY <1>2 DEF ContextTyped
  <1> QED
    BY <1>1, <1>3 DEF ContextTyped

\* Startup rebuilds what is in force when every field is stored.
LEMMA StartKept ==
    ASSUME Sound, Typed, ~raced, Quiet, Kept(Free)
    PROVE  contexts[1] = StartContext /\ settings = StartProvider
  <1> DEFINE x == contexts[1]
             w == x.config
             built       == build_context(Head(environments), DefaultProvider)
             policy      == Reload(built, "policy", overrides["policy"])
             rca         == Reload(policy, "rca", overrides["rca"])
             remediation == Reload(rca, "remediation", overrides["remediation"])
             good(y)     == /\ ContextSound(y) /\ ContextTyped(y)
                            /\ Ordered(y.config) /\ Agrees(y)
  <1>1. good(x) /\ ConfigSound(w)
    <2>1. 1 \in 1..Len(contexts)
      BY DEF Sound, ContextsSound
    <2>2. \A a \in Admin : request[a].pc # "mutated"
      BY DEF Quiet, Busy
    <2> QED
      BY <2>1, <2>2 DEF Sound, ContextsSound, ContextSound, Typed, PairsFollow,
                        CopiesFollow, Agrees
  <1>2. Free.pc \notin Made
    BY DEF Free, Made
  <1>3. \A c \in Category \ {"monitoring"} : \A f \in Range(EDITABLE_FIELDS[c]) :
           LiveValue(x, f) = Stored(c, f)
    BY <1>2 DEF Kept, FieldKept, Makes
  <1>4. settings = StartProvider
    <2>1. "llm_provider" \in Range(EDITABLE_FIELDS["ai"]) /\ "ai" \in Category
      BY FieldFacts DEF Range, EDITABLE_FIELDS
    <2>2. LiveValue(x, "llm_provider") = Stored("ai", "llm_provider")
      BY <1>3, <2>1
    <2> QED
      BY <2>2, StartProviderFacts DEF LiveValue, Stored, Initial
  <1>5. /\ x.environment = environments[1] /\ x.prom = environments[1].url
        /\ x.reasoner = Reasoner(settings)
    BY <1>2 DEF Kept, EnvironmentKept, ReasonerKept, Made
  <1>6. \A c \in ConfigCategory : \A f \in Range(EDITABLE_FIELDS[c]) :
           w[f] = IF f \in DOMAIN overrides[c] THEN overrides[c][f] ELSE Defaults[f]
    <2> SUFFICES ASSUME NEW c \in ConfigCategory, NEW f \in Range(EDITABLE_FIELDS[c])
                 PROVE  w[f] = IF f \in DOMAIN overrides[c] THEN overrides[c][f]
                                                            ELSE Defaults[f]
      OBVIOUS
    <2>1. c \in Category \ {"monitoring"}
      BY FieldFacts DEF ConfigCategory
    <2>2. f # "llm_provider" /\ f # "prometheus_url"
      BY <2>1, FieldPlaces
    <2> QED
      BY <1>3, <2>1, <2>2 DEF LiveValue, Stored, Initial
  <1>7. \A c \in ConfigCategory : Accepted(c, overrides[c])
    BY FieldFacts DEF ConfigCategory, Typed, RowsTyped
  <1>8. good(built) /\ built.config = Defaults
    <2>1. EnvironmentTyped(Head(environments))
      BY LenProperties DEF Typed, EnvironmentsTyped
    <2>2. built.config = Defaults
      BY DEF build_context
    <2> QED
      BY <2>1, <2>2, BuiltSound, BuiltTyped
  <1>9. /\ "policy" \in ConfigCategory /\ "rca" \in ConfigCategory
        /\ "remediation" \in ConfigCategory
    BY DEF ConfigCategory
  <1>10. StartContext = rebuild_reasoner(remediation, StartProvider)
    BY DEF StartContext
  <1> HIDE DEF w, built
  <1>11. /\ good(policy)
         /\ \A f \in Fields : policy.config[f] =
               IF f \in Range(EDITABLE_FIELDS["policy"]) THEN w[f] ELSE Defaults[f]
    <2>1. Ordered(w)
      BY <1>1 DEF w
    <2> QED
      BY <1>1, <1>6, <1>7, <1>8, <1>9, <2>1, ReloadKept
  <1> HIDE DEF policy
  <1>12. /\ good(rca)
         /\ \A f \in Fields : rca.config[f] =
               IF f \in Range(EDITABLE_FIELDS["policy"]) \cup Range(EDITABLE_FIELDS["rca"])
               THEN w[f] ELSE Defaults[f]
    <2>1. Ordered(w)
      BY <1>1 DEF w
    <2>2. \A f \in Range(EDITABLE_FIELDS["rca"]) : policy.config[f] = Defaults[f]
      BY <1>11, FieldFacts
    <2>3. \A f \in Range(EDITABLE_FIELDS["rca"]) :
             w[f] = IF f \in DOMAIN overrides["rca"] THEN overrides["rca"][f]
                                                    ELSE policy.config[f]
      BY <1>6, <1>9, <2>2
    <2>4. /\ good(rca)
          /\ \A f \in Fields : rca.config[f] =
                IF f \in Range(EDITABLE_FIELDS["rca"]) THEN w[f] ELSE policy.config[f]
      BY <1>1, <1>7, <1>9, <1>11, <2>1, <2>3, ReloadKept
    <2> QED
      BY <1>11, <2>4
  <1> HIDE DEF rca
  <1>13. good(remediation) /\ \A f \in Fields : remediation.config[f] = w[f]
    <2>1. Ordered(w)
      BY <1>1 DEF w
    <2>2. \A f \in Range(EDITABLE_FIELDS["remediation"]) : rca.config[f] = Defaults[f]
      BY <1>12, FieldFacts
    <2>3. \A f \in Range(EDITABLE_FIELDS["remediation"]) :
             w[f] = IF f \in DOMAIN overrides["remediation"]
                    THEN overrides["remediation"][f] ELSE rca.config[f]
      BY <1>6, <1>9, <2>2
    <2>4. /\ good(remediation)
          /\ \A f \in Fields : remediation.config[f] =
                IF f \in Range(EDITABLE_FIELDS["remediation"]) THEN w[f] ELSE rca.config[f]
      BY <1>1, <1>7, <1>9, <1>12, <2>1, <2>3, ReloadKept
    <2> QED
      BY <1>12, <2>4, FieldFacts
  <1> HIDE DEF remediation
  <1>14. StartContext.config = remediation.config
    BY <1>10, <1>13, RebuildTyped
  <1>15. /\ ContextTyped(StartContext) /\ StartContext.environment = environments[1]
         /\ StartContext.prom = environments[1].url
         /\ StartContext.reasoner = Reasoner(StartProvider) /\ Agrees(StartContext)
    BY StartTyped, StartSound DEF Typed
  <1>16. \A f \in Fields : x.config[f] = StartContext.config[f]
    BY <1>13, <1>14 DEF w
  <1> HIDE DEF x
  <1>17. x = StartContext
    BY <1>1, <1>4, <1>5, <1>15, <1>16, SameContext
  <1> QED
    BY <1>4, <1>17 DEF x

\* The request in progress is the only one.
LEMMA BusyNow ==
    ASSUME NEW r, Now(r), NEW a \in Admin, Busy(a)
    PROVE  r = request[a] /\ \A b \in Admin \ {a} : ~Busy(b)
  BY DEF Now, Quiet

\* A step of the only request, or the start of one.
LEMMA NowStep ==
    ASSUME Sound, NEW a \in Admin, \A b \in Admin \ {a} : ~Busy(b),
           NEW s, s = Free \/ s.pc # "free",
           request' = [request EXCEPT ![a] = s], Kept(s)', ~raced',
           Len(contexts') = 1 \/ s.pc \in {"free", "registering"}
    PROVE  InOrder'
  <1>1. /\ DOMAIN request' = Admin /\ request'[a] = s
        /\ \A b \in Admin \ {a} : request'[b] = request[b]
    BY MoveFacts DEF Sound
  <1>2. Now(s)'
    <2>1. CASE s = Free
      BY <1>1, <2>1 DEF Now, Quiet, Busy, Free
    <2>2. CASE s.pc # "free"
      BY <1>1, <2>2 DEF Now, Busy
    <2> QED
      BY <2>1, <2>2
  <1>3. s \in {Free} \cup Range(request')
    BY <1>1 DEF Range
  <1> QED
    BY <1>2, <1>3 DEF InOrder

\* Nothing is in progress.
LEMMA QuietKept ==
    ASSUME InOrder, orderly, Quiet
    PROVE  ~raced /\ Kept(Free)
  BY DEF InOrder, Now, Quiet

\* Every step.
LEMMA StepInOrder ==
    ASSUME Sound, Typed, InOrder, [Next]_vars
    PROVE  InOrder'
  <1> SUFFICES ASSUME orderly'
               PROVE  InOrder'
    BY DEF InOrder
  <1>1. CASE Restart
    <2>1. orderly /\ Quiet
      BY <1>1 DEF Restart
    <2>2. ~raced /\ Kept(Free)
      BY <2>1, QuietKept
    <2>3. contexts'[1] = contexts[1] /\ Len(contexts') = 1 /\ settings' = settings
      BY <1>1, <2>1, <2>2, StartKept DEF Restart
    <2>4. /\ UNCHANGED <<overrides, history, environments>>
          /\ request' = [a \in Admin |-> Free] /\ ~raced'
      BY <1>1 DEF Restart, stored
    <2>5. Free.pc \notin Made /\ Free.pc # "validated"
      BY DEF Free, Made
    <2>6. Kept(Free)'
      BY <2>2, <2>3, <2>4, <2>5, SameKept
    <2>7. Now(Free)'
      BY <2>4 DEF Now, Quiet, Busy, Free
    <2> QED
      BY <2>3, <2>4, <2>6, <2>7 DEF InOrder
  <1>2. ASSUME NEW a \in Admin, AdminStep(a)
        PROVE  InOrder'
    <2>1. ASSUME NEW c \in Category, NEW changes, Starts(a), Validate(a, c, changes),
                 UNCHANGED <<contexts, settings, stored, raced>>
          PROVE  InOrder'
      <3>1. orderly /\ Quiet /\ Len(contexts) = 1
        BY <2>1 DEF Starts
      <3>2. ~raced /\ Kept(Free)
        BY <3>1, QuietKept
      <3>3. PICK s : /\ request' = [request EXCEPT ![a] = s] /\ Kept(s)'
                     /\ s.pc \in {"validated", "rejected"}
        BY <2>1, <3>1, <3>2, ValidateKept
      <3>4. ~raced' /\ Len(contexts') = 1
        BY <2>1, <3>1, <3>2
      <3> QED
        BY <3>1, <3>3, <3>4, NowStep DEF Quiet
    <2>2. ASSUME NEW k \in DOMAIN history, Restore(a, k)
          PROVE  InOrder'
      <3>1. history[k].category \in Category
        BY LenProperties DEF Sound, HistorySound
      <3> QED
        BY <2>1, <2>2, <3>1 DEF Restore
    <2>3. ASSUME orderly, Busy(a)
          PROVE  /\ ~raced /\ Kept(request[a]) /\ \A b \in Admin \ {a} : ~Busy(b)
                 /\ request[a].pc # "registering" => Len(contexts) = 1
      <3>1. PICK r : /\ Now(r) /\ Kept(r)
                     /\ Len(contexts) = 1 \/ r.pc \in {"free", "registering"}
        BY <2>3 DEF InOrder
      <3>2. r = request[a] /\ \A b \in Admin \ {a} : ~Busy(b)
        BY <2>3, <3>1, BusyNow
      <3> QED
        BY <2>3, <3>1, <3>2 DEF InOrder, Busy
    <2>4. ASSUME NEW pc, NEW status, Audit(a, pc, status),
                 \/ pc = "rejected" /\ status = "rejected"
                 \/ pc = "storing" /\ status = "applied" /\ request[a].todo = {}
          PROVE  InOrder'
      <3>1. ~Fails(a) /\ orderly /\ Busy(a)
        BY <2>4 DEF Audit, Fails, Busy
      <3>2. PICK r : r = request[a]
        OBVIOUS
      <3>3. request' = [request EXCEPT ![a] = Free] /\ Kept(Free)'
        BY <2>3, <2>4, <3>1, <3>2, AuditKept
      <3>4. ~raced' /\ Free.pc = "free"
        BY <2>3, <2>4, <3>1 DEF Audit, Free
      <3> QED
        BY <2>3, <3>1, <3>3, <3>4, NowStep
    <2>5. CASE AuditRejection(a)
      BY <2>4, <2>5 DEF AuditRejection
    <2>6. CASE Mutate(a)
      <3>1. orderly /\ Busy(a) /\ request[a].pc # "registering"
        BY <2>6 DEF Mutate, Busy
      <3>2. PICK r : r = request[a]
        OBVIOUS
      <3>3. PICK s : /\ request' = [request EXCEPT ![a] = s] /\ Kept(s)'
                     /\ s.pc \in Made /\ Len(contexts') = 1
        BY <2>3, <2>6, <3>1, <3>2, MutateKept
      <3>4. ~raced'
        BY <2>3, <2>6, <3>1 DEF Mutate, Busy
      <3> QED
        BY <2>3, <3>1, <3>3, <3>4, NowStep DEF Made
    <2>7. CASE AfterApply(a)
      <3>1. orderly /\ Busy(a) /\ request[a].pc # "registering" /\ UNCHANGED raced
        BY <2>7 DEF AfterApply, Busy
      <3>2. PICK r : r = request[a]
        OBVIOUS
      <3>3. PICK s : /\ request' = [request EXCEPT ![a] = s] /\ Kept(s)'
                     /\ s.pc \in Made /\ Len(contexts') = 1
        BY <2>3, <2>7, <3>1, <3>2, AfterApplyKept
      <3> QED
        BY <2>3, <3>1, <3>3, NowStep DEF Made
    <2>8. CASE sync_environment_record(a)
      <3>1. orderly /\ Busy(a) /\ request[a].pc # "registering" /\ UNCHANGED raced
        BY <2>8 DEF sync_environment_record, Busy
      <3>2. PICK r : r = request[a]
        OBVIOUS
      <3>3. PICK s : /\ request' = [request EXCEPT ![a] = s] /\ Kept(s)'
                     /\ s.pc \in Made /\ Len(contexts') = 1
        BY <2>3, <2>8, <3>1, <3>2, SyncRecordKept
      <3> QED
        BY <2>3, <3>1, <3>3, NowStep DEF Made
    <2>9. CASE StoreRecord(a)
      <3>1. /\ orderly /\ Busy(a) /\ ~Fails(a) /\ request[a].pc # "registering"
            /\ UNCHANGED <<contexts, raced>>
        BY <2>9 DEF StoreRecord, Fails, Busy
      <3>2. PICK r : r = request[a]
        OBVIOUS
      <3>3. PICK s : /\ request' = [request EXCEPT ![a] = s] /\ Kept(s)' /\ s.pc \in Made
        BY <2>3, <2>9, <3>1, <3>2, StoreRecordKept
      <3> QED
        BY <2>3, <3>1, <3>3, NowStep DEF Made
    <2>10. CASE set_config_override(a)
      <3>1. /\ orderly /\ Busy(a) /\ ~Fails(a) /\ request[a].pc # "registering"
            /\ UNCHANGED <<contexts, raced>>
        BY <2>10 DEF set_config_override, Fails, Busy
      <3>2. PICK r : r = request[a]
        OBVIOUS
      <3>3. PICK s : /\ request' = [request EXCEPT ![a] = s] /\ Kept(s)' /\ s.pc \in Made
        BY <2>3, <2>10, <3>1, <3>2, StoreKept
      <3> QED
        BY <2>3, <3>1, <3>3, NowStep DEF Made
    <2>11. CASE AuditApplied(a)
      BY <2>4, <2>11 DEF AuditApplied, Audit
    <2>12. CASE Activate(a)
      <3>1. orderly /\ Busy(a) /\ UNCHANGED raced
        BY <2>12 DEF Activate, Busy
      <3>2. PICK r : r = request[a]
        OBVIOUS
      <3>3. request' = [request EXCEPT ![a] = Free] /\ Kept(Free)' /\ Free.pc = "free"
        BY <2>3, <2>12, <3>1, <3>2, ActivateKept DEF Free
      <3> QED
        BY <2>3, <3>1, <3>3, NowStep
    <2>13. ASSUME NEW e \in OtherEnvironments, RegisterStores(a, e)
           PROVE  InOrder'
      <3>1. orderly /\ Quiet /\ UNCHANGED raced
        BY <2>13 DEF RegisterStores
      <3>2. ~raced /\ Kept(Free)
        BY <3>1, QuietKept
      <3>3. PICK s : /\ request' = [request EXCEPT ![a] = s] /\ Kept(s)'
                     /\ s.pc = "registering"
        BY <2>13, <3>2, RegisterKept
      <3> QED
        BY <3>1, <3>2, <3>3, NowStep DEF Quiet
    <2> QED
      BY <1>2, <2>1, <2>2, <2>5, <2>6, <2>7, <2>8, <2>9, <2>10, <2>11, <2>12, <2>13
         DEF AdminStep, Submit
  <1>3. CASE UNCHANGED vars
    <2>1. UNCHANGED <<contexts, settings, overrides, history, environments, request,
                      orderly, raced>>
      BY <1>3 DEF vars, stored
    <2>2. PICK r \in {Free} \cup Range(request) :
             /\ Now(r) /\ Kept(r)
             /\ Len(contexts) = 1 \/ r.pc \in {"free", "registering"}
      BY <2>1 DEF InOrder
    <2>3. ~raced
      BY <2>1 DEF InOrder
    <2>4. Now(r)'
      BY <2>1, <2>2 DEF Now, Quiet, Busy
    <2>5. Kept(r)'
      BY <2>1, <2>2 DEF Kept, EnvironmentKept, ReasonerKept, ChangeKept, FieldKept,
                        Chained, Stored, LiveValue, LeftAt, Sets
    <2> QED
      BY <2>1, <2>2, <2>3, <2>4, <2>5 DEF InOrder
  <1> QED
    BY <1>1, <1>2, <1>3 DEF Next

\* Requests that come one after the other leave everything as it is stored.
LEMMA OrderInvariance == Spec => [](Sound /\ Typed /\ InOrder)
  <1>1. Init => Typed /\ InOrder
    BY InitTyped, InitInOrder
  <1>2. Sound /\ Typed /\ InOrder /\ [Next]_vars => Typed' /\ InOrder'
    BY StepTyped, StepInOrder
  <1> QED
    BY Invariance, <1>1, <1>2, PTL DEF Spec

(***************************************************************************)
(* A restart brings back exactly the configuration the process has run on  *)
(* since it started, however many changes, registrations and restarts have *)
(* gone before, when requests came one after the other, none was cut short *)
(* and no change was made in the context of an environment that had been   *)
(* registered since the start before it.                                   *)
(***************************************************************************)
THEOREM RestartIsExact == Spec => []RestartChangesNothing
  <1>1. Sound /\ Typed /\ InOrder => RestartChangesNothing
    BY QuietKept, StartKept DEF RestartChangesNothing
  <1> QED
    BY OrderInvariance, <1>1, PTL

(***************************************************************************)
(* Every field's history is an unbroken chain of changes from its default  *)
(* to the value the process started with has now, across rejections,       *)
(* restores, registrations and restarts, under the same conditions.        *)
(***************************************************************************)
THEOREM HistoryRetraces == Spec => []HistoryIsAChain
  <1>1. Sound /\ InOrder => HistoryIsAChain
    <2> SUFFICES ASSUME Sound, InOrder, orderly, Quiet, NEW c \in Category,
                        NEW f \in Range(EDITABLE_FIELDS[c])
                 PROVE  /\ \A k \in DOMAIN history :
                              Sets(k, f) => LeftAt(f, k, history[k].old[f])
                        /\ LeftAt(f, Len(history) + 1, LiveValue(contexts[1], f))
      BY DEF HistoryIsAChain
    <2>1. Kept(Free)
      BY QuietKept
    <2>2. Chained(Free, c, f) /\ ~Makes(Free, c, f)
      BY <2>1 DEF Kept, Makes, Free, Made
    <2>3. DOMAIN history = 1..Len(history)
      BY LenProperties DEF Sound, HistorySound
    <2> QED
      BY <2>1, <2>2, <2>3 DEF Chained
  <1> QED
    BY OrderInvariance, <1>1, PTL

=============================================================================
