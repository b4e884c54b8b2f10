--------------------------- MODULE RemediationSafety ---------------------------
(***************************************************************************)
(* Proofs about Diagnosis and Remediation: types, that neither the         *)
(* reasoner nor what was learned ever makes an action pass, and what a     *)
(* recovery validation that passes says.                                   *)
(***************************************************************************)
EXTENDS Remediation, SequenceTheorems, FiniteSetTheorems,
        WellFoundedInduction, TLAPS

-----------------------------------------------------------------------------
(***************************************************************************)
(* Arithmetic of the clamps.                                               *)
(***************************************************************************)
\* Min and Max of two integers.
LEMMA OfTwo ==
    ASSUME NEW a \in Int, NEW b \in Int
    PROVE  /\ Min({a, b}) = IF a <= b THEN a ELSE b
           /\ Max({a, b}) = IF a <= b THEN b ELSE a
  <1>1. /\ \E x \in {a, b} : \A y \in {a, b} : x <= y
        /\ \E x \in {a, b} : \A y \in {a, b} : x >= y
    <2>1. CASE a <= b
      BY <2>1
    <2>2. CASE b <= a
      BY <2>2
    <2> QED
      BY <2>1, <2>2
  <1>2. Min({a, b}) \in {a, b} /\ \A y \in {a, b} : Min({a, b}) <= y
    BY <1>1 DEF Min
  <1>3. Max({a, b}) \in {a, b} /\ \A y \in {a, b} : Max({a, b}) >= y
    BY <1>1 DEF Max
  <1> QED
    BY <1>2, <1>3

\* A set of natural numbers that is not empty has a smallest member.
LEMMA HasMin ==
    ASSUME NEW S \in SUBSET Nat, S # {}
    PROVE  Min(S) \in S /\ \A y \in S : Min(S) <= y
  <1>1. PICK x \in S : \A y \in S : ~(<<y, x>> \in OpToRel(<, Nat))
    BY NatLessThanWellFounded, WFMin
  <1>2. ASSUME NEW y \in S
        PROVE  x <= y
    <2>1. <<y, x>> \in OpToRel(<, Nat) <=> y < x
      BY Zenon DEF OpToRel
    <2>2. ~(y < x)
      BY <1>1, <2>1, Zenon
    <2> QED
      BY <2>2
  <1> QED
    BY <1>2 DEF Min

\* A value clamped into an interval.
LEMMA Clamp ==
    ASSUME NEW lo \in Int, NEW hi \in Int, NEW x \in Int
    PROVE  /\ Max({lo, Min({hi, x})}) \in Int
           /\ Max({lo, Min({hi, x})}) >= lo
           /\ lo <= hi => Max({lo, Min({hi, x})}) <= hi
           /\ Max({lo, Min({hi, x})}) <= lo \/ Max({lo, Min({hi, x})}) <= x
           /\ x \in lo..hi => Max({lo, Min({hi, x})}) = x
  <1> DEFINE m == Min({hi, x})
  <1>1. m = IF hi <= x THEN hi ELSE x
    BY OfTwo
  <1>2. m \in Int
    BY <1>1
  <1>3. Max({lo, m}) = IF lo <= m THEN m ELSE lo
    BY <1>2, OfTwo
  <1> HIDE DEF m
  <1> QED
    BY <1>1, <1>2, <1>3 DEF m

\* A part of a whole is a number from 0 to the whole.
LEMMA PartOf ==
    ASSUME NEW a \in Int, NEW b \in 0..One
    PROVE  /\ (a * b) \div One \in Int
           /\ a >= 0 => (a * b) \div One <= a
           /\ a <= 0 => (a * b) \div One <= 0
           /\ a >= 0 => (a * b) \div One >= 0
  <1> DEFINE n == a * b
             q == n \div 10000
  <1>1. n \in Int
    OBVIOUS
  <1>2. a >= 0 => n <= a * 10000
    BY Z3 DEF One
  <1>3. a <= 0 => n <= 0
    BY Z3 DEF One
  <1>7. a >= 0 => n >= 0
    BY Z3 DEF One
  <1> HIDE DEF n
  <1>4. q \in Int /\ 10000 * q <= n /\ n < 10000 * (q + 1)
    BY <1>1, Z3
  <1>5. (a * b) \div One = q
    BY DEF q, n, One
  <1> HIDE DEF q
  <1>6. q \in Int /\ (a >= 0 => q <= a) /\ (a <= 0 => q <= 0)
                  /\ (a >= 0 => q >= 0)
    BY <1>1, <1>2, <1>3, <1>4, <1>7, Z3
  <1> QED
    BY <1>5, <1>6, Zenon

-----------------------------------------------------------------------------
(***************************************************************************)
(* The rules, and what the reasoner, memory and learning add.              *)
(***************************************************************************)
Cause == DOMAIN ACTION_LADDER

\* What every rule is like: only bad_deployment is affected by the images.
RuleOf(f, rule) ==
    /\ rule[2] \in Cause
    /\ rule[3] \in Nat
    /\ rule[4] \in Remedy \cup {"escalate"}
    /\ rule[2] = "bad_deployment" =>
          rule[3] = IF f.changed THEN 9600 ELSE 9000

\* All thirteen rules are like that, and the last one always matches.
LEMMA RuleFacts ==
    ASSUME NEW f
    PROVE  /\ DOMAIN Rules(f) = 1..13
           /\ \A k \in 1..13 : RuleOf(f, Rules(f)[k])
           /\ Rules(f)[13][1]
  <1> DEFINE c == CauseRules(f)
             s == SymptomRules(f)
  <1>1. /\ DOMAIN c = 1..7 /\ Len(c) = 7
        /\ \A k \in 1..7 : RuleOf(f, c[k])
    BY DEF CauseRules, Cause, ACTION_LADDER, Remedy, RuleOf
  <1>2. /\ DOMAIN s = 1..6 /\ Len(s) = 6
        /\ \A k \in 1..6 : RuleOf(f, s[k])
        /\ s[6][1]
    BY DEF SymptomRules, Cause, ACTION_LADDER, Remedy, RuleOf
  <1> DEFINE T == {c[k] : k \in 1..7} \cup {s[k] : k \in 1..6}
  <1>3. c = [k \in 1..7 |-> c[k]] /\ s = [k \in 1..6 |-> s[k]]
    BY DEF CauseRules, SymptomRules
  <1> HIDE DEF c, s
  <1>4. c \in [1..7 -> T] /\ s \in [1..6 -> T]
    BY <1>3
  <1> HIDE DEF T
  <1>5. c \in Seq(T) /\ s \in Seq(T)
    <2>1. \A n \in Nat : [1..n -> T] \subseteq Seq(T)
      BY SeqDef
    <2>2. 7 \in Nat /\ 6 \in Nat
      OBVIOUS
    <2> QED
      BY <1>4, <2>1, <2>2, Zenon
  <1> DEFINE r == c \o s
  <1>6. Rules(f) = r
    BY DEF Rules, r, c, s
  <1>7. /\ r \in Seq(T) /\ Len(r) = 13
        /\ \A k \in 1..13 : r[k] = IF k <= 7 THEN c[k] ELSE s[k - 7]
    <2>1. /\ r \in Seq(T) /\ Len(r) = Len(c) + Len(s)
          /\ \A k \in 1..Len(c) + Len(s) :
                r[k] = IF k <= Len(c) THEN c[k] ELSE s[k - Len(c)]
      BY <1>5, ConcatProperties, Zenon
    <2> HIDE DEF r
    <2> QED
      BY <1>1, <1>2, <2>1
  <1> HIDE DEF r
  <1>8. DOMAIN r = 1..13
    BY <1>7, LenProperties
  <1>9. ASSUME NEW k \in 1..13
        PROVE  RuleOf(f, r[k])
    <2>1. CASE k \in 1..7 /\ r[k] = c[k]
      BY <1>1, <2>1
    <2>2. CASE k - 7 \in 1..6 /\ r[k] = s[k - 7]
      BY <1>2, <2>2
    <2> QED
      BY <1>7, <2>1, <2>2
  <1>10. r[13][1]
    <2>1. r[13] = s[6]
      BY <1>7
    <2> QED
      BY <1>2, <2>1
  <1> QED
    BY <1>6, <1>8, <1>9, <1>10

Hypothesis == [cause      : Cause,
               action     : Remedy \cup {"escalate"},
               confidence : Nat]

Reply == {[agrees |-> FALSE]} \cup [agrees : {TRUE}, proposes : Int]

\* What cannot be seen costs at least five hundredths.
LEMMA BlindnessFacts ==
    ASSUME NEW f
    PROVE  Blindness(f) \in Nat /\ (Blindness(f) = 0 \/ Blindness(f) >= 500)
  BY DEF Blindness

\* How sure a rule of confidence c is, of what it was told.
Sure(f, c) == Max({0, Min({RULE_CONFIDENCE_MAX, c - Blindness(f)})})

\* The hypothesis is that of one of the rules.
LEMMA AnalyseIsARule ==
    ASSUME NEW f
    PROVE  \E rule : /\ RuleOf(f, rule)
                     /\ Analyse(f) = [cause |-> rule[2], action |-> rule[4],
                           confidence |-> Sure(f, rule[3])]
  <1> DEFINE S    == {k \in DOMAIN Rules(f) : Rules(f)[k][1]}
             rule == Rules(f)[Min(S)]
  <1>1. S \in SUBSET Nat /\ 13 \in S /\ S \subseteq 1..13
    BY RuleFacts
  <1>2. Analyse(f) = [cause |-> rule[2], action |-> rule[4],
                      confidence |-> Sure(f, rule[3])]
    BY DEF Analyse, Sure
  <1> HIDE DEF S
  <1>3. Min(S) \in 1..13
    BY <1>1, HasMin
  <1>4. RuleOf(f, rule)
    BY <1>3, RuleFacts
  <1> HIDE DEF rule
  <1> QED
    BY <1>2, <1>4, Zenon

\* How sure the rules are.
LEMMA RuleConfidence ==
    ASSUME NEW f, NEW c \in Nat
    PROVE  /\ Sure(f, c) \in Nat
           /\ c <= 9900 => Sure(f, c) = Max({0, c - Blindness(f)})
  <1> DEFINE x    == c - Blindness(f)
             conf == Max({0, Min({9900, x})})
  <1>1. x \in Int /\ (c <= 9900 => x <= 9900)
    BY BlindnessFacts
  <1> HIDE DEF x
  <1>2. conf \in Int /\ conf >= 0
    BY <1>1, Clamp
  <1>3. c <= 9900 => Min({9900, x}) = x
    BY <1>1, OfTwo
  <1>4. conf \in Nat /\ (c <= 9900 => conf = Max({0, x}))
    <2> HIDE DEF conf
    <2>1. conf \in Nat
      BY <1>2
    <2> QED
      BY <1>3, <2>1 DEF conf
  <1> QED
    BY <1>4 DEF x, Sure, RULE_CONFIDENCE_MAX

\* Analysis gives a hypothesis, whatever the findings.
LEMMA AnalyseTyped ==
    ASSUME NEW f
    PROVE  Analyse(f) \in Hypothesis
  <1>1. PICK rule :
           /\ RuleOf(f, rule)
           /\ Analyse(f) = [cause |-> rule[2], action |-> rule[4],
                 confidence |-> Sure(f, rule[3])]
    BY AnalyseIsARule, Zenon
  <1>2. rule[3] \in Nat
    BY <1>1 DEF RuleOf
  <1> DEFINE x == rule[3] - Blindness(f)
  <1>3. x \in Int
    BY <1>2, BlindnessFacts
  <1> HIDE DEF x
  <1>4. Max({0, Min({9900, x})}) \in Int /\ Max({0, Min({9900, x})}) >= 0
    BY <1>3, Clamp
  <1>5. Max({0, Min({9900, x})}) \in Nat
    <2> DEFINE m == Max({0, Min({9900, x})})
    <2> HIDE DEF m
    <2>1. m \in Int /\ m >= 0
      BY <1>4 DEF m
    <2>2. m \in Nat
      BY <2>1
    <2> QED
      BY <2>2 DEF m
  <1>6. Sure(f, rule[3]) \in Nat
    BY <1>5 DEF x, Sure, RULE_CONFIDENCE_MAX
  <1> QED
    BY <1>1, <1>6 DEF Hypothesis, RuleOf

\* How sure the rules are of a bad deployment.
LEMMA BadDeployment ==
    ASSUME NEW f, Analyse(f).cause = "bad_deployment"
    PROVE  Analyse(f).confidence =
              Max({0, (IF f.changed THEN 9600 ELSE 9000) - Blindness(f)})
  <1>1. PICK rule :
           /\ RuleOf(f, rule)
           /\ Analyse(f) = [cause |-> rule[2], action |-> rule[4],
                 confidence |-> Sure(f, rule[3])]
    BY AnalyseIsARule, Zenon
  <1>2. rule[2] = "bad_deployment"
    BY <1>1
  <1> DEFINE c == IF f.changed THEN 9600 ELSE 9000
  <1>3. rule[3] = c /\ c \in Nat /\ c <= 9900
    BY <1>1, <1>2 DEF RuleOf
  <1>4. Analyse(f).confidence = Sure(f, rule[3])
    BY <1>1
  <1> HIDE DEF c
  <1>5. Analyse(f).confidence = Max({0, c - Blindness(f)})
    BY <1>3, <1>4, RuleConfidence
  <1> QED
    BY <1>5 DEF c

\* What Enrich makes of confidence c when p is proposed.
Moved(c, p) == LET delta == Max({-300, Min({300, p - c})})
               IN  Max({0, Min({9700, c + delta})})

\* A confidence moved by a proposal gains the cap at most.
LEMMA MovedFacts ==
    ASSUME NEW c \in Nat, NEW p \in Int
    PROVE  Moved(c, p) \in Nat /\ Moved(c, p) <= c + 300
  <1> DEFINE move  == p - c
             delta == Max({-300, Min({300, move})})
             x     == c + delta
             conf  == Max({0, Min({9700, x})})
  <1>1. move \in Int
    OBVIOUS
  <1>2. Moved(c, p) = conf
    BY DEF Moved
  <1> HIDE DEF move
  <1>3. delta \in Int /\ delta <= 300
    BY <1>1, Clamp
  <1> HIDE DEF delta
  <1>4. x \in Int /\ x <= c + 300
    BY <1>3
  <1> HIDE DEF x
  <1>5. conf \in Int /\ conf >= 0 /\ (conf <= 0 \/ conf <= x)
    BY <1>4, Clamp
  <1> HIDE DEF conf
  <1>6. conf \in Nat /\ conf <= c + 300
    BY <1>4, <1>5
  <1> QED
    BY <1>2, <1>6, Zenon

\* A reasoner moves the confidence up by the cap at most, and nothing else.
LEMMA EnrichFacts ==
    ASSUME NEW h \in Hypothesis, NEW reply \in Reply
    PROVE  /\ Enrich(h, reply) \in Hypothesis
           /\ Enrich(h, reply).cause = h.cause
           /\ Enrich(h, reply).confidence <= h.confidence + 300
  <1>1. h.confidence \in Nat
    BY DEF Hypothesis
  <1>2. CASE ~reply.agrees
    <2>1. Enrich(h, reply) = h
      BY <1>2, Zenon DEF Enrich
    <2> QED
      BY <1>1, <2>1
  <1>3. CASE reply.agrees
    <2>1. reply.proposes \in Int
      <3>1. reply # [agrees |-> FALSE]
        BY <1>3
      <3>2. reply \in [agrees : {TRUE}, proposes : Int]
        BY <3>1, Zenon DEF Reply
      <3> QED
        BY <3>2
    <2> DEFINE conf == Moved(h.confidence, reply.proposes)
    <2>2. conf \in Nat /\ conf <= h.confidence + 300
      BY <1>1, <2>1, MovedFacts
    <2>3. Enrich(h, reply) = [h EXCEPT !.confidence = conf]
      BY <1>3 DEF Enrich, Moved, LLM_CONFIDENCE_DELTA_CAP, LLM_CONFIDENCE_CEILING
    <2> HIDE DEF conf
    <2>4. /\ Enrich(h, reply) \in Hypothesis
          /\ Enrich(h, reply).cause = h.cause
          /\ Enrich(h, reply).confidence = conf
      BY <2>2, <2>3 DEF Hypothesis
    <2> QED
      BY <2>2, <2>4, Zenon
  <1> QED
    BY <1>2, <1>3, Zenon

(***************************************************************************)
(* The 0.95 gate: a hypothesis that reaches it with the reasoner's help    *)
(* has reached it without, and the images have changed.  What the rules    *)
(* can give is 0.96 with every source and the images changed; without one  *)
(* of the four it is at most 0.91, and the cap adds 0.03.                  *)
(***************************************************************************)
LEMMA GateFacts ==
    ASSUME NEW f, NEW reply \in Reply,
           Enrich(Analyse(f), reply).cause = "bad_deployment",
           Enrich(Analyse(f), reply).confidence >= Threshold("rollback")
    PROVE  /\ Analyse(f).confidence >= Threshold("rollback")
           /\ f.changed
  <1> DEFINE b == Blindness(f)
             h == Analyse(f)
             base == (IF f.changed THEN 9600 ELSE 9000) - b
  <1>1. h \in Hypothesis /\ h.cause = "bad_deployment"
        /\ h.confidence >= 9200
    <2>1. h \in Hypothesis
      BY AnalyseTyped, Zenon
    <2>2. h.confidence \in Int
      BY <2>1 DEF Hypothesis
    <2> HIDE DEF h
    <2>3. Enrich(h, reply).confidence \in Int
          /\ Enrich(h, reply).confidence >= 9500
      BY <2>1, EnrichFacts DEF Threshold, Hypothesis, h
    <2> QED
      BY <2>1, <2>2, <2>3, EnrichFacts DEF h
  <1>2. h.confidence = Max({0, base})
    BY <1>1, BadDeployment
  <1>3. b \in Nat /\ (b = 0 \/ b >= 500)
    BY BlindnessFacts
  <1> HIDE DEF b, h
  <1>4. base \in Int /\ h.confidence \in Int
    BY <1>1, <1>3 DEF Hypothesis
  <1>5. h.confidence = base /\ base >= 9200
    <2> HIDE DEF base
    <2> QED
      BY <1>1, <1>2, <1>4, OfTwo
  <1>6. f.changed /\ b = 0
    BY <1>3, <1>5
  <1> QED
    BY <1>5, <1>6 DEF Threshold, h

-----------------------------------------------------------------------------
(***************************************************************************)
(* Candidates.                                                             *)
(***************************************************************************)
Rows  == [attempts : Nat, validated : Nat]
Votes == [count : Nat, total : Nat, worked : Nat]

\* A quotient of natural numbers is one.
LEMMA Quotient ==
    ASSUME NEW n \in Nat, NEW d \in Nat, d > 0
    PROVE  n \div d \in Nat
  BY Z3

\* Learning and memory only ever scale down.
LEMMA BiasFacts ==
    ASSUME NEW rows \in Rows, NEW votes \in Votes
    PROVE  MergeBias(rows, votes) \in 0..One
  <1>1. LearningBias(rows) \in 0..One
    <2>1. CASE rows.attempts < 3
      BY <2>1 DEF LearningBias, One
    <2>2. CASE ~(rows.attempts < 3)
      <3> DEFINE n == 1500 * rows.validated
                 q == n \div rows.attempts
                 b == Max({8500, Min({10000, 8500 + q})})
      <3>1. n \in Nat /\ rows.attempts \in Nat /\ rows.attempts > 0
        BY <2>2 DEF Rows
      <3> HIDE DEF n
      <3>2. q \in Nat
        BY <3>1, Quotient
      <3>3. LearningBias(rows) = b
        BY <2>2 DEF LearningBias, One, b, q, n
      <3> HIDE DEF q
      <3>4. 8500 + q \in Int
        BY <3>2
      <3>5. b \in Int /\ b >= 8500 /\ b <= 10000
        BY <3>4, Clamp
      <3> HIDE DEF b
      <3> QED
        BY <3>3, <3>5 DEF One
    <2> QED
      BY <2>1, <2>2
  <1>2. MemoryBias(votes) \in 0..One
    <2>1. CASE votes.count < 2 \/ votes.total = 0
      <3>1. MemoryBias(votes) = One
        BY <2>1 DEF MemoryBias
      <3>2. One \in 0..One
        BY DEF One
      <3> QED
        BY <3>1, <3>2, Zenon
    <2>2. CASE ~(votes.count < 2 \/ votes.total = 0)
      <3> DEFINE n == 800 * votes.worked
                 q == n \div votes.total
                 b == Max({9200, Min({10000, 9200 + q})})
      <3>1. n \in Nat /\ votes.total \in Nat /\ votes.total > 0
        BY <2>2 DEF Votes
      <3> HIDE DEF n
      <3>2. q \in Nat
        BY <3>1, Quotient
      <3>3. MemoryBias(votes) = b
        BY <2>2 DEF MemoryBias, One, b, q, n
      <3> HIDE DEF q
      <3>4. 9200 + q \in Int
        BY <3>2
      <3>5. b \in Int /\ b >= 9200 /\ b <= 10000
        BY <3>4, Clamp
      <3> HIDE DEF b
      <3> QED
        BY <3>3, <3>5 DEF One
    <2> QED
      BY <2>1, <2>2
  <1> DEFINE a == LearningBias(rows)
             b == MemoryBias(votes)
             m == (a * b) \div One
  <1>6. a \in 0..One /\ b \in 0..One
    BY <1>1, <1>2
  <1> HIDE DEF a, b
  <1>3. a \in Int /\ a >= 0 /\ a <= One /\ b \in 0..One /\ One \in Int
    BY <1>6 DEF One
  <1>4. m \in Int /\ m >= 0 /\ m <= a
    BY <1>3, PartOf
  <1>5. MergeBias(rows, votes) = m
    BY DEF MergeBias, m, a, b
  <1> HIDE DEF m
  <1> QED
    BY <1>3, <1>4, <1>5

\* A candidate is never surer than the hypothesis it comes from.
LEMMA DiscountedFacts ==
    ASSUME NEW h \in Hypothesis, NEW step \in 1..2, NEW bias \in 0..One
    PROVE  /\ Discounted(h, step, bias) \in Nat
           /\ Discounted(h, step, bias) <= h.confidence
  <1> DEFINE c == h.confidence
             a == c - FALLBACK_DISCOUNT * (step - 1)
             q == (a * bias) \div One
             d == Max({0, Min({One, q})})
  <1>1. c \in Nat
    BY DEF Hypothesis
  <1>2. Discounted(h, step, bias) = d
    BY DEF Discounted
  <1> HIDE DEF c
  <1>3. a \in Int /\ a <= c
    BY <1>1 DEF FALLBACK_DISCOUNT
  <1> HIDE DEF a
  <1>4. q \in Int /\ (a >= 0 => q <= a) /\ (a <= 0 => q <= 0)
    BY <1>3, PartOf
  <1> HIDE DEF q
  <1>5. d \in Int /\ d >= 0 /\ (d <= 0 \/ d <= q)
    BY <1>4, Clamp DEF One
  <1> HIDE DEF d
  <1>6. d \in Nat /\ d <= c
    BY <1>1, <1>3, <1>4, <1>5
  <1> QED
    BY <1>2, <1>6 DEF c

Findings == [signs    : SUBSET Sign,
             chaos    : SUBSET Fault,
             onset    : BOOLEAN,
             recent   : BOOLEAN,
             count    : Nat,
             current  : Nat,
             previous : Nat,
             changed  : BOOLEAN,
             metrics  : BOOLEAN,
             logs     : BOOLEAN,
             k8s      : BOOLEAN,
             replicas : MinReplicas..MaxReplicas]

Proposed == [action : Remedy, confidence : Nat, revision : Nat, replicas : Int]

\* A plan of the list made from hypothesis h.
PlanOf(h, p) ==
    /\ p \in Proposed
    /\ p.confidence <= h.confidence
    /\ p.action = "rollback" => h.cause = "bad_deployment"

\* The ranks within a set of ladder steps.
LEMMA Ranks ==
    ASSUME NEW S \in SUBSET (1..2)
    PROVE  /\ Cardinality(S) \in Nat
           /\ \A j \in 1..Cardinality(S) :
                 \E k \in S : Cardinality({i \in S : i <= k}) = j
  <1>1. /\ Cardinality({}) = 0 /\ Cardinality({1}) = 1 /\ Cardinality({2}) = 1
        /\ Cardinality(1..2) = 2
    <2>1. Cardinality({}) = 0 /\ \A x : Cardinality({x}) = 1
      BY FS_EmptySet, FS_Singleton, Zenon
    <2>2. Cardinality(1..2) = 2
      <3>1. 1 \in Int /\ 2 \in Int
        OBVIOUS
      <3>2. Cardinality(1..2) = IF 1 > 2 THEN 0 ELSE 2 - 1 + 1
        BY <3>1, FS_Interval, Zenon
      <3> QED
        BY <3>2
    <2> QED
      BY <2>1, <2>2, Zenon
  <1>2. S = {} \/ S = {1} \/ S = {2} \/ S = 1..2
    <2>1. 1..2 = {1, 2}
      OBVIOUS
    <2>2. \A i \in S : i = 1 \/ i = 2
      BY <2>1
    <2>3. CASE 1 \in S /\ 2 \in S
      BY <2>1, <2>2, <2>3, Zenon
    <2>4. CASE 1 \in S /\ 2 \notin S
      BY <2>2, <2>4, Zenon
    <2>5. CASE 1 \notin S /\ 2 \in S
      BY <2>2, <2>5, Zenon
    <2>6. CASE 1 \notin S /\ 2 \notin S
      BY <2>2, <2>6, Zenon
    <2> QED
      BY <2>3, <2>4, <2>5, <2>6, Zenon
  <1>3. CASE S = {}
    BY <1>1, <1>3
  <1>4. CASE S = {1}
    <2>1. {i \in S : i <= 1} = {1}
      BY <1>4
    <2> QED
      BY <1>1, <1>4, <2>1
  <1>5. CASE S = {2}
    <2>1. {i \in S : i <= 2} = {2}
      BY <1>5
    <2> QED
      BY <1>1, <1>5, <2>1
  <1>6. CASE S = 1..2
    <2>1. {i \in S : i <= 1} = {1} /\ {i \in S : i <= 2} = 1..2
      BY <1>6
    <2>2. 1 \in S /\ 2 \in S
      BY <1>6
    <2>3. \A j \in 1..2 : j = 1 \/ j = 2
      OBVIOUS
    <2> QED
      BY <1>1, <1>6, <2>1, <2>2, <2>3
  <1> QED
    BY <1>2, <1>3, <1>4, <1>5, <1>6

\* Every candidate is a plan of the hypothesis; only the ladder of a bad
\* deployment has a rollback on it.
LEMMA CandidatesFacts ==
    ASSUME NEW h \in Hypothesis, NEW f \in Findings, NEW attempted,
           NEW bias \in [Remedy -> 0..One]
    PROVE  /\ Candidates(h, f, attempted, bias) \in Seq(Proposed)
           /\ \A j \in 1..Len(Candidates(h, f, attempted, bias)) :
                 PlanOf(h, Candidates(h, f, attempted, bias)[j])
  <1> DEFINE ladder == ACTION_LADDER[h.cause]
             usable == {k \in DOMAIN ladder : /\ ladder[k] \notin attempted
                                              /\ Possible(ladder[k], f)}
             plan(k) == [action     |-> ladder[k],
                         confidence |-> Discounted(h, k, bias[ladder[k]]),
                         revision   |-> f.previous,
                         replicas   |-> Max({MinReplicas, ScaleTarget(f)})]
             step(j) == CHOOSE k \in usable :
                           Cardinality({i \in usable : i <= k}) = j
             list == [j \in 1..Cardinality(usable) |-> plan(step(j))]
  <1>1. h.cause \in Cause
    BY DEF Hypothesis
  <1>2. /\ DOMAIN ladder \subseteq 1..2
        /\ \A k \in DOMAIN ladder :
              /\ ladder[k] \in Remedy
              /\ ladder[k] = "rollback" => h.cause = "bad_deployment"
    BY <1>1 DEF Cause, ACTION_LADDER, Remedy
  <1>3. Max({MinReplicas, ScaleTarget(f)}) \in Int /\ f.previous \in Nat
    <2>1. MinReplicas \in Int /\ ScaleTarget(f) \in Int /\ f.previous \in Nat
      BY DiagnosisAssumption DEF ScaleTarget, Findings
    <2> QED
      BY <2>1, OfTwo
  <1> HIDE DEF ladder
  <1>4. \A k \in DOMAIN ladder : PlanOf(h, plan(k))
    <2> TAKE k \in DOMAIN ladder
    <2> DEFINE d == Discounted(h, k, bias[ladder[k]])
    <2>1. ladder[k] \in Remedy /\ k \in 1..2 /\ bias[ladder[k]] \in 0..One
      BY <1>2
    <2>2. d \in Nat /\ d <= h.confidence
      BY <2>1, DiscountedFacts
    <2> HIDE DEF d
    <2>3. plan(k) = [action |-> ladder[k], confidence |-> d,
                     revision |-> f.previous,
                     replicas |-> Max({MinReplicas, ScaleTarget(f)})]
      BY DEF d
    <2> HIDE DEF plan
    <2> QED
      BY <1>2, <1>3, <2>1, <2>2, <2>3 DEF PlanOf, Proposed
  <1>5. usable \in SUBSET (1..2) /\ usable \subseteq DOMAIN ladder
    BY <1>2
  <1> HIDE DEF plan, usable
  <1>6. /\ Cardinality(usable) \in Nat
        /\ \A j \in 1..Cardinality(usable) : step(j) \in usable
    BY <1>5, Ranks
  <1>7. \A j \in 1..Cardinality(usable) : PlanOf(h, plan(step(j)))
    BY <1>4, <1>5, <1>6
  <1> HIDE DEF step
  <1>8. /\ list \in Seq(Proposed) /\ Len(list) = Cardinality(usable)
        /\ \A j \in 1..Len(list) : PlanOf(h, list[j])
    BY <1>6, <1>7 DEF PlanOf
  <1>9. CASE h.action = "escalate"
    <2>1. Candidates(h, f, attempted, bias) = <<>>
      BY <1>9 DEF Candidates
    <2> QED
      BY <2>1
  <1>10. CASE h.action # "escalate"
    <2>1. Candidates(h, f, attempted, bias) = list
      BY <1>10 DEF Candidates, list, step, plan, usable, ladder
    <2> HIDE DEF list
    <2> QED
      BY <1>8, <2>1
  <1> QED
    BY <1>9, <1>10

-----------------------------------------------------------------------------
(***************************************************************************)
(* The inductive invariant.                                                *)
(***************************************************************************)
ClusterRecord == [history  : Seq(ReplicaSet) \ {<<>>},
                  template : Template \cup {NoTemplate},
                  replicas : MinReplicas..MaxReplicas,
                  faults   : SUBSET Fault,
                  foreign  : BOOLEAN]

\* Pods that are ready are those of a template that works.
ReadyWork(history) ==
    \A k \in 1..Len(history) : history[k].ready => Working(history[k].template)

ClusterSound(c) == c \in ClusterRecord /\ ReadyWork(c.history)

\* An incident, by the step it is at.
Waiting == [pc : {"none", "resolved", "escalated"}]

Looking == [pc : {"investigating"}, cycle : 1..MaxCycles, attempted : SUBSET Remedy]

Judging == [pc         : {"diagnosed", "policy", "executing", "patching"},
            cycle      : 1..MaxCycles,
            attempted  : SUBSET Remedy,
            findings   : Findings,
            rules      : Hypothesis,
            hypothesis : Hypothesis,
            plans      : Seq(Proposed),
            executed   : BOOLEAN,
            template   : Template \cup {NoTemplate}]

Validating == [pc : {"settling", "polling"}, cycle : 1..MaxCycles,
               attempted : SUBSET Remedy, polls : Nat]

(***************************************************************************)
(* What a plan may rest on: it is no surer than the hypothesis, and a      *)
(* hypothesis sure enough for a rollback is one of rules that are, too.    *)
(***************************************************************************)
Gated(i) ==
    i.hypothesis.cause = "bad_deployment"
    /\ i.hypothesis.confidence >= Threshold("rollback")
    => i.rules.confidence >= Threshold("rollback") /\ i.findings.changed

Passed(i) ==
    i.plans # <<>> /\ i.plans[1].confidence >= Threshold(i.plans[1].action)

Reasoned(i) ==
    /\ i.pc # "diagnosed" => Gated(i)
    /\ i.pc = "diagnosed" => i.rules = Analyse(i.findings)
    /\ \A j \in 1..Len(i.plans) : PlanOf(i.hypothesis, i.plans[j])
    /\ i.pc \in {"executing", "patching"} => Passed(i)
    /\ i.pc = "patching" => i.plans[1].action = "rollback"

IncidentSound(i) ==
    \/ i \in Waiting \cup Looking \cup Validating
    \/ i \in Judging /\ Reasoned(i)

\* Until somebody else changes the Deployment, what is polled is acted on.
PolledRolledOut ==
    At("polling") /\ setup.api /\ ~cluster.foreign => cluster.template = NoTemplate

Sound ==
    /\ setup \in Setups
    /\ cooling \in SUBSET Remedy
    /\ ClusterSound(cluster)
    /\ IncidentSound(incident)
    /\ PolledRolledOut

-----------------------------------------------------------------------------
(***************************************************************************)
(* Steps of an incident.                                                   *)
(***************************************************************************)
\* The step an incident is at tells which record it is.
LEMMA Shapes ==
    ASSUME NEW i, IncidentSound(i)
    PROVE  /\ i.pc = "investigating" => i \in Looking
           /\ i.pc \in {"diagnosed", "policy", "executing", "patching"} =>
                 i \in Judging /\ Reasoned(i)
           /\ i.pc \in {"settling", "polling"} => i \in Validating
           /\ i.pc \in {"none", "resolved", "escalated"} => i \in Waiting
  BY DEF IncidentSound, Waiting, Looking, Judging, Validating

\* A new cycle is one more, and never more than allowed.
LEMMA NextCycleSound ==
    ASSUME incident.cycle \in 1..MaxCycles, NEW attempted \in SUBSET Remedy,
           NextCycle(attempted)
    PROVE  IncidentSound(incident') /\ ~At("polling")'
  <1>1. CASE incident' = Escalated
    BY <1>1 DEF Escalated, IncidentSound, Waiting, At
  <1>2. CASE /\ incident.cycle < MaxCycles
             /\ incident' = [pc |-> "investigating", cycle |-> incident.cycle + 1,
                             attempted |-> attempted]
    <2>1. incident.cycle + 1 \in 1..MaxCycles
      BY <1>2, RemediationAssumption
    <2> QED
      BY <1>2, <2>1 DEF IncidentSound, Looking, At
  <1> QED
    BY <1>1, <1>2 DEF NextCycle

\* Plan, when there is one, is a plan of the hypothesis.
LEMMA PlanFacts ==
    ASSUME incident \in Judging, Reasoned(incident), incident.plans # <<>>
    PROVE  /\ PlanOf(incident.hypothesis, Plan) /\ Plan \in Proposed
           /\ Attempted \in SUBSET Remedy
           /\ Tail(incident.plans) \in Seq(Proposed)
           /\ \A j \in 1..Len(Tail(incident.plans)) :
                 PlanOf(incident.hypothesis, Tail(incident.plans)[j])
  <1>1. incident.plans \in Seq(Proposed) /\ incident.attempted \in SUBSET Remedy
    BY DEF Judging
  <1>2. Len(incident.plans) \in Nat /\ Len(incident.plans) > 0
    BY <1>1, EmptySeq, LenProperties
  <1>3. PlanOf(incident.hypothesis, Plan)
    BY <1>2 DEF Plan, Reasoned
  <1>4. Plan.action \in Remedy /\ Plan \in Proposed
    BY <1>3 DEF PlanOf, Proposed
  <1>5. /\ Tail(incident.plans) \in Seq(Proposed)
        /\ Len(Tail(incident.plans)) = Len(incident.plans) - 1
        /\ \A j \in 1..Len(Tail(incident.plans)) :
              Tail(incident.plans)[j] = incident.plans[j + 1]
    BY <1>1, HeadTailProperties
  <1>6. \A j \in 1..Len(Tail(incident.plans)) :
           PlanOf(incident.hypothesis, Tail(incident.plans)[j])
    <2> TAKE j \in 1..Len(Tail(incident.plans))
    <2>1. j + 1 \in 1..Len(incident.plans)
      BY <1>2, <1>5
    <2> QED
      BY <1>5, <2>1 DEF Reasoned
  <1> QED
    BY <1>1, <1>3, <1>4, <1>5, <1>6 DEF Attempted

\* A step of the list of plans keeps an incident sound.
LEMMA TailSound ==
    ASSUME incident \in Judging, Reasoned(incident), incident.plans # <<>>,
           incident.pc # "diagnosed", NEW executed \in BOOLEAN,
           NEW attempted \in SUBSET Remedy,
           incident' = [incident EXCEPT !.pc = "policy", !.plans = Tail(@),
                                        !.executed = executed,
                                        !.attempted = attempted]
    PROVE  IncidentSound(incident') /\ ~At("polling")'
  <1>1. /\ incident' \in Judging /\ incident'.pc = "policy"
        /\ incident'.plans = Tail(incident.plans)
        /\ incident'.hypothesis = incident.hypothesis
        /\ incident'.rules = incident.rules
        /\ incident'.findings = incident.findings
    BY PlanFacts DEF Judging
  <1>2. Reasoned(incident')
    BY <1>1, PlanFacts DEF Reasoned, Gated
  <1> QED
    BY <1>1, <1>2 DEF IncidentSound, At

\* An execution that is recorded, whichever way it went.
LEMMA ExecutedSound ==
    ASSUME incident \in Judging, Reasoned(incident),
           incident.pc \in {"executing", "patching"},
           Succeeds \/ Fails \/ NextCycle(Attempted)
    PROVE  IncidentSound(incident') /\ ~At("polling")'
  <1>1. incident.plans # <<>> /\ incident.pc # "diagnosed"
    BY DEF Reasoned, Passed
  <1>2. incident.cycle \in 1..MaxCycles /\ Attempted \in SUBSET Remedy
    BY <1>1, PlanFacts DEF Judging
  <1>3. CASE Succeeds
    BY <1>2, <1>3 DEF Succeeds, IncidentSound, Validating, At
  <1>4. CASE Fails
    BY <1>1, <1>2, <1>4, TailSound DEF Fails
  <1>5. CASE NextCycle(Attempted)
    BY <1>2, <1>5, NextCycleSound
  <1> QED
    BY <1>3, <1>4, <1>5

\* What an execution adds to the cooldowns is an action.
LEMMA RecordedSound ==
    ASSUME Sound, incident.pc \in {"executing", "patching"}, Recorded
    PROVE  cooling' \in SUBSET Remedy /\ setup' \in Setups
  <1>1. incident \in Judging /\ Reasoned(incident)
    BY Shapes DEF Sound
  <1>2. Plan \in Proposed
    BY <1>1, PlanFacts DEF Reasoned, Passed
  <1> QED
    BY <1>2 DEF Recorded, Sound, Proposed

\* Evidence and its correlation.
LEMMA CorrelateTyped ==
    ASSUME ClusterSound(cluster), NEW e \in Evidence
    PROVE  Correlate(e) \in Findings
  <1>1. /\ cluster.history \in Seq(ReplicaSet)
        /\ cluster.replicas \in MinReplicas..MaxReplicas
        /\ cluster.faults \in SUBSET Fault
    BY DEF ClusterSound, ClusterRecord
  <1>2. /\ e.history \in Seq(ReplicaSet)
        /\ e.replicas \in MinReplicas..MaxReplicas
        /\ e.chaos \in SUBSET Fault
        /\ e.signs \in SUBSET Sign
        /\ e.metrics \in BOOLEAN /\ e.logs \in BOOLEAN /\ e.k8s \in BOOLEAN
    <2>1. e \in [metrics  : BOOLEAN, logs : BOOLEAN, k8s : BOOLEAN,
                 signs    : Pictures, chaos : {cluster.faults, {}},
                 history  : {cluster.history, <<>>},
                 replicas : {cluster.replicas}]
      BY Zenon DEF Evidence
    <2>2. <<>> \in Seq(ReplicaSet)
      OBVIOUS
    <2>3. /\ e.history = cluster.history \/ e.history = <<>>
          /\ e.replicas = cluster.replicas
          /\ e.chaos = cluster.faults \/ e.chaos = {}
          /\ e.signs \in Pictures
          /\ e.metrics \in BOOLEAN /\ e.logs \in BOOLEAN /\ e.k8s \in BOOLEAN
      BY <2>1
    <2>4. e.signs \in SUBSET Sign
      BY <2>3, RemediationAssumption
    <2>5. e.history \in Seq(ReplicaSet) /\ e.chaos \in SUBSET Fault
          /\ e.replicas \in MinReplicas..MaxReplicas
      BY <1>1, <2>2, <2>3, Zenon
    <2> QED
      BY <2>3, <2>4, <2>5
  <1> DEFINE h == e.history
             k == RollbackCandidate(h)
  <1>3. /\ Len(h) \in Nat
        /\ \A i \in 1..Len(h) : h[i].rev \in Nat /\ h[i].recent \in BOOLEAN
        /\ h # <<>> => 1 \in 1..Len(h)
    <2> HIDE DEF h
    <2>1. h \in Seq(ReplicaSet)
      BY <1>2 DEF h
    <2>2. Len(h) \in Nat /\ (\A i \in 1..Len(h) : h[i] \in ReplicaSet)
          /\ (h # <<>> => Len(h) # 0)
      BY <2>1, LenProperties, EmptySeq
    <2>3. \A x \in ReplicaSet : x.rev \in Nat /\ x.recent \in BOOLEAN
      BY DEF ReplicaSet
    <2> QED
      BY <2>2, <2>3
  <1>4. k = 0 \/ k \in 1..Len(h)
    <2> DEFINE valid == {i \in 2..Len(h) : ImagesValid(h[i].template)}
    <2>1. valid \in SUBSET Nat /\ valid \subseteq 1..Len(h)
      BY <1>3
    <2>2. k = IF valid = {} THEN 0 ELSE Min(valid)
      BY DEF RollbackCandidate
    <2> HIDE DEF valid, k
    <2> QED
      BY <2>1, <2>2, HasMin
  <1> HIDE DEF k
  <1> DEFINE c == Correlate(e)
             current == IF h = <<>> THEN NoRevision ELSE h[1].rev
             previous == IF k = 0 THEN NoRevision ELSE h[k].rev
             onset == CorrelatesWithOnset(e)
             recent == h # <<>> /\ h[1].recent
             changed == k # 0 /\ ContainersOf[h[1].template] # ContainersOf[h[k].template]
  <1>5. current \in Nat /\ previous \in Nat /\ onset \in BOOLEAN
        /\ recent \in BOOLEAN /\ changed \in BOOLEAN
    BY <1>3, <1>4 DEF NoRevision, CorrelatesWithOnset
  <1>6. c = [signs |-> e.signs, chaos |-> e.chaos, onset |-> onset,
             recent |-> recent, count |-> Len(h), current |-> current,
             previous |-> previous, changed |-> changed, metrics |-> e.metrics,
             logs |-> e.logs, k8s |-> e.k8s, replicas |-> e.replicas]
    BY Zenon DEF Correlate, k
  <1> HIDE DEF c, current, previous, onset, recent, changed
  <1>7. c \in Findings
    BY <1>2, <1>3, <1>5, <1>6 DEF Findings
  <1> QED
    BY <1>7 DEF c

\* Investigate: a new diagnosis.
LEMMA InvestigateSound ==
    ASSUME Sound, Investigate
    PROVE  IncidentSound(incident') /\ ~At("polling")'
  <1>1. PICK e \in Evidence : incident' = Diagnosed(Correlate(e))
    BY DEF Investigate
  <1> DEFINE f == Correlate(e)
  <1>2. f \in Findings
    BY CorrelateTyped DEF Sound
  <1>3. Analyse(f) \in Hypothesis
    BY AnalyseTyped
  <1>4. incident \in Looking
    BY Shapes DEF Sound, Investigate, At
  <1> HIDE DEF f
  <1>5. incident' = Diagnosed(f)
    BY <1>1 DEF f
  <1>6. incident' \in Judging
    BY <1>2, <1>3, <1>4, <1>5 DEF Diagnosed, Judging, Looking
  <1>7. Reasoned(incident')
    BY <1>5 DEF Diagnosed, Reasoned
  <1> QED
    BY <1>5, <1>6, <1>7 DEF IncidentSound, At, Diagnosed

\* Decide: the plans of a hypothesis the reasoner has seen.
LEMMA DecideSound ==
    ASSUME Sound, Decide
    PROVE  IncidentSound(incident') /\ ~At("polling")'
  <1>1. incident \in Judging /\ Reasoned(incident) /\ incident.pc = "diagnosed"
    BY Shapes DEF Sound, Decide, At
  <1>2. PICK reply \in Replies, rows \in PastRows, votes \in PastVotes :
           LET h     == Enrich(incident.rules, reply)
               bias  == [a \in Remedy |-> MergeBias(rows[a], votes)]
               plans == Candidates(h, incident.findings, incident.attempted, bias)
           IN  incident' = IF plans = <<>> THEN Escalated
                           ELSE [incident EXCEPT !.pc = "policy",
                                                 !.hypothesis = h, !.plans = plans]
    BY DEF Decide
  <1> DEFINE f     == incident.findings
             h     == Enrich(incident.rules, reply)
             bias  == [a \in Remedy |-> MergeBias(rows[a], votes)]
             plans == Candidates(h, f, incident.attempted, bias)
  <1>3. reply \in Reply
    BY RemediationAssumption DEF Replies, Reply
  <1>4. incident.rules \in Hypothesis /\ f \in Findings /\ incident.rules = Analyse(f)
    BY <1>1 DEF Judging, Reasoned
  <1>5. h \in Hypothesis
    BY <1>3, <1>4, EnrichFacts
  <1>6. h.cause = "bad_deployment" /\ h.confidence >= Threshold("rollback")
        => incident.rules.confidence >= Threshold("rollback") /\ f.changed
    BY <1>3, <1>4, GateFacts
  <1>7. bias \in [Remedy -> 0..One]
    <2>1. \A a \in Remedy : rows[a] \in Rows
      BY RemediationAssumption DEF Rows
    <2>2. votes \in Votes
      BY RemediationAssumption DEF Votes
    <2>3. \A a \in Remedy : MergeBias(rows[a], votes) \in 0..One
      BY <2>1, <2>2, BiasFacts
    <2> QED
      BY <2>3
  <1> HIDE DEF bias, h, f
  <1>8. plans \in Seq(Proposed) /\ \A j \in 1..Len(plans) : PlanOf(h, plans[j])
    BY <1>4, <1>5, <1>7, CandidatesFacts
  <1>9. incident' = IF plans = <<>> THEN Escalated
                    ELSE [incident EXCEPT !.pc = "policy", !.hypothesis = h,
                                          !.plans = plans]
    BY <1>2 DEF bias, h, f
  <1> HIDE DEF plans
  <1>10. CASE incident' = Escalated
    BY <1>10 DEF Escalated, IncidentSound, Waiting, At
  <1>11. CASE incident' = [incident EXCEPT !.pc = "policy", !.hypothesis = h,
                                           !.plans = plans]
    <2>1. /\ incident' \in Judging /\ incident'.pc = "policy"
          /\ incident'.hypothesis = h /\ incident'.plans = plans
          /\ incident'.rules = incident.rules
          /\ incident'.findings = f
      BY <1>1, <1>5, <1>8, <1>11 DEF Judging, f
    <2>2. Reasoned(incident')
      BY <1>6, <1>8, <2>1 DEF Reasoned, Gated
    <2> QED
      BY <2>1, <2>2 DEF IncidentSound, At
  <1> QED
    BY <1>9, <1>10, <1>11

\* CheckPolicy: a plan that passes has reached its threshold.
LEMMA CheckPolicySound ==
    ASSUME Sound, CheckPolicy
    PROVE  IncidentSound(incident') /\ ~At("polling")'
  <1>1. incident \in Judging /\ Reasoned(incident) /\ incident.pc = "policy"
        /\ incident.plans # <<>>
    BY Shapes DEF Sound, CheckPolicy, At
  <1>2. CASE /\ Allowed(Plan, incident.findings, Count, Context)
             /\ incident' = [incident EXCEPT !.pc = "executing"]
    <2>1. /\ incident' \in Judging /\ incident'.pc = "executing"
          /\ incident'.plans = incident.plans
          /\ incident'.hypothesis = incident.hypothesis
          /\ incident'.rules = incident.rules
          /\ incident'.findings = incident.findings
      BY <1>1, <1>2 DEF Judging
    <2>2. incident.plans[1].confidence >= Threshold(incident.plans[1].action)
      BY <1>2 DEF Allowed, Plan
    <2>3. Reasoned(incident')
      BY <1>1, <2>1, <2>2 DEF Reasoned, Gated, Passed
    <2> QED
      BY <2>1, <2>3 DEF IncidentSound, At
  <1>3. CASE incident' = [incident EXCEPT !.plans = Tail(@)]
    <2>1. incident' = [incident EXCEPT !.pc = "policy", !.plans = Tail(@),
                                       !.executed = incident.executed,
                                       !.attempted = incident.attempted]
      BY <1>1, <1>3 DEF Judging
    <2>2. incident.executed \in BOOLEAN /\ incident.attempted \in SUBSET Remedy
      BY <1>1 DEF Judging
    <2> QED
      BY <1>1, <2>1, <2>2, TailSound
  <1> QED
    BY <1>2, <1>3 DEF CheckPolicy

\* OutOfPlans and Poll: a new cycle, or the end.
LEMMA OutOfPlansSound ==
    ASSUME Sound, OutOfPlans
    PROVE  IncidentSound(incident') /\ ~At("polling")'
  <1>1. incident \in Judging
    BY Shapes DEF Sound, OutOfPlans, At
  <1>2. incident.cycle \in 1..MaxCycles /\ incident.attempted \in SUBSET Remedy
    BY <1>1 DEF Judging
  <1>3. CASE incident' = Escalated
    BY <1>3 DEF Escalated, IncidentSound, Waiting, At
  <1>4. CASE NextCycle(incident.attempted)
    BY <1>2, <1>4, NextCycleSound
  <1> QED
    BY <1>3, <1>4 DEF OutOfPlans

\* A poll that passes, fails or waits.
LEMMA PollSound ==
    ASSUME Sound, Poll
    PROVE  IncidentSound(incident')
  <1>1. incident \in Validating
    BY Shapes DEF Sound, Poll, At
  <1>2. incident.cycle \in 1..MaxCycles /\ incident.attempted \in SUBSET Remedy
    BY <1>1 DEF Validating
  <1>3. CASE incident' = Resolved
    BY <1>3 DEF Resolved, IncidentSound, Waiting
  <1>4. CASE incident' = [incident EXCEPT !.polls = @ + 1]
    BY <1>1, <1>4 DEF IncidentSound, Validating
  <1>5. CASE NextCycle(incident.attempted)
    BY <1>2, <1>5, NextCycleSound
  <1> QED
    BY <1>3, <1>4, <1>5 DEF Poll

\* Reread: the plan at hand is the rollback, and stays it.
LEMMA RereadSound ==
    ASSUME Sound, Reread
    PROVE  /\ IncidentSound(incident') /\ ~At("polling")'
           /\ cooling' \in SUBSET Remedy /\ setup' \in Setups
  <1>1. /\ incident \in Judging /\ Reasoned(incident) /\ incident.pc = "executing"
        /\ Plan.action = "rollback"
    BY Shapes DEF Sound, Reread, Sending, At
  <1>2. CASE Fails /\ Recorded
    BY <1>1, <1>2, ExecutedSound, RecordedSound
  <1>3. ASSUME NEW k \in DOMAIN cluster.history,
               incident' = [incident EXCEPT !.pc = "patching",
                               !.template = cluster.history[k].template],
               UNCHANGED <<setup, cooling>>
        PROVE  /\ IncidentSound(incident') /\ ~At("polling")'
               /\ cooling' \in SUBSET Remedy /\ setup' \in Setups
    <2>1. cluster.history[k].template \in Template
      <3>1. cluster.history \in Seq(ReplicaSet)
        BY DEF Sound, ClusterSound, ClusterRecord
      <3>2. cluster.history[k] \in ReplicaSet
        BY <3>1, <1>3, LenProperties
      <3> QED
        BY <3>2 DEF ReplicaSet
    <2>2. /\ incident' \in Judging /\ incident'.pc = "patching"
          /\ incident'.plans = incident.plans
          /\ incident'.hypothesis = incident.hypothesis
          /\ incident'.rules = incident.rules
          /\ incident'.findings = incident.findings
      BY <1>1, <1>3, <2>1 DEF Judging
    <2>3. Reasoned(incident')
      BY <1>1, <2>2 DEF Reasoned, Gated, Passed, Plan
    <2> QED
      BY <1>3, <2>2, <2>3 DEF IncidentSound, At, Sound
  <1> QED
    BY <1>2, <1>3 DEF Reread

-----------------------------------------------------------------------------
(***************************************************************************)
(* Steps of the cluster.                                                   *)
(***************************************************************************)
\* A history of ReplicaSets, none of which is ready with a bad template.
GoodHistory(h) == h \in Seq(ReplicaSet) /\ h # <<>> /\ ReadyWork(h)

\* What a change of the cluster may do to a Deployment that was acted on.
Calm == \/ cluster'.foreign
        \/ cluster'.template = NoTemplate
        \/ cluster'.template = cluster.template /\ cluster'.foreign = cluster.foreign

\* A good history followed by more of the kind is a good history.
LEMMA JoinGood ==
    ASSUME NEW a, GoodHistory(a), NEW b \in Seq(ReplicaSet), ReadyWork(b)
    PROVE  GoodHistory(a \o b)
  <1> DEFINE n == a \o b
  <1>1. a \in Seq(ReplicaSet) /\ a # <<>> /\ Len(a) \in Nat /\ Len(b) \in Nat
        /\ Len(a) # 0
    BY LenProperties, EmptySeq DEF GoodHistory
  <1>2. /\ n \in Seq(ReplicaSet) /\ Len(n) = Len(a) + Len(b)
        /\ \A k \in 1..(Len(a) + Len(b)) :
              n[k] = IF k <= Len(a) THEN a[k] ELSE b[k - Len(a)]
    BY <1>1, ConcatProperties
  <1> HIDE DEF n
  <1>3. n # <<>>
    BY <1>1, <1>2, EmptySeq
  <1>4. ASSUME NEW k \in 1..Len(n), n[k].ready
        PROVE  Working(n[k].template)
    <2>1. CASE k <= Len(a)
      <3>1. k \in 1..Len(a) /\ n[k] = a[k]
        BY <1>1, <1>2, <2>1
      <3> QED
        BY <1>4, <3>1 DEF GoodHistory, ReadyWork
    <2>2. CASE ~(k <= Len(a))
      <3>1. k - Len(a) \in 1..Len(b) /\ n[k] = b[k - Len(a)]
        BY <1>1, <1>2, <2>2
      <3> QED
        BY <1>4, <3>1 DEF ReadyWork
    <2> QED
      BY <2>1, <2>2
  <1> QED
    BY <1>2, <1>3, <1>4 DEF GoodHistory, ReadyWork, n

\* So is one ReplicaSet that is ready only if it works.
LEMMA OneGood ==
    ASSUME NEW r \in ReplicaSet, r.ready => Working(r.template)
    PROVE  GoodHistory(<<r>>)
  <1>1. /\ <<r>> \in Seq(ReplicaSet) /\ Len(<<r>>) = 1 /\ <<r>>[1] = r
        /\ <<r>> # <<>>
    OBVIOUS
  <1> QED
    BY <1>1 DEF GoodHistory, ReadyWork

\* A part of a history is as good as the whole.
LEMMA PartGood ==
    ASSUME NEW h, GoodHistory(h), NEW m \in 1..(Len(h) + 1), NEW n \in 0..Len(h)
    PROVE  SubSeq(h, m, n) \in Seq(ReplicaSet) /\ ReadyWork(SubSeq(h, m, n))
  <1>1. h \in Seq(ReplicaSet) /\ Len(h) \in Nat
    BY LenProperties DEF GoodHistory
  <1> DEFINE s == SubSeq(h, m, n)
  <1>2. /\ s \in Seq(ReplicaSet)
        /\ Len(s) = IF m <= n THEN n - m + 1 ELSE 0
        /\ \A i \in 1..(n - m + 1) : s[i] = h[m + i - 1]
    BY <1>1, SubSeqProperties
  <1> HIDE DEF s
  <1>3. ASSUME NEW k \in 1..Len(s)
        PROVE  m + k - 1 \in 1..Len(h) /\ s[k] = h[m + k - 1]
    <2>1. k \in Nat /\ k >= 1 /\ m <= n /\ k <= n - m + 1
      BY <1>1, <1>2, <1>3
    <2> QED
      BY <1>1, <1>2, <2>1
  <1>4. ReadyWork(s)
    BY <1>3 DEF GoodHistory, ReadyWork
  <1> QED
    BY <1>2, <1>4 DEF s

\* The members of a history.
LEMMA MemberGood ==
    ASSUME NEW h, GoodHistory(h), NEW k \in 1..Len(h)
    PROVE  h[k] \in ReplicaSet /\ (h[k].ready => Working(h[k].template))
  BY LenProperties DEF GoodHistory, ReadyWork

\* The cluster's own history is good, and its first entry is there.
LEMMA ClusterFacts ==
    ASSUME ClusterSound(cluster)
    PROVE  /\ GoodHistory(cluster.history)
           /\ Len(cluster.history) \in Nat /\ 1 \in 1..Len(cluster.history)
           /\ Newest \in ReplicaSet
           /\ DOMAIN cluster.history = 1..Len(cluster.history)
  <1> DEFINE h == cluster.history
  <1>1. GoodHistory(h)
    BY DEF ClusterSound, ClusterRecord, GoodHistory
  <1> HIDE DEF h
  <1>2. Len(h) \in Nat /\ Len(h) # 0 /\ DOMAIN h = 1..Len(h)
    BY <1>1, LenProperties, EmptySeq DEF GoodHistory
  <1>3. 1 \in 1..Len(h) /\ h[1] \in ReplicaSet
    BY <1>1, <1>2, MemberGood
  <1> QED
    BY <1>1, <1>2, <1>3 DEF h, Newest

\* The controller acts: a new ReplicaSet, not ready yet.
LEMMA ControllerActsSound ==
    ASSUME ClusterSound(cluster), ControllerActs
    PROVE  ClusterSound(cluster') /\ Calm
  <1> DEFINE r == [rev |-> Newest.rev + 1, template |-> cluster.template,
                   ready |-> FALSE, recent |-> TRUE]
             h == <<r>> \o cluster.history
  <1>1. cluster.template \in Template
    BY DEF ControllerActs, ClusterSound, ClusterRecord
  <1>2. r \in ReplicaSet /\ ~r.ready
    BY <1>1, ClusterFacts DEF ReplicaSet
  <1>3. cluster' = [cluster EXCEPT !.history = h, !.template = NoTemplate]
    BY DEF ControllerActs, Rolled, Newest
  <1> HIDE DEF r
  <1>4. GoodHistory(h)
    BY <1>2, ClusterFacts, OneGood, JoinGood DEF GoodHistory
  <1> HIDE DEF h
  <1> QED
    BY <1>3, <1>4 DEF ClusterSound, ClusterRecord, GoodHistory, Calm

\* A history each entry of which is as good as before.
LEMMA MapGood ==
    ASSUME NEW h, GoodHistory(h), NEW m, m = [k \in DOMAIN h |-> m[k]],
           \A k \in 1..Len(h) : /\ m[k] \in ReplicaSet
                                /\ m[k].ready => Working(m[k].template)
    PROVE  GoodHistory(m)
  <1>1. h \in Seq(ReplicaSet) /\ Len(h) \in Nat /\ Len(h) # 0
        /\ DOMAIN h = 1..Len(h)
    BY LenProperties, EmptySeq DEF GoodHistory
  <1>2. m \in [1..Len(h) -> ReplicaSet]
    BY <1>1
  <1>3. m \in Seq(ReplicaSet) /\ Len(m) = Len(h)
    BY <1>1, <1>2
  <1>4. m # <<>>
    BY <1>1, <1>3, EmptySeq
  <1>5. ReadyWork(m)
    BY <1>3 DEF ReadyWork
  <1> QED
    BY <1>3, <1>4, <1>5 DEF GoodHistory

\* A rollout completes only with a template that works.
LEMMA RolloutCompletesSound ==
    ASSUME ClusterSound(cluster), RolloutCompletes
    PROVE  ClusterSound(cluster') /\ Calm
  <1> DEFINE g(k) == [cluster.history[k] EXCEPT !.ready = (k = 1)]
             h == [k \in DOMAIN cluster.history |-> g(k)]
  <1>1. ASSUME NEW k \in 1..Len(cluster.history)
        PROVE  /\ g(k) \in ReplicaSet
               /\ g(k).ready => Working(g(k).template)
    <2>1. cluster.history[k] \in ReplicaSet
      BY ClusterFacts, MemberGood
    <2>2. /\ g(k) \in ReplicaSet /\ g(k).ready = (k = 1)
          /\ g(k).template = cluster.history[k].template
      BY <2>1 DEF ReplicaSet
    <2> QED
      BY <2>2 DEF RolloutCompletes, Newest
  <1>2. cluster' = [cluster EXCEPT !.history = h, !.faults = {}]
    BY DEF RolloutCompletes
  <1>4. h = [k \in DOMAIN cluster.history |-> h[k]]
        /\ \A k \in 1..Len(cluster.history) : h[k] = g(k)
    BY ClusterFacts
  <1> HIDE DEF g, h
  <1>3. GoodHistory(h)
    BY <1>1, <1>4, ClusterFacts, MapGood
  <1> HIDE DEF h
  <1> QED
    BY <1>2, <1>3 DEF ClusterSound, ClusterRecord, GoodHistory, Calm

\* People change the Deployment: from then on it is foreign.
LEMMA DeploySound ==
    ASSUME ClusterSound(cluster), NEW t \in Template, Deploy(t)
    PROVE  ClusterSound(cluster') /\ Calm
  BY DEF ClusterSound, ClusterRecord, Deploy, Calm

\* Somebody rolls back: the chosen revision becomes the newest.
LEMMA UndoSound ==
    ASSUME ClusterSound(cluster), NEW k \in DOMAIN cluster.history, Undo(k)
    PROVE  ClusterSound(cluster') /\ Calm
  <1> DEFINE h == cluster.history
             n == Len(h)
             r == [h[k] EXCEPT !.rev = Newest.rev + 1]
             a == SubSeq(h, 1, k - 1)
             b == SubSeq(h, k + 1, n)
             m == <<r>> \o a \o b
  <1>1. GoodHistory(h) /\ n \in Nat /\ k \in 1..n /\ Newest \in ReplicaSet
    BY ClusterFacts
  <1>2. r \in ReplicaSet /\ (r.ready => Working(r.template))
    <2>1. h[k] \in ReplicaSet /\ (h[k].ready => Working(h[k].template))
      BY <1>1, MemberGood
    <2>2. Newest.rev + 1 \in Nat \ {0}
      BY <1>1 DEF ReplicaSet
    <2> HIDE DEF h
    <2>3. /\ r \in ReplicaSet /\ r.ready = h[k].ready
          /\ r.template = h[k].template
      BY <2>1, <2>2 DEF ReplicaSet
    <2> QED
      BY <2>1, <2>3
  <1>3. cluster' = [cluster EXCEPT !.history = m, !.foreign = TRUE]
    BY DEF Undo
  <1> HIDE DEF h, n, r
  <1>4. /\ a \in Seq(ReplicaSet) /\ ReadyWork(a)
        /\ b \in Seq(ReplicaSet) /\ ReadyWork(b)
    <2>1. /\ 1 \in 1..(n + 1) /\ k - 1 \in 0..n
          /\ k + 1 \in 1..(n + 1) /\ n \in 0..n
      BY <1>1
    <2> QED
      BY <1>1, <2>1, PartGood DEF n
  <1> HIDE DEF a, b
  <1>5. GoodHistory(m)
    BY <1>2, <1>4, OneGood, JoinGood
  <1> HIDE DEF m
  <1> QED
    BY <1>3, <1>5 DEF ClusterSound, ClusterRecord, GoodHistory, Calm

\* Part of the history goes.
LEMMA PruneSound ==
    ASSUME ClusterSound(cluster), Prune
    PROVE  ClusterSound(cluster') /\ Calm
  <1> DEFINE h == cluster.history
             m == SubSeq(h, 1, Len(h) - 1)
  <1>1. GoodHistory(h) /\ Len(h) \in Nat /\ Len(h) > 1
    BY ClusterFacts DEF Prune
  <1>2. cluster' = [cluster EXCEPT !.history = m]
    BY DEF Prune
  <1> HIDE DEF h
  <1>3. m \in Seq(ReplicaSet) /\ ReadyWork(m)
    <2>1. 1 \in 1..(Len(h) + 1) /\ Len(h) - 1 \in 0..Len(h)
      BY <1>1
    <2> QED
      BY <1>1, <2>1, PartGood
  <1>4. m # <<>>
    <2>1. \A i \in 1..(Len(h) - 1) : h[i] \in ReplicaSet
      BY <1>1, MemberGood
    <2>2. Len(m) = Len(h) - 1
      BY <1>1, <2>1, SubSeqProperties
    <2> HIDE DEF m
    <2> QED
      BY <1>1, <1>3, <2>2, EmptySeq
  <1> HIDE DEF m
  <1> QED
    BY <1>2, <1>3, <1>4 DEF ClusterSound, ClusterRecord, Calm, h

\* Pods fail.
LEMMA AccidentSound ==
    ASSUME ClusterSound(cluster), Accident
    PROVE  ClusterSound(cluster') /\ Calm
  <1>1. CASE \E f \in Fault : cluster' = [cluster EXCEPT !.faults = {f}]
    BY <1>1 DEF ClusterSound, ClusterRecord, Calm
  <1>2. CASE cluster' = [cluster EXCEPT !.history[1].ready = FALSE]
    <2> DEFINE h == cluster.history
               m == [h EXCEPT ![1] = [h[1] EXCEPT !.ready = FALSE]]
    <2>1. cluster' = [cluster EXCEPT !.history = m]
      BY <1>2
    <2>2. GoodHistory(h) /\ 1 \in 1..Len(h) /\ DOMAIN h = 1..Len(h)
      BY ClusterFacts
    <2> HIDE DEF h
    <2>3. ASSUME NEW k \in 1..Len(h)
          PROVE  m[k] \in ReplicaSet /\ (m[k].ready => Working(m[k].template))
      <3>1. h[k] \in ReplicaSet /\ (h[k].ready => Working(h[k].template))
        BY <2>2, MemberGood
      <3>2. CASE k = 1
        <4>1. m[k] = [h[k] EXCEPT !.ready = FALSE]
          BY <2>2, <3>2
        <4> HIDE DEF m
        <4> QED
          BY <3>1, <4>1 DEF ReplicaSet
      <3>3. CASE k # 1
        <4>1. m[k] = h[k]
          BY <2>2, <3>3
        <4> QED
          BY <3>1, <4>1
      <3> QED
        BY <3>2, <3>3
    <2>4. m = [k \in DOMAIN h |-> m[k]]
      BY <2>2
    <2> HIDE DEF m
    <2>5. GoodHistory(m)
      BY <2>2, <2>3, <2>4, MapGood
    <2> QED
      BY <2>1, <2>5 DEF ClusterSound, ClusterRecord, GoodHistory, Calm
  <1> QED
    BY <1>1, <1>2 DEF Accident

\* Time passes.
LEMMA TimePassesSound ==
    ASSUME ClusterSound(cluster), cooling \in SUBSET Remedy, TimePasses
    PROVE  ClusterSound(cluster') /\ Calm /\ cooling' \in SUBSET Remedy
  <1>1. CASE \E a \in cooling : cooling' = cooling \ {a} /\ UNCHANGED cluster
    BY <1>1 DEF Calm
  <1>2. CASE /\ cluster' = [cluster EXCEPT !.history =
                   [k \in DOMAIN @ |-> [@[k] EXCEPT !.recent = FALSE]]]
             /\ UNCHANGED cooling
    <2> DEFINE h == cluster.history
               m == [k \in DOMAIN h |-> [h[k] EXCEPT !.recent = FALSE]]
    <2>1. cluster' = [cluster EXCEPT !.history = m]
      BY <1>2
    <2>2. GoodHistory(h) /\ DOMAIN h = 1..Len(h)
      BY ClusterFacts
    <2> HIDE DEF h
    <2>3. ASSUME NEW k \in 1..Len(h)
          PROVE  m[k] \in ReplicaSet /\ (m[k].ready => Working(m[k].template))
      <3>1. h[k] \in ReplicaSet /\ (h[k].ready => Working(h[k].template))
        BY <2>2, MemberGood
      <3>2. m[k] = [h[k] EXCEPT !.recent = FALSE]
        BY <2>2
      <3> HIDE DEF m
      <3> QED
        BY <3>1, <3>2 DEF ReplicaSet
    <2>4. m = [k \in DOMAIN h |-> m[k]]
      BY <2>2
    <2> HIDE DEF m
    <2>5. GoodHistory(m)
      BY <2>2, <2>3, <2>4, MapGood
    <2> QED
      BY <1>2, <2>1, <2>5 DEF ClusterSound, ClusterRecord, GoodHistory, Calm
  <1> QED
    BY <1>1, <1>2 DEF TimePasses

-----------------------------------------------------------------------------
(***************************************************************************)
(* Every step.                                                             *)
(***************************************************************************)
\* An execution that leaves the cluster sound keeps everything sound.
LEMMA ExecutesSound ==
    ASSUME Sound, incident.pc \in {"executing", "patching"},
           Succeeds \/ Fails \/ NextCycle(Attempted), Recorded,
           ClusterSound(cluster')
    PROVE  Sound'
  <1>1. incident \in Judging /\ Reasoned(incident)
    BY Shapes DEF Sound
  <1>2. IncidentSound(incident') /\ ~At("polling")'
    BY <1>1, ExecutedSound
  <1>3. cooling' \in SUBSET Remedy /\ setup' \in Setups
    BY RecordedSound
  <1> QED
    BY <1>2, <1>3 DEF Sound, PolledRolledOut

\* A template that exists may be written.
LEMMA PatchSound ==
    ASSUME ClusterSound(cluster), NEW t \in Template, Patch(t)
    PROVE  ClusterSound(cluster')
  BY DEF ClusterSound, ClusterRecord, Patch

\* Nothing sent, or one of the four calls.
LEMMA ExecuteSound ==
    ASSUME Sound, Execute
    PROVE  Sound'
  <1>1. ClusterSound(cluster)
    BY DEF Sound
  <1>2. CASE NothingSent
    <2>1. incident.pc = "executing" /\ (Succeeds \/ Fails) /\ Recorded
          /\ cluster' = cluster
      BY <1>2 DEF NothingSent, At
    <2> QED
      BY <1>1, <2>1, ExecutesSound
  <1>3. CASE Restart
    <2> DEFINE t == IF cluster.template = NoTemplate THEN Newest.template
                                                     ELSE cluster.template
    <2>1. t \in Template
      BY <1>1, ClusterFacts DEF ReplicaSet, ClusterSound, ClusterRecord
    <2> HIDE DEF t
    <2>2. /\ incident.pc = "executing" /\ (Succeeds \/ Fails) /\ Recorded
          /\ Patch(t) \/ cluster' = cluster
      BY <1>3 DEF Restart, Sending, Call, At, t
    <2>3. ClusterSound(cluster')
      BY <1>1, <2>1, <2>2, PatchSound
    <2> QED
      BY <2>2, <2>3, ExecutesSound
  <1>4. CASE Scale
    <2> DEFINE n == Clamped(Plan.replicas)
    <2>1. /\ incident.pc = "executing" /\ (Succeeds \/ Fails) /\ Recorded
          /\ cluster' = [cluster EXCEPT !.replicas = n] \/ cluster' = cluster
      BY <1>4 DEF Scale, Sending, Call, At
    <2>2. n \in MinReplicas..MaxReplicas
      <3>1. Plan.replicas \in Int
        BY <2>1, Shapes, PlanFacts DEF Sound, Reasoned, Passed, Proposed
      <3>2. MinReplicas \in Int /\ MaxReplicas \in Int /\ MinReplicas <= MaxReplicas
        BY DiagnosisAssumption
      <3>3. n \in Int /\ n >= MinReplicas /\ n <= MaxReplicas
        BY <3>1, <3>2, Clamp DEF Clamped
      <3> QED
        BY <3>2, <3>3
    <2> HIDE DEF n
    <2>3. ClusterSound(cluster')
      BY <1>1, <2>1, <2>2 DEF ClusterSound, ClusterRecord
    <2> QED
      BY <2>1, <2>3, ExecutesSound
  <1>5. CASE Reset
    <2>1. /\ incident.pc = "executing" /\ Recorded
          /\ Succeeds \/ Fails \/ NextCycle(Attempted)
          /\ \E left \in {{}, cluster.faults} :
                cluster' = [cluster EXCEPT !.faults = left]
      BY <1>5 DEF Reset, Sending, At
    <2>2. ClusterSound(cluster')
      BY <1>1, <2>1 DEF ClusterSound, ClusterRecord
    <2> QED
      BY <2>1, <2>2, ExecutesSound
  <1>6. CASE Reread
    <2>1. cluster' = cluster
      BY <1>6 DEF Reread
    <2> QED
      BY <1>1, <1>6, <2>1, RereadSound DEF Sound, PolledRolledOut
  <1>7. CASE Rollback
    <2>1. /\ incident.pc = "patching" /\ (Succeeds \/ Fails) /\ Recorded
          /\ \/ ImagesValid(incident.template) /\ Patch(incident.template)
             \/ cluster' = cluster
      BY <1>7 DEF Rollback, Call, At
    <2>2. incident.template \in Template \cup {NoTemplate}
      BY <2>1, Shapes DEF Sound, Judging
    <2>3. ClusterSound(cluster')
      <3>1. ASSUME Patch(incident.template)
            PROVE  ClusterSound(cluster')
        BY <1>1, <2>2, <3>1 DEF Patch, ClusterSound, ClusterRecord
      <3> QED
        BY <1>1, <2>1, <3>1
    <2> QED
      BY <2>1, <2>3, ExecutesSound
  <1> QED
    BY <1>2, <1>3, <1>4, <1>5, <1>6, <1>7 DEF Execute

\* Everybody else's steps leave the incident alone.
LEMMA OthersSound ==
    ASSUME Sound, ControllerActs \/ Others
    PROVE  Sound'
  <1>1. ClusterSound(cluster) /\ cooling \in SUBSET Remedy
    BY DEF Sound
  <1>2. UNCHANGED <<incident, setup>>
    BY DEF ControllerActs, Others, RolloutCompletes, Prune, Accident, TimePasses,
           Deploy, Undo
  <1>3. ClusterSound(cluster') /\ Calm
    BY <1>1, ControllerActsSound, RolloutCompletesSound, PruneSound, AccidentSound,
       TimePassesSound, DeploySound, UndoSound DEF Others
  <1>4. cooling' \in SUBSET Remedy
    <2>1. CASE TimePasses
      BY <1>1, <2>1, TimePassesSound
    <2>2. CASE ~TimePasses
      BY <1>1, <2>2 DEF ControllerActs, Others, RolloutCompletes, Prune, Accident,
                        Deploy, Undo
    <2> QED
      BY <2>1, <2>2
  <1>5. PolledRolledOut'
    BY <1>2, <1>3 DEF Sound, PolledRolledOut, Calm, At
  <1> QED
    BY <1>2, <1>3, <1>4, <1>5 DEF Sound

\* Settle ends only when the patch has been acted on; Poll changes nothing.
LEMMA ValidationSound ==
    ASSUME Sound, Settle \/ Poll
    PROVE  Sound'
  <1>1. UNCHANGED <<setup, cluster, cooling>>
    BY DEF Settle, Poll
  <1>2. CASE Settle
    <2>1. incident \in Validating /\ incident' = [incident EXCEPT !.pc = "polling"]
      BY <1>2, Shapes DEF Sound, Settle, At
    <2>2. IncidentSound(incident')
      BY <2>1 DEF IncidentSound, Validating
    <2>3. PolledRolledOut'
      BY <1>1, <1>2 DEF Settle, Settled, PolledRolledOut
    <2> QED
      BY <1>1, <2>2, <2>3 DEF Sound
  <1>3. CASE Poll
    <2>1. IncidentSound(incident') /\ At("polling")
      BY <1>3, PollSound DEF Poll
    <2> QED
      BY <1>1, <2>1 DEF Sound, PolledRolledOut
  <1> QED
    BY <1>2, <1>3

\* The inductive step.
LEMMA SoundStep ==
    ASSUME Sound, [Next]_vars
    PROVE  Sound'
  <1>1. CASE AlertOpens
    <2>1. incident' \in Looking
      <3>1. 1 \in 1..MaxCycles
        BY RemediationAssumption
      <3> QED
        BY <1>1, <3>1 DEF AlertOpens, Looking
    <2>2. IncidentSound(incident') /\ ~At("polling")'
      BY <2>1 DEF IncidentSound, At, Looking
    <2> QED
      BY <1>1, <2>2 DEF AlertOpens, Sound, PolledRolledOut
  <1>2. ASSUME Investigate \/ Decide \/ CheckPolicy \/ OutOfPlans
        PROVE  Sound'
    <2>1. IncidentSound(incident') /\ ~At("polling")'
      BY <1>2, InvestigateSound, DecideSound, CheckPolicySound, OutOfPlansSound
    <2>2. UNCHANGED <<setup, cluster, cooling>>
      BY <1>2 DEF Investigate, Decide, CheckPolicy, OutOfPlans
    <2> QED
      BY <2>1, <2>2 DEF Sound, PolledRolledOut
  <1>3. CASE UNCHANGED vars
    BY <1>3 DEF vars, Sound, PolledRolledOut, At
  <1> QED
    BY <1>1, <1>2, <1>3, ExecuteSound, OthersSound, ValidationSound
       DEF Next, Lifecycle

\* The initial Deployment is covered by its newest template that works.
LEMMA SoundInit ==
    ASSUME Init
    PROVE  Sound
  <1>1. PICK templates \in Histories :
           cluster = [history |-> Deployed(templates), template |-> NoTemplate,
                      replicas |-> MinReplicas, faults |-> {}, foreign |-> TRUE]
    BY DEF Init
  <1> DEFINE n == Len(templates)
             working == {k \in 1..n : Working(templates[k])}
             ready(k) == k \in working /\ k = Min(working)
             d == [k \in 1..n |-> [rev |-> n + 1 - k, template |-> templates[k],
                                   ready |-> ready(k), recent |-> TRUE]]
  <1>2. templates \in Seq(Template) /\ n \in Nat /\ n # 0
        /\ \A k \in 1..n : templates[k] \in Template
    BY RemediationAssumption, LenProperties, EmptySeq
  <1>3. Deployed(templates) = d
    BY DEF Deployed
  <1> HIDE DEF n
  <1>4. \A k \in 1..n : /\ ready(k) \in BOOLEAN
                        /\ ready(k) => Working(templates[k])
    OBVIOUS
  <1> HIDE DEF ready
  <1>5. ASSUME NEW k \in 1..n
        PROVE  d[k] \in ReplicaSet /\ (d[k].ready => Working(d[k].template))
    <2>1. n + 1 - k \in Nat \ {0}
      BY <1>2
    <2> QED
      BY <1>2, <1>4, <2>1 DEF ReplicaSet
  <1>6. d \in Seq(ReplicaSet) /\ Len(d) = n
    <2>1. d \in [1..n -> ReplicaSet]
      BY <1>5
    <2> HIDE DEF d
    <2> QED
      BY <1>2, <2>1
  <1>7. d # <<>> /\ ReadyWork(d)
    <2> HIDE DEF d
    <2> QED
      BY <1>2, <1>5, <1>6, EmptySeq DEF ReadyWork
  <1>8. ClusterSound(cluster)
    <2>1. MinReplicas \in MinReplicas..MaxReplicas
      BY DiagnosisAssumption
    <2> HIDE DEF d
    <2> QED
      BY <1>1, <1>3, <1>6, <1>7, <2>1 DEF ClusterSound, ClusterRecord
  <1>9. IncidentSound(incident) /\ ~At("polling")
    BY DEF Init, NoIncident, IncidentSound, Waiting, At
  <1>10. setup \in Setups /\ cooling \in SUBSET Remedy
    BY DEF Init, Remedy
  <1> QED
    BY <1>8, <1>9, <1>10 DEF Sound, PolledRolledOut

(***************************************************************************)
(* The inductive invariant: whatever faults, reasoners, histories and      *)
(* other people's changes meet an incident, it carries plans that rest on  *)
(* what they were derived from, and what is ready works.                   *)
(***************************************************************************)
THEOREM Invariance == Spec => []Sound
  <1>1. Init => Sound
    BY SoundInit
  <1>2. Sound /\ [Next]_vars => Sound'
    BY SoundStep
  <1> QED
    BY <1>1, <1>2, PTL DEF Spec

-----------------------------------------------------------------------------
(***************************************************************************)
(* What follows from it.                                                   *)
(***************************************************************************)
\* Types: among them that the cycles of an incident stay within MaxCycles
\* and that no call ever asks for replicas out of bounds.
THEOREM TypeCorrectness == Spec => []TypeOK
  <1>1. Sound => TypeOK
    <2> HAVE Sound
    <2>1. /\ setup \in Setups /\ cooling \subseteq Remedy
          /\ cluster.history \in Seq(ReplicaSet) \ {<<>>}
          /\ cluster.template \in Template \cup {NoTemplate}
          /\ cluster.replicas \in MinReplicas..MaxReplicas
          /\ cluster.faults \subseteq Fault
      BY DEF Sound, ClusterSound, ClusterRecord
    <2>2. \/ incident \in Waiting \/ incident \in Looking
          \/ incident \in Judging \/ incident \in Validating
      BY DEF Sound, IncidentSound
    <2>3. /\ incident.pc \in {"none", "investigating", "diagnosed", "policy",
                 "executing", "patching", "settling", "polling", "resolved",
                 "escalated"}
          /\ "cycle" \in DOMAIN incident => incident.cycle \in 1..MaxCycles
      BY <2>2 DEF Waiting, Looking, Judging, Validating
    <2> QED
      BY <2>1, <2>3 DEF TypeOK
  <1> QED
    BY <1>1, Invariance, PTL

\* Whatever past attempts and similar incidents say, an action that is
\* executed would have reached its threshold without them.
THEOREM LearningUnlocksNothing == Spec => []LearningOnlyCautions
  <1>1. Sound => LearningOnlyCautions
    <2> SUFFICES ASSUME Sound, incident.pc = "executing"
                 PROVE  incident.hypothesis.confidence >= Threshold(Plan.action)
      BY DEF LearningOnlyCautions, At
    <2>1. incident \in Judging /\ Reasoned(incident)
      BY Shapes DEF Sound
    <2>2. PlanOf(incident.hypothesis, Plan) /\ Plan.confidence >= Threshold(Plan.action)
      BY <2>1, PlanFacts DEF Reasoned, Passed, Plan
    <2>3. /\ incident.hypothesis.confidence \in Int /\ Plan.confidence \in Int
          /\ Threshold(Plan.action) \in Int
      BY <2>1, <2>2 DEF Judging, Hypothesis, PlanOf, Proposed, Threshold
    <2> QED
      BY <2>2, <2>3 DEF PlanOf
  <1> QED
    BY <1>1, Invariance, PTL

\* Whatever a reasoner answers, a rollback that is executed would have
\* reached the 0.95 gate on the rules alone, with the images changed.
THEOREM ReasonerUnlocksNoRollback == Spec => []ReasonerTipsNoRollback
  <1>1. Sound => ReasonerTipsNoRollback
    <2> SUFFICES ASSUME Sound, incident.pc = "patching"
                 PROVE  /\ incident.rules.confidence >= Threshold("rollback")
                        /\ incident.findings.changed
      BY DEF ReasonerTipsNoRollback, At
    <2>1. incident \in Judging /\ Reasoned(incident) /\ Plan.action = "rollback"
      BY Shapes DEF Sound, Reasoned, Plan
    <2>2. PlanOf(incident.hypothesis, Plan) /\ Plan.confidence >= Threshold("rollback")
      BY <2>1, PlanFacts DEF Reasoned, Passed, Plan
    <2>3. /\ incident.hypothesis.confidence \in Int /\ Plan.confidence \in Int
          /\ Threshold("rollback") \in Int
      BY <2>1, <2>2 DEF Judging, Hypothesis, PlanOf, Proposed, Threshold
    <2>4. /\ incident.hypothesis.confidence >= Threshold("rollback")
          /\ incident.hypothesis.cause = "bad_deployment"
      BY <2>1, <2>2, <2>3 DEF PlanOf
    <2> QED
      BY <2>1, <2>4 DEF Reasoned, Gated
  <1> QED
    BY <1>1, Invariance, PTL

\* A rollback never writes a template with a malformed image, whatever the
\* history was when it was planned and is when it is executed.
THEOREM RollbackWellFormed == Spec => NeverMalformed
  <1>1. Sound /\ [Next]_vars
        => [Rollback => cluster'.template = cluster.template
                        \/ cluster'.template \notin Malformed]_vars
    <2> SUFFICES ASSUME Sound, Rollback
                 PROVE  cluster'.template = cluster.template
                        \/ cluster'.template \notin Malformed
      OBVIOUS
    <2>1. \/ ImagesValid(incident.template) /\ Patch(incident.template)
          \/ cluster' = cluster
      BY DEF Rollback, Call
    <2>2. cluster \in ClusterRecord
      BY DEF Sound, ClusterSound
    <2> QED
      BY <2>1, <2>2 DEF ImagesValid, Patch, ClusterRecord
  <1> QED
    BY <1>1, Invariance, PTL DEF Spec, NeverMalformed

\* Unless somebody else changed the Deployment, a validation that passes has
\* looked at the Pods of what was written, and at a template that works.
THEOREM PassIsRolledOut == Spec => PassMeansRolledOut
  <1>1. Sound /\ [Next]_vars
        => [/\ Poll /\ incident'.pc = "resolved"
            /\ setup.api /\ ~setup.dry_run /\ ~cluster.foreign
            => cluster.template = NoTemplate /\ Working(Newest.template)]_vars
    <2> SUFFICES ASSUME Sound, Poll, incident'.pc = "resolved",
                        setup.api, ~cluster.foreign
                 PROVE  cluster.template = NoTemplate /\ Working(Newest.template)
      OBVIOUS
    <2>1. cluster.template = NoTemplate
      BY DEF Sound, PolledRolledOut, Poll
    <2>2. Healthy
      <3>1. incident \in Validating /\ incident.pc = "polling"
        BY Shapes DEF Sound, Poll, At
      <3>2. incident' # [incident EXCEPT !.polls = @ + 1]
        BY <3>1 DEF Validating
      <3>3. ~NextCycle(incident.attempted)
        BY DEF NextCycle, Escalated
      <3> QED
        BY <3>2, <3>3 DEF Poll
    <2>3. Newest.ready
      BY <2>2 DEF Healthy, PodsReady
    <2> QED
      BY <2>1, <2>3, ClusterFacts, MemberGood DEF Sound, Newest
  <1> QED
    BY <1>1, Invariance, PTL DEF Spec, PassMeansRolledOut
=============================================================================
