------------------------- MODULE DecisionCoreProofs -------------------------
(***************************************************************************)
(* Proofs about DecisionCore, for every number of options, every pool of   *)
(* options and specs and every weight vector; and, at the end, that         *)
(* Planning implements it, with what follows for a pass without a model.   *)
(***************************************************************************)
EXTENDS Planning, FiniteSetTheorems, TLAPS

-----------------------------------------------------------------------------
(* The arithmetic of scoring.                                               *)

LEMMA ProductMonotone ==
    ASSUME NEW a \in Nat, NEW b \in Nat, NEW w \in Nat, a >= b
    PROVE  a * w >= b * w /\ a * w \in Nat /\ b * w \in Nat
  OBVIOUS

LEMMA ProductStrict ==
    ASSUME NEW a \in Nat, NEW b \in Nat, NEW w \in Nat, a > b, w > 0
    PROVE  a * w > b * w
<1>1. PICK d \in Nat : d > 0 /\ a = b + d
  <2> WITNESS a - b \in Nat
  <2> QED
    OBVIOUS
<1>2. a * w = b * w + d * w /\ d * w > 0
  BY <1>1
<1>3. b * w \in Nat /\ d * w \in Nat
  BY <1>1
<1>4. QED
  BY <1>2, <1>3

\* Componentwise better scores give no smaller composite, whatever the weights.
LEMMA CompositeMonotone ==
    ASSUME NEW w \in Weights, NEW a \in Scores, NEW b \in Scores,
           a.policy >= b.policy, a.outcome >= b.outcome,
           a.risk >= b.risk, a.fit >= b.fit
    PROVE  /\ Composite(a, w) >= Composite(b, w)
           /\ a.policy > b.policy /\ w.policy > 0 => Composite(a, w) > Composite(b, w)
<1>0. /\ a.policy \in Nat /\ a.outcome \in Nat /\ a.risk \in Nat /\ a.fit \in Nat
      /\ b.policy \in Nat /\ b.outcome \in Nat /\ b.risk \in Nat /\ b.fit \in Nat
      /\ w.policy \in Nat /\ w.outcome \in Nat /\ w.risk \in Nat /\ w.fit \in Nat
  BY DEF Weights, Scores, Shares
<1>1. /\ a.policy * w.policy >= b.policy * w.policy
      /\ a.policy * w.policy \in Nat /\ b.policy * w.policy \in Nat
  BY <1>0, ProductMonotone
<1>2. /\ a.outcome * w.outcome >= b.outcome * w.outcome
      /\ a.outcome * w.outcome \in Nat /\ b.outcome * w.outcome \in Nat
  BY <1>0, ProductMonotone
<1>3. /\ a.risk * w.risk >= b.risk * w.risk
      /\ a.risk * w.risk \in Nat /\ b.risk * w.risk \in Nat
  BY <1>0, ProductMonotone
<1>4. /\ a.fit * w.fit >= b.fit * w.fit
      /\ a.fit * w.fit \in Nat /\ b.fit * w.fit \in Nat
  BY <1>0, ProductMonotone
<1>5. a.policy > b.policy /\ w.policy > 0 => a.policy * w.policy > b.policy * w.policy
  BY <1>0, ProductStrict
<1> DEFINE ap == a.policy * w.policy    bp == b.policy * w.policy
           ao == a.outcome * w.outcome  bo == b.outcome * w.outcome
           ar == a.risk * w.risk        br == b.risk * w.risk
           af == a.fit * w.fit          bf == b.fit * w.fit
<1>6. Composite(a, w) = ap + ao + ar + af /\ Composite(b, w) = bp + bo + br + bf
  BY DEF Composite
<1> HIDE DEF ap, bp, ao, bo, ar, br, af, bf
<1>7. QED
  <2>1. /\ ap >= bp /\ ap \in Nat /\ bp \in Nat
        /\ ao >= bo /\ ao \in Nat /\ bo \in Nat
        /\ ar >= br /\ ar \in Nat /\ br \in Nat
        /\ af >= bf /\ af \in Nat /\ bf \in Nat
    BY <1>1, <1>2, <1>3, <1>4 DEF ap, bp, ao, bo, ar, br, af, bf
  <2>2. a.policy > b.policy /\ w.policy > 0 => ap > bp
    BY <1>5 DEF ap, bp
  <2>3. QED
    BY <1>6, <2>1, <2>2

LEMMA WeighedScore ==
    ASSUME NEW x \in Shares, NEW w \in Nat
    PROVE  100 * w >= x * w /\ x * w \in Nat
  BY 100 \in Nat, ProductMonotone DEF Shares

\* Weights that sum to one keep the composite within [0, 1].
LEMMA CompositeBounded ==
    ASSUME NEW w \in Weights, NEW s \in Scores,
           w.policy + w.outcome + w.risk + w.fit = 100
    PROVE  Composite(s, w) \in Composites
<1>0. /\ s.policy \in Shares /\ s.outcome \in Shares /\ s.risk \in Shares
      /\ s.fit \in Shares /\ w.policy \in Nat /\ w.outcome \in Nat
      /\ w.risk \in Nat /\ w.fit \in Nat
  BY DEF Weights, Scores
<1>1. 100 * w.policy >= s.policy * w.policy /\ s.policy * w.policy \in Nat
  BY <1>0, WeighedScore
<1>2. 100 * w.outcome >= s.outcome * w.outcome /\ s.outcome * w.outcome \in Nat
  BY <1>0, WeighedScore
<1>3. 100 * w.risk >= s.risk * w.risk /\ s.risk * w.risk \in Nat
  BY <1>0, WeighedScore
<1>4. 100 * w.fit >= s.fit * w.fit /\ s.fit * w.fit \in Nat
  BY <1>0, WeighedScore
<1> DEFINE p == s.policy * w.policy  o == s.outcome * w.outcome
           r == s.risk * w.risk      f == s.fit * w.fit
<1>5. Composite(s, w) = p + o + r + f
  BY DEF Composite
<1> HIDE DEF p, o, r, f
<1>6. /\ 100 * w.policy >= p /\ p \in Nat /\ 100 * w.outcome >= o /\ o \in Nat
      /\ 100 * w.risk >= r /\ r \in Nat /\ 100 * w.fit >= f /\ f \in Nat
  BY <1>1, <1>2, <1>3, <1>4 DEF p, o, r, f
<1>7. w.policy \in Nat /\ w.outcome \in Nat /\ w.risk \in Nat /\ w.fit \in Nat
  BY DEF Weights
<1>8. p + o + r + f \in Nat /\ p + o + r + f <= 10000
  BY <1>6, <1>7
<1>9. QED
  BY <1>5, <1>8 DEF Composites

\* A share of a positive count, in percent.
LEMMA ShareBounded ==
    ASSUME NEW a \in Nat, NEW b \in Nat, b > 0, a <= b
    PROVE  (100 * a) \div b \in Shares
<1> DEFINE q == (100 * a) \div b
<1>1. q \in Nat /\ b * q <= 100 * a
  OBVIOUS
<1>2. q > 100 => b * q > 100 * b
  BY <1>1
<1>3. 100 * a <= 100 * b
  OBVIOUS
<1> HIDE DEF q
<1>4. q <= 100
  BY <1>1, <1>2, <1>3
<1>5. QED
  BY <1>1, <1>4 DEF q, Shares

LEMMA ContextFitBounded ==
    ASSUME NEW o, ctx.constraints \in SUBSET Fields
    PROVE  ContextFit(o) \in Shares
<1> DEFINE C == ctx.constraints
           F == o.spec.fields \intersect C
<1>1. IsFiniteSet(C)
  BY FieldsAssumption, FS_Subset
<1>2. IsFiniteSet(F) /\ Cardinality(F) <= Cardinality(C)
  BY <1>1, FS_Subset
<1>3. Cardinality(C) \in Nat /\ Cardinality(F) \in Nat
  BY <1>1, <1>2, FS_CardinalityType
<1>4. CASE C = {}
  BY <1>4 DEF ContextFit, Shares
<1>5. CASE C # {}
  <2>1. Cardinality(C) > 0
    BY <1>1, <1>3, <1>5, FS_EmptySet
  <2>2. (100 * Cardinality(F)) \div Cardinality(C) \in Shares
    BY <1>2, <1>3, <2>1, ShareBounded
  <2>3. QED
    BY <1>5, <2>2 DEF ContextFit
<1>6. QED
  BY <1>4, <1>5

LEMMA RiskBounded ==
    ASSUME NEW o \in Options, ctx \in ContextRecords
    PROVE  RiskScore(o) \in Shares
  BY DEF RiskScore, AtMost, Options, ContextRecords, Shares

LEMMA PolicyBounded ==
    ASSUME NEW v \in Verdicts
    PROVE  PolicyScore(v) \in Shares
  BY DEF PolicyScore, Verdicts, Shares

-----------------------------------------------------------------------------
(* The ranking.                                                             *)

\* Any survivors have a first one: were each preceded by another, the numbers
\* of those before it would be too few for all to differ, and they do.
LEMMA FirstExists ==
    ASSUME NEW S \in SUBSET Nat, S # {}, IsFiniteSet(S),
           \A i \in S : evaluated[i].composite \in Nat
    PROVE  \E b \in S : \A j \in S \ {b} : Before(b, j)
<1> DEFINE Ahead(i) == {j \in S : Before(j, i)}
<1>1. /\ \A i \in S : ~Before(i, i)
      /\ \A i, j, k \in S : Before(i, j) /\ Before(j, k) => Before(i, k)
      /\ \A i, j \in S : i # j => Before(i, j) \/ Before(j, i)
  BY DEF Before
<1>2. ASSUME NEW i \in S
      PROVE  /\ IsFiniteSet(Ahead(i)) /\ Cardinality(Ahead(i)) \in Nat
             /\ Cardinality(S) \in Nat /\ Cardinality(Ahead(i)) < Cardinality(S)
  <2>1. Ahead(i) \in SUBSET S /\ i \in S \ Ahead(i)
    BY <1>1
  <2>2. IsFiniteSet(Ahead(i)) /\ Cardinality(Ahead(i)) <= Cardinality(S)
        /\ Cardinality(Ahead(i)) # Cardinality(S)
    BY <2>1, FS_Subset
  <2>3. Cardinality(Ahead(i)) \in Nat /\ Cardinality(S) \in Nat
    BY <2>2, FS_CardinalityType
  <2>4. QED
    BY <2>2, <2>3
<1>3. ASSUME NEW i \in S, NEW j \in S, Before(i, j)
      PROVE  Cardinality(Ahead(i)) < Cardinality(Ahead(j))
  <2>1. Ahead(i) \in SUBSET Ahead(j) /\ Ahead(i) # Ahead(j)
    BY <1>1, <1>3
  <2> HIDE DEF Ahead
  <2>2. Cardinality(Ahead(i)) <= Cardinality(Ahead(j))
        /\ Cardinality(Ahead(i)) # Cardinality(Ahead(j))
    BY <1>2, <2>1, FS_Subset
  <2>3. QED
    BY <1>2, <2>2
<1>4. SUFFICES ASSUME \A b \in S : Ahead(b) # {} PROVE FALSE
  BY <1>1
<1> DEFINE n == Cardinality(S) - 1
           f == [i \in S |-> Cardinality(Ahead(i))]
<1> HIDE DEF Ahead
<1>5. f \in [S -> 1..n]
  <2>1. ASSUME NEW i \in S PROVE Cardinality(Ahead(i)) \in 1..n
    <3>1. Cardinality(Ahead(i)) # 0
      BY <1>2, <1>4, FS_EmptySet
    <3>2. QED
      BY <1>2, <3>1
  <2>2. QED
    BY <2>1
<1>6. IsFiniteSet(1..n) /\ Cardinality(1..n) < Cardinality(S)
  <2>1. Cardinality(S) \in Nat /\ Cardinality(S) # 0
    BY FS_CardinalityType, FS_EmptySet
  <2>2. n \in Int /\ n >= 0
    BY <2>1
  <2>3. IsFiniteSet(1..n) /\ Cardinality(1..n) = n
    BY <2>2, FS_Interval
  <2>4. QED
    BY <2>1, <2>3
<1>7. PICK i, j \in S : i # j /\ f[i] = f[j]
  <2> HIDE DEF f, n
  <2>1. QED
    BY <1>5, <1>6, FS_PigeonHole
<1>8. Cardinality(Ahead(i)) # Cardinality(Ahead(j))
  BY <1>1, <1>2, <1>3, <1>7
<1>9. QED
  BY <1>7, <1>8

-----------------------------------------------------------------------------
(* The inductive invariant: what every later stage may assume of what the  *)
(* earlier ones left.                                                      *)

FromScore == {"score", "simulate", "select", "compile", "submitted", "rejected"}

FilterInv ==
    /\ stage \in {"generate", "filter"} => answers = <<>> /\ DOMAIN kept = {}
    /\ stage \in FromScore => DOMAIN kept # {}
    /\ DOMAIN kept # {} =>
          /\ answers \in [DOMAIN options -> Answers]
          /\ DOMAIN kept = {i \in DOMAIN options : Survives(answers[i])}
          /\ \A i \in DOMAIN kept : kept[i] = AfterPolicy(options[i], answers[i])

ScoreInv ==
    stage \in FromScore \ {"score"} =>
        /\ DOMAIN evaluated = DOMAIN kept
        /\ ctx.weights \in Weights
        /\ \A i \in DOMAIN evaluated :
              evaluated[i].composite = Composite(evaluated[i].scores, ctx.weights)

DecideInv ==
    Decided =>
        /\ decision.selected \in DOMAIN evaluated
        /\ \A j \in DOMAIN evaluated \ {decision.selected} : Before(decision.selected, j)
        /\ decision.confidence <= evaluated[decision.selected].composite
        /\ decision.generated = Cardinality(DOMAIN options)
        /\ decision.blocked = Cardinality(DOMAIN options) - Cardinality(DOMAIN kept)

SubmitInv ==
    stage = "submitted" =>
        /\ Compiles(SelectedOption.spec)
        /\ submitted.spec = SelectedOption.spec
        /\ submitted.hash = SelectedOption.hash
        /\ submitted.predicted = evaluated[decision.selected].composite

CoreInv == TypeOK /\ FilterInv /\ ScoreInv /\ DecideInv /\ SubmitInv

LEMMA NothingYet ==
    ASSUME NEW S
    PROVE  DOMAIN <<>> = {} /\ <<>> \in [DOMAIN <<>> -> S]
  OBVIOUS

LEMMA PooledOptions ==
    ASSUME NEW o \in OptionPool
    PROVE  o \in Options /\ o.hash = o.spec
  BY PoolsAssumption DEF Generated

LEMMA KeptOptions ==
    ASSUME NEW o \in OptionPool, NEW a \in Answers
    PROVE  AfterPolicy(o, a) \in Options
<1>1. o \in Options
  BY PooledOptions
<1>2. a.spec # NoSpec => a.spec \in Specs
  BY PoolsAssumption DEF Answers
<1>3. QED
  BY <1>1, <1>2 DEF AfterPolicy, Options

LEMMA Counted ==
    ASSUME TypeOK
    PROVE  /\ IsFiniteSet(DOMAIN options) /\ Cardinality(DOMAIN options) \in 0..MaxOptions
           /\ \A S \in SUBSET DOMAIN options :
                 /\ IsFiniteSet(S) /\ Cardinality(S) \in Nat
                 /\ Cardinality(S) <= Cardinality(DOMAIN options)
<1>1. IsFiniteSet(Positions) /\ Cardinality(Positions) = MaxOptions
  BY MaxOptionsAssumption, FS_Interval DEF Positions
<1>2. DOMAIN options \in SUBSET Positions
  BY DEF TypeOK, OptionsTyped
<1>3. IsFiniteSet(DOMAIN options) /\ Cardinality(DOMAIN options) <= MaxOptions
  BY <1>1, <1>2, FS_Subset
<1>4. Cardinality(DOMAIN options) \in Nat
  BY <1>3, FS_CardinalityType
<1>5. ASSUME NEW S \in SUBSET DOMAIN options
      PROVE  /\ IsFiniteSet(S) /\ Cardinality(S) \in Nat
             /\ Cardinality(S) <= Cardinality(DOMAIN options)
  BY <1>3, FS_Subset, FS_CardinalityType
<1>6. QED
  BY <1>3, <1>4, <1>5, MaxOptionsAssumption

LEMMA InitCore == Init => CoreInv
<1>1. SUFFICES ASSUME Init PROVE CoreInv
  OBVIOUS
<1>2. stage \in Stages /\ ctx \in Contexts /\ AnswersTyped
  BY <1>1 DEF Init, Stages, AnswersTyped
<1>3. OptionsTyped /\ KeptTyped /\ EvaluatedTyped
  BY <1>1, NothingYet DEF Init, OptionsTyped, KeptTyped, EvaluatedTyped
<1>4. DecisionTyped
  BY <1>1, MaxOptionsAssumption DEF Init, DecisionTyped, NoDecision, Composites
<1>5. SubmittedTyped
  BY <1>1 DEF Init, SubmittedTyped, NoAction, Composites
<1>6. FilterInv
  BY <1>1, NothingYet DEF Init, FilterInv, FromScore
<1>7. ScoreInv /\ DecideInv /\ SubmitInv
  BY <1>1 DEF Init, ScoreInv, DecideInv, SubmitInv, FromScore, Decided
<1>8. QED
  BY <1>2, <1>3, <1>4, <1>5, <1>6, <1>7 DEF CoreInv, TypeOK

\* What an action leaves alone keeps its type.
LEMMA UnchangedTypes ==
    ASSUME TypeOK
    PROVE  /\ ctx' = ctx => ctx' \in Contexts
           /\ options' = options => OptionsTyped'
           /\ options' = options /\ answers' = answers => AnswersTyped'
           /\ options' = options /\ kept' = kept => KeptTyped'
           /\ kept' = kept /\ evaluated' = evaluated => EvaluatedTyped'
           /\ decision' = decision => DecisionTyped'
           /\ submitted' = submitted => SubmittedTyped'
<1>1. ctx' = ctx => ctx' \in Contexts
  BY DEF TypeOK
<1>2. options' = options => OptionsTyped'
  BY DEF TypeOK, OptionsTyped
<1>3. options' = options /\ answers' = answers => AnswersTyped'
  BY DEF TypeOK, AnswersTyped
<1>4. options' = options /\ kept' = kept => KeptTyped'
  BY DEF TypeOK, KeptTyped
<1>5. kept' = kept /\ evaluated' = evaluated => EvaluatedTyped'
  BY DEF TypeOK, EvaluatedTyped
<1>6. decision' = decision => DecisionTyped'
  BY DEF TypeOK, DecisionTyped
<1>7. submitted' = submitted => SubmittedTyped'
  BY DEF TypeOK, SubmittedTyped
<1>8. QED
  BY <1>1, <1>2, <1>3, <1>4, <1>5, <1>6, <1>7

LEMMA GenerateCore == CoreInv /\ GenerateOptions => CoreInv'
<1>1. SUFFICES ASSUME CoreInv, GenerateOptions PROVE CoreInv'
  OBVIOUS
<1>2. PICK n \in Positions : options' \in [1..n -> OptionPool]
  BY <1>1 DEF GenerateOptions
<1>3. TypeOK /\ answers = <<>> /\ DOMAIN kept = {}
  BY <1>1 DEF CoreInv, FilterInv, GenerateOptions
<1>4. /\ stage' = "filter" /\ ctx' = ctx /\ answers' = answers /\ kept' = kept
      /\ evaluated' = evaluated /\ decision' = decision /\ submitted' = submitted
  BY <1>1 DEF GenerateOptions
<1>5. OptionsTyped'
  BY <1>2, MaxOptionsAssumption DEF OptionsTyped, Positions
<1>6. KeptTyped'
  BY <1>3, <1>4 DEF TypeOK, KeptTyped
<1>7. TypeOK'
  BY <1>3, <1>4, <1>5, <1>6, UnchangedTypes DEF TypeOK, Stages, AnswersTyped
<1>8. FilterInv' /\ ScoreInv' /\ DecideInv' /\ SubmitInv'
  BY <1>3, <1>4 DEF FilterInv, ScoreInv, DecideInv, SubmitInv, FromScore, Decided
<1>9. QED
  BY <1>7, <1>8 DEF CoreInv

LEMMA FilterCore == CoreInv /\ FilterOptions => CoreInv'
<1>1. SUFFICES ASSUME CoreInv, FilterOptions PROVE CoreInv'
  OBVIOUS
<1>2. TypeOK /\ DOMAIN kept = {}
  BY <1>1 DEF CoreInv, FilterInv, FilterOptions
<1>3. /\ ctx' = ctx /\ options' = options /\ evaluated' = evaluated
      /\ decision' = decision /\ submitted' = submitted
  BY <1>1 DEF FilterOptions
<1>4. DOMAIN evaluated = {}
  BY <1>2 DEF TypeOK, EvaluatedTyped
<1>5. CASE stage' = "failed" /\ UNCHANGED <<answers, kept>>
  <2>1. TypeOK'
    BY <1>2, <1>3, <1>5, UnchangedTypes DEF TypeOK, Stages
  <2>2. FilterInv' /\ ScoreInv' /\ DecideInv' /\ SubmitInv'
    BY <1>2, <1>5 DEF FilterInv, ScoreInv, DecideInv, SubmitInv, FromScore, Decided
  <2>3. QED
    BY <2>1, <2>2 DEF CoreInv
<1>6. ASSUME answers' \in [DOMAIN options -> Answers],
             kept' = [i \in {j \in DOMAIN options : Survives(answers'[j])}
                         |-> AfterPolicy(options[i], answers'[i])],
             stage' = NextStage(DOMAIN kept')
      PROVE  CoreInv'
  <2>1. /\ DOMAIN kept' = {j \in DOMAIN options : Survives(answers'[j])}
        /\ \A i \in DOMAIN kept' : kept'[i] = AfterPolicy(options[i], answers'[i])
    BY <1>6
  <2>2. ASSUME NEW i \in DOMAIN kept' PROVE kept'[i] \in Options
    <3>1. options[i] \in OptionPool /\ answers'[i] \in Answers
      BY <1>2, <1>6, <2>1, <2>2 DEF TypeOK, OptionsTyped
    <3>2. QED
      BY <2>1, <2>2, <3>1, KeptOptions
  <2>3. KeptTyped' /\ AnswersTyped' /\ EvaluatedTyped'
    <3>1. kept' \in [DOMAIN kept' -> Options]
      BY <1>6, <2>2
    <3>2. KeptTyped' /\ AnswersTyped'
      BY <1>3, <1>6, <2>1, <3>1 DEF KeptTyped, AnswersTyped
    <3>3. EvaluatedTyped'
      BY <1>2, <1>3, <1>4 DEF TypeOK, EvaluatedTyped
    <3>4. QED
      BY <3>2, <3>3
  <2>4. stage' \in {"score", "escalated"} /\ (stage' = "score" => DOMAIN kept' # {})
    BY <1>6 DEF NextStage
  <2>5. TypeOK'
    BY <1>2, <1>3, <2>3, <2>4, UnchangedTypes DEF TypeOK, Stages
  <2>6. FilterInv'
    BY <1>3, <1>6, <2>1, <2>4 DEF FilterInv, FromScore
  <2>7. ScoreInv' /\ DecideInv' /\ SubmitInv'
    BY <2>4 DEF ScoreInv, DecideInv, SubmitInv, FromScore, Decided
  <2>8. QED
    BY <2>5, <2>6, <2>7 DEF CoreInv
<1>7. QED
  BY <1>1, <1>5, <1>6 DEF FilterOptions

\* With weights of xnch or the defaults and scores within [0, 1] the composite is
\* a natural number.
LEMMA CompositeNatural ==
    ASSUME NEW w \in Weights, NEW s \in Scores
    PROVE  Composite(s, w) \in Nat
<1>1. /\ s.policy \in Shares /\ s.outcome \in Shares /\ s.risk \in Shares
      /\ s.fit \in Shares /\ w.policy \in Nat /\ w.outcome \in Nat
      /\ w.risk \in Nat /\ w.fit \in Nat
  BY DEF Weights, Scores
<1>2. /\ s.policy * w.policy \in Nat /\ s.outcome * w.outcome \in Nat
      /\ s.risk * w.risk \in Nat /\ s.fit * w.fit \in Nat
  BY <1>1, WeighedScore
<1>3. QED
  BY <1>2 DEF Composite

LEMMA WeightsKnown ==
    ASSUME TypeOK, ctx.weights # Malformed
    PROVE  ctx.weights \in Weights
  BY PoolsAssumption DEF TypeOK, ContextRecords

LEMMA ScorableMeans ==
    ASSUME NEW i, Scorable(i)
    PROVE  /\ ctx.weights # Malformed /\ ScoresOf(i) \in Scores
           /\ Composite(ScoresOf(i), ctx.weights) <= 10000
  BY DEF Scorable

LEMMA ScoredBounds ==
    ASSUME NEW i, Scorable(i), ctx.weights \in Weights
    PROVE  ScoresOf(i) \in Scores /\ Composite(ScoresOf(i), ctx.weights) \in Composites
<1>1. PICK s \in Scores : s = ScoresOf(i)
  BY ScorableMeans
<1>2. PICK c \in Nat : c = Composite(s, ctx.weights)
  BY CompositeNatural
<1>3. c <= 10000
  BY <1>1, <1>2, ScorableMeans
<1>4. QED
  BY <1>1, <1>2, <1>3 DEF Composites

LEMMA ScoreCore == CoreInv /\ ScoreOptions => CoreInv'
<1>1. SUFFICES ASSUME CoreInv, ScoreOptions PROVE CoreInv'
  OBVIOUS
<1>2. TypeOK /\ stage = "score" /\ DOMAIN kept # {}
  BY <1>1 DEF CoreInv, FilterInv, ScoreOptions, FromScore
<1>3. /\ ctx' = ctx /\ options' = options /\ answers' = answers /\ kept' = kept
      /\ decision' = decision /\ submitted' = submitted
  BY <1>1 DEF ScoreOptions
<1>4. stage' \in {"simulate", "failed"}
  BY <1>1 DEF ScoreOptions
<1>5. FilterInv'
  BY <1>1, <1>2, <1>3, <1>4 DEF CoreInv, FilterInv, FromScore
<1>6. DecideInv' /\ SubmitInv'
  BY <1>4 DEF DecideInv, SubmitInv, Decided
<1>7. CASE stage' = "failed" /\ evaluated' = evaluated
  <2>1. TypeOK'
    BY <1>2, <1>3, <1>7, UnchangedTypes DEF TypeOK, Stages
  <2>2. ScoreInv'
    BY <1>7 DEF ScoreInv, FromScore
  <2>3. QED
    BY <1>5, <1>6, <2>1, <2>2 DEF CoreInv
<1>8. ASSUME \A i \in DOMAIN kept : Scorable(i),
             evaluated' = [i \in DOMAIN kept |->
                [scores |-> ScoresOf(i),
                 composite |-> Composite(ScoresOf(i), ctx.weights),
                 simulate |-> \/ RiskScore(kept[i]) > 60
                              \/ ~kept[i].reversible
                              \/ ctx.agent]],
             stage' = "simulate"
      PROVE  CoreInv'
  <2>0. \A i \in DOMAIN kept : Scorable(i)
    BY <1>8
  <2>1. ctx.weights \in Weights
    <3>1. PICK i \in DOMAIN kept : TRUE
      BY <1>2
    <3>2. ctx.weights # Malformed
      BY <2>0, <3>1, ScorableMeans
    <3>3. QED
      BY <1>2, <3>2, WeightsKnown
  <2> DEFINE sc(i) == ScoresOf(i)
             co(i) == Composite(ScoresOf(i), ctx.weights)
             si(i) == RiskScore(kept[i]) > 60 \/ ~kept[i].reversible \/ ctx.agent
  <2>2. ASSUME NEW i \in DOMAIN kept PROVE sc(i) \in Scores /\ co(i) \in Composites
    BY <2>0, <2>1, <2>2, ScoredBounds
  <2>3. ASSUME NEW i \in DOMAIN kept PROVE si(i) \in BOOLEAN
    OBVIOUS
  <2>4. /\ DOMAIN evaluated' = DOMAIN kept
        /\ \A i \in DOMAIN kept : evaluated'[i] = [scores |-> sc(i), composite |-> co(i),
                                                    simulate |-> si(i)]
        /\ \A i : co(i) = Composite(sc(i), ctx.weights)
    BY <1>8
  <2> HIDE DEF sc, co, si
  <2>5. ASSUME NEW i \in DOMAIN kept
        PROVE  /\ evaluated'[i] \in Evaluations
               /\ evaluated'[i].composite = Composite(evaluated'[i].scores, ctx.weights)
    BY <2>2, <2>3, <2>4, <2>5 DEF Evaluations
  <2>6. evaluated' \in [DOMAIN evaluated' -> Evaluations]
    BY <1>8, <2>4, <2>5
  <2>7. EvaluatedTyped'
    BY <1>3, <2>4, <2>6 DEF EvaluatedTyped
  <2>8. TypeOK'
    BY <1>2, <1>3, <1>8, <2>7, UnchangedTypes DEF TypeOK, Stages
  <2>9. ScoreInv'
    BY <1>3, <2>1, <2>4, <2>5 DEF ScoreInv
  <2>10. QED
    BY <1>5, <1>6, <2>8, <2>9 DEF CoreInv
<1>9. QED
  BY <1>1, <1>7, <1>8 DEF ScoreOptions

\* _project_state finds no violation, so the simulation rescores nothing.
LEMMA SimulateCore == CoreInv /\ SimulateAndRescore => CoreInv'
<1>1. SUFFICES ASSUME CoreInv, SimulateAndRescore PROVE CoreInv'
  OBVIOUS
<1>2. /\ stage = "simulate" /\ stage' = "select" /\ ctx' = ctx /\ options' = options
      /\ answers' = answers /\ kept' = kept /\ decision' = decision
      /\ submitted' = submitted
  BY <1>1 DEF SimulateAndRescore
<1>3. evaluated' = [i \in DOMAIN evaluated |-> evaluated[i]]
  BY <1>1 DEF SimulateAndRescore, ProjectState
<1>4. TypeOK /\ DOMAIN kept # {} /\ evaluated' = evaluated
  <2>1. TypeOK /\ DOMAIN kept # {}
    BY <1>1, <1>2 DEF CoreInv, FilterInv, FromScore
  <2>2. evaluated \in [DOMAIN evaluated -> Evaluations]
    BY <2>1 DEF TypeOK, EvaluatedTyped
  <2>3. QED
    BY <1>3, <2>1, <2>2
<1>5. TypeOK'
  BY <1>2, <1>4, UnchangedTypes DEF TypeOK, Stages
<1>6. FilterInv'
  BY <1>1, <1>2, <1>4 DEF CoreInv, FilterInv, FromScore
<1>7. ScoreInv'
  BY <1>1, <1>2, <1>4 DEF CoreInv, ScoreInv, FromScore
<1>8. DecideInv' /\ SubmitInv'
  BY <1>2 DEF DecideInv, SubmitInv, Decided
<1>9. QED
  BY <1>5, <1>6, <1>7, <1>8 DEF CoreInv

LEMMA SelectCore == CoreInv /\ SelectDecision => CoreInv'
<1>1. SUFFICES ASSUME CoreInv, SelectDecision PROVE CoreInv'
  OBVIOUS
<1>2. /\ stage = "select" /\ stage' = "compile" /\ ctx' = ctx /\ options' = options
      /\ answers' = answers /\ kept' = kept /\ evaluated' = evaluated
      /\ submitted' = submitted
  BY <1>1 DEF SelectDecision
<1>3. PICK best, second \in DOMAIN evaluated :
          /\ Ranked(best, second)
          /\ decision' = [selected |-> best,
                          confidence |-> Confidence(best, second),
                          generated |-> Cardinality(DOMAIN options),
                          blocked |-> Cardinality(DOMAIN options)
                                          - Cardinality(DOMAIN kept)]
  BY <1>1 DEF SelectDecision
<1>4. TypeOK /\ DOMAIN kept # {}
  BY <1>1, <1>2 DEF CoreInv, FilterInv, FromScore
<1>5. \A i \in DOMAIN evaluated :
          evaluated[i].composite \in Nat /\ evaluated[i].composite <= 10000
  BY <1>4 DEF TypeOK, EvaluatedTyped, Evaluations, Composites
<1>6. \A j \in DOMAIN evaluated \ {best} : Before(best, j)
  BY <1>3 DEF Ranked
<1>7. /\ Confidence(best, second) \in Nat
      /\ Confidence(best, second) <= evaluated[best].composite
      /\ Confidence(best, second) <= 10000
  <2>1. CASE second = best
    BY <1>3, <1>5, <2>1 DEF Confidence
  <2>2. CASE second # best
    <3>1. evaluated[best].composite >= evaluated[second].composite
      BY <1>3, <1>5, <1>6, <2>2 DEF Before
    <3>2. QED
      BY <1>3, <1>5, <2>2, <3>1 DEF Confidence
  <2>3. QED
    BY <2>1, <2>2
<1>8. /\ Cardinality(DOMAIN options) \in 0..MaxOptions
      /\ Cardinality(DOMAIN options) - Cardinality(DOMAIN kept) \in 0..MaxOptions
  <2>1. DOMAIN kept \in SUBSET DOMAIN options
    BY <1>4 DEF TypeOK, KeptTyped
  <2>2. QED
    BY <1>4, <2>1, Counted, MaxOptionsAssumption
<1>9. best \in 0..MaxOptions
  BY <1>3, <1>4, MaxOptionsAssumption
     DEF TypeOK, OptionsTyped, KeptTyped, EvaluatedTyped, Positions
<1>10. DecisionTyped'
  BY <1>3, <1>7, <1>8, <1>9 DEF DecisionTyped, Composites
<1>11. TypeOK'
  BY <1>2, <1>4, <1>10, UnchangedTypes DEF TypeOK, Stages
<1>12. FilterInv'
  BY <1>1, <1>2, <1>4 DEF CoreInv, FilterInv, FromScore
<1>13. ScoreInv'
  BY <1>1, <1>2 DEF CoreInv, ScoreInv, FromScore
<1>14. DecideInv'
  <2>1. /\ decision'.selected = best
        /\ decision'.confidence = Confidence(best, second)
        /\ decision'.generated = Cardinality(DOMAIN options)
        /\ decision'.blocked = Cardinality(DOMAIN options) - Cardinality(DOMAIN kept)
    BY <1>3
  <2>2. \A j \in DOMAIN evaluated' \ {best} : Before(best, j)'
    BY <1>2, <1>6 DEF Before
  <2>3. QED
    BY <1>2, <1>3, <1>7, <2>1, <2>2 DEF DecideInv
<1>15. SubmitInv'
  BY <1>2 DEF SubmitInv
<1>16. QED
  BY <1>11, <1>12, <1>13, <1>14, <1>15 DEF CoreInv

LEMMA CompileCore == CoreInv /\ CompileActionSpec => CoreInv'
<1>1. SUFFICES ASSUME CoreInv, CompileActionSpec PROVE CoreInv'
  OBVIOUS
<1>2. /\ stage = "compile" /\ ctx' = ctx /\ options' = options /\ answers' = answers
      /\ kept' = kept /\ evaluated' = evaluated /\ decision' = decision
  BY <1>1 DEF CompileActionSpec
<1>3. stage' \in {"submitted", "rejected"}
  BY <1>1 DEF CompileActionSpec
<1>4. /\ TypeOK /\ DOMAIN kept # {} /\ DOMAIN evaluated = DOMAIN kept
      /\ decision.selected \in DOMAIN evaluated
  BY <1>1, <1>2 DEF CoreInv, FilterInv, ScoreInv, DecideInv, FromScore, Decided
<1>5. FilterInv'
  BY <1>1, <1>2, <1>3, <1>4 DEF CoreInv, FilterInv, FromScore
<1>6. ScoreInv'
  BY <1>1, <1>2, <1>3 DEF CoreInv, ScoreInv, FromScore
<1>7. DecideInv'
  <2>1. DecideInv /\ Decided
    BY <1>1, <1>2 DEF CoreInv, Decided
  <2>2. \A j : Before(decision.selected, j) => Before(decision.selected, j)'
    BY <1>2 DEF Before
  <2>3. QED
    BY <1>2, <2>1, <2>2 DEF DecideInv
<1>8. CASE Compiles(SelectedOption.spec) /\ stage' = "submitted"
           /\ submitted' = [spec |-> SelectedOption.spec,
                             hash |-> SelectedOption.hash,
                             predicted |-> evaluated[decision.selected].composite]
  <2>1. SelectedOption \in Options
    BY <1>4 DEF TypeOK, KeptTyped, SelectedOption
  <2>2. evaluated[decision.selected].composite \in Composites
    BY <1>4 DEF TypeOK, EvaluatedTyped, Evaluations
  <2>3. SubmittedTyped'
    BY <1>8, <2>1, <2>2 DEF SubmittedTyped, Options
  <2>4. TypeOK'
    BY <1>2, <1>4, <1>8, <2>3, UnchangedTypes DEF TypeOK, Stages
  <2>5. SelectedOption' = SelectedOption
    BY <1>2 DEF SelectedOption
  <2>6. SubmitInv'
    BY <1>2, <1>8, <2>5 DEF SubmitInv, Compiles
  <2>7. QED
    BY <1>5, <1>6, <1>7, <2>4, <2>6 DEF CoreInv
<1>9. CASE stage' = "rejected" /\ submitted' = submitted
  <2>1. TypeOK'
    BY <1>2, <1>4, <1>9, UnchangedTypes DEF TypeOK, Stages
  <2>2. SubmitInv'
    BY <1>9 DEF SubmitInv
  <2>3. QED
    BY <1>5, <1>6, <1>7, <2>1, <2>2 DEF CoreInv
<1>10. QED
  BY <1>1, <1>8, <1>9 DEF CompileActionSpec

LEMMA StutterCore == CoreInv /\ UNCHANGED vars => CoreInv'
<1>1. SUFFICES ASSUME CoreInv, UNCHANGED vars PROVE CoreInv'
  OBVIOUS
<1>2. /\ stage' = stage /\ ctx' = ctx /\ options' = options /\ answers' = answers
      /\ kept' = kept /\ evaluated' = evaluated /\ decision' = decision
      /\ submitted' = submitted
  BY <1>1 DEF vars
<1>3. TypeOK'
  BY <1>1, <1>2, UnchangedTypes DEF CoreInv, TypeOK
<1>4. FilterInv' /\ ScoreInv'
  BY <1>1, <1>2 DEF CoreInv, FilterInv, ScoreInv
<1>5. DecideInv'
  <2>1. \A j : Before(decision.selected, j) => Before(decision.selected, j)'
    BY <1>2 DEF Before
  <2>2. Decided' = Decided
    BY <1>2 DEF Decided
  <2>3. QED
    BY <1>1, <1>2, <2>1, <2>2 DEF CoreInv, DecideInv
<1>6. SubmitInv'
  BY <1>1, <1>2 DEF CoreInv, SubmitInv, SelectedOption
<1>7. QED
  BY <1>3, <1>4, <1>5, <1>6 DEF CoreInv

\* Every stage keeps what the later ones rely on.
THEOREM CoreInvAlways == Spec => []CoreInv
<1>1. Init => CoreInv
  BY InitCore
<1>2. CoreInv /\ [Next]_vars => CoreInv'
  BY GenerateCore, FilterCore, ScoreCore, SimulateCore, SelectCore, CompileCore,
     StutterCore DEF Next
<1>3. QED
  BY <1>1, <1>2, PTL DEF Spec

\* The pipeline's values stay in the models' ranges (pydantic would refuse the
\* others), for every number of options and every weight config.
THEOREM TypeCorrect == Spec => []TypeOK
<1>1. CoreInv => TypeOK
  BY DEF CoreInv
<1>2. QED
  BY <1>1, CoreInvAlways, PTL

\* What is submitted was let through by xnch's dry-run for that very option.
THEOREM SubmittedIsVettedAlways == Spec => []SubmittedIsVetted
<1>1. ASSUME CoreInv PROVE SubmittedIsVetted
  <2>1. SUFFICES ASSUME stage = "submitted"
                 PROVE  /\ answers[decision.selected].verdict # "BLOCK"
                        /\ submitted.spec = Allowed(decision.selected)
                        /\ submitted.hash = options[decision.selected].spec
                        /\ Compiles(submitted.spec)
    BY DEF SubmittedIsVetted
  <2> DEFINE i == decision.selected
  <2>2. /\ i \in DOMAIN kept /\ i \in DOMAIN options /\ Survives(answers[i])
        /\ kept[i] = AfterPolicy(options[i], answers[i])
        /\ answers[i] \in Answers /\ options[i] \in OptionPool
    <3>1. i \in DOMAIN kept
      BY <1>1, <2>1 DEF CoreInv, ScoreInv, DecideInv, Decided, FromScore
    <3>2. TypeOK /\ FilterInv
      BY <1>1 DEF CoreInv
    <3>3. QED
      BY <3>1, <3>2 DEF FilterInv, TypeOK, OptionsTyped
  <2>3. /\ Compiles(submitted.spec) /\ submitted.spec = kept[i].spec
        /\ submitted.hash = kept[i].hash
    BY <1>1, <2>1 DEF CoreInv, SubmitInv, SelectedOption
  <2>4. options[i] \in Options /\ options[i].hash = options[i].spec
    BY <2>2, PooledOptions
  <2>5. kept[i].spec = Allowed(i) /\ kept[i].hash = options[i].spec
    BY <2>2, <2>4 DEF AfterPolicy, Allowed, Options
  <2>6. QED
    BY <2>2, <2>3, <2>5 DEF Survives
<1>2. QED
  BY <1>1, CoreInvAlways, PTL

\* Whatever the weights, the ranking never puts an option before its better.
THEOREM UndominatedAlways == Spec => []Undominated
<1>1. ASSUME CoreInv PROVE Undominated
  <2>1. SUFFICES ASSUME Decided, NEW j \in DOMAIN evaluated,
                        Dominates(j, decision.selected)
                 PROVE  FALSE
    BY DEF Undominated
  <2> DEFINE i == decision.selected
             a == evaluated[j].scores
             b == evaluated[i].scores
  <2>2. /\ i \in DOMAIN evaluated /\ ctx.weights \in Weights
        /\ \A k \in DOMAIN evaluated \ {i} : Before(i, k)
    BY <1>1, <2>1 DEF CoreInv, ScoreInv, DecideInv, Decided, FromScore
  <2>3. /\ evaluated[i].composite = Composite(b, ctx.weights)
        /\ evaluated[j].composite = Composite(a, ctx.weights)
    BY <1>1, <2>1, <2>2 DEF CoreInv, ScoreInv, Decided, FromScore
  <2>4. a \in Scores /\ b \in Scores
    BY <1>1, <2>1, <2>2 DEF CoreInv, TypeOK, EvaluatedTyped, Evaluations
  <2>5. i \in Nat /\ j \in Nat
    BY <1>1, <2>1, <2>2, MaxOptionsAssumption
       DEF CoreInv, TypeOK, OptionsTyped, KeptTyped, EvaluatedTyped, Positions
  <2>6. /\ a.policy >= b.policy /\ a.outcome >= b.outcome
        /\ a.risk >= b.risk /\ a.fit >= b.fit
        /\ j < i \/ (ctx.weights.policy > 0 /\ a.policy > b.policy)
    BY <2>1 DEF Dominates, AtLeast
  <2>7. i # j
    BY <2>4, <2>5, <2>6 DEF Scores, Shares
  <2>8. Before(i, j)
    BY <2>1, <2>2, <2>7
  <2> HIDE DEF i, a, b
  <2>9. /\ Composite(a, ctx.weights) \in Nat /\ Composite(b, ctx.weights) \in Nat
        /\ Composite(a, ctx.weights) >= Composite(b, ctx.weights)
        /\ a.policy > b.policy /\ ctx.weights.policy > 0
              => Composite(a, ctx.weights) > Composite(b, ctx.weights)
    BY <2>2, <2>4, <2>6, CompositeNatural, CompositeMonotone
  <2>10. /\ evaluated[i].composite \in Nat /\ evaluated[j].composite \in Nat
         /\ evaluated[j].composite >= evaluated[i].composite
         /\ j < i \/ evaluated[j].composite > evaluated[i].composite
    BY <2>3, <2>6, <2>9
  <2>11. QED
    BY <2>5, <2>8, <2>10 DEF Before
<1>2. QED
  BY <1>1, CoreInvAlways, PTL

\* With sound weights and outcomes, an option that has a context signature never
\* makes the scoring of a pass fail.
THEOREM NormalisedScoresAlways == Spec => []NormalisedScores
<1>1. ASSUME CoreInv PROVE NormalisedScores
  <2>1. SUFFICES ASSUME ctx.weights # Malformed,
                        ctx.weights.policy + ctx.weights.outcome + ctx.weights.risk
                            + ctx.weights.fit = 100,
                        \A t \in Types : ctx.outcome[t] <= 100,
                        NEW i \in DOMAIN kept, Signable(i)
                 PROVE  Scorable(i)
    BY DEF NormalisedScores
  <2>2. /\ TypeOK /\ ctx \in ContextRecords /\ ctx.weights \in Weights
        /\ kept[i] \in Options /\ answers[i] \in Answers
    <3>1. TypeOK /\ FilterInv
      BY <1>1 DEF CoreInv
    <3>2. ctx \in ContextRecords /\ ctx.weights \in Weights
      BY <2>1, <3>1, WeightsKnown, PoolsAssumption DEF TypeOK
    <3>3. kept[i] \in Options
      BY <2>1, <3>1 DEF TypeOK, KeptTyped
    <3>4. answers[i] \in Answers
      BY <2>1, <3>1 DEF FilterInv
    <3>5. QED
      BY <3>1, <3>2, <3>3, <3>4
  <2>3. PolicyScore(answers[i].verdict) \in Shares
    BY <2>2, PolicyBounded DEF Answers
  <2>4. ctx.outcome[kept[i].action] \in Shares
    <3>1. kept[i].action \in Types
      BY <2>2 DEF Options
    <3>2. ctx.outcome \in [Types -> Nat]
      BY <2>2 DEF ContextRecords
    <3>3. QED
      BY <2>1, <3>1, <3>2 DEF Shares
  <2>5. RiskScore(kept[i]) \in Shares
    BY <2>2, RiskBounded
  <2>6. ContextFit(kept[i]) \in Shares
    BY <2>2, ContextFitBounded DEF ContextRecords
  <2>7. ScoresOf(i) \in Scores
    BY <2>3, <2>4, <2>5, <2>6 DEF ScoresOf, Scores
  <2>8. Composite(ScoresOf(i), ctx.weights) \in Composites
    BY <2>1, <2>2, <2>7, CompositeBounded
  <2>9. QED
    BY <2>1, <2>7, <2>8 DEF Scorable, Composites
<1>2. QED
  BY <1>1, CoreInvAlways, PTL

\* Selection never meets an empty or unordered ranking: the escalation of
\* select_decision for an empty list is unreachable in a pass.
THEOREM SelectionPossibleAlways == Spec => []SelectionPossible
<1>1. ASSUME CoreInv PROVE SelectionPossible
  <2>1. SUFFICES ASSUME stage = "select"
                 PROVE  \E best, second \in DOMAIN evaluated : Ranked(best, second)
    BY DEF SelectionPossible
  <2> DEFINE E == DOMAIN evaluated
  <2>2. E # {} /\ E \in SUBSET DOMAIN options /\ TypeOK
    BY <1>1, <2>1 DEF CoreInv, FilterInv, ScoreInv, FromScore, TypeOK, KeptTyped
  <2>3. IsFiniteSet(E) /\ E \in SUBSET Nat
    <3>1. IsFiniteSet(E)
      BY <2>2, Counted
    <3>2. DOMAIN options \in SUBSET Nat
      BY <2>2, MaxOptionsAssumption DEF TypeOK, OptionsTyped, Positions
    <3>3. QED
      BY <2>2, <3>1, <3>2
  <2>4. \A i \in E : evaluated[i].composite \in Nat
    BY <2>2 DEF TypeOK, EvaluatedTyped, Evaluations, Composites
  <2>5. PICK best \in E : \A j \in E \ {best} : Before(best, j)
    BY <2>2, <2>3, <2>4, FirstExists
  <2>6. CASE E = {best}
    <3>1. Ranked(best, best)
      BY <2>5, <2>6 DEF Ranked
    <3>2. QED
      BY <2>5, <3>1
  <2>7. CASE E # {best}
    <3> DEFINE Rest == E \ {best}
    <3>1. Rest \in SUBSET Nat /\ Rest # {} /\ IsFiniteSet(Rest)
      BY <2>2, <2>3, <2>7, FS_Subset
    <3>2. \A i \in Rest : evaluated[i].composite \in Nat
      BY <2>4
    <3>3. PICK second \in Rest : \A j \in Rest \ {second} : Before(second, j)
      <4> HIDE DEF Rest
      <4> QED
        BY <3>1, <3>2, FirstExists
    <3>4. Ranked(best, second)
      BY <2>5, <3>3, <2>7 DEF Ranked
    <3>5. QED
      BY <2>5, <3>3, <3>4
  <2>8. QED
    BY <2>6, <2>7
<1>2. QED
  BY <1>1, CoreInvAlways, PTL

\* The DecisionRecord counts what xnch answered and what was evaluated.
THEOREM RecordAgreesAlways == Spec => []RecordAgrees
<1>1. ASSUME CoreInv PROVE RecordAgrees
  <2>1. SUFFICES ASSUME Decided
        PROVE  /\ decision.generated = Cardinality(DOMAIN options)
               /\ decision.blocked = Cardinality({i \in DOMAIN options :
                                                     answers[i].verdict = "BLOCK"})
               /\ decision.generated = decision.blocked + Cardinality(DOMAIN evaluated)
               /\ stage = "submitted" => decision.confidence <= submitted.predicted
    BY DEF RecordAgrees
  <2> DEFINE D == DOMAIN options
             K == DOMAIN kept
             B == {i \in D : answers[i].verdict = "BLOCK"}
  <2>2. /\ TypeOK /\ K = {i \in D : Survives(answers[i])} /\ DOMAIN evaluated = K
        /\ decision.generated = Cardinality(D)
        /\ decision.blocked = Cardinality(D) - Cardinality(K)
    BY <1>1, <2>1 DEF CoreInv, FilterInv, ScoreInv, DecideInv, Decided, FromScore
  <2>3. B = D \ K /\ K \in SUBSET D
    BY <2>2 DEF Survives
  <2>4. IsFiniteSet(D) /\ IsFiniteSet(K) /\ Cardinality(D) \in Nat
        /\ Cardinality(K) \in Nat
    BY <2>2, <2>3, Counted
  <2>5. Cardinality(B) = Cardinality(D) - Cardinality(K)
    <3>1. Cardinality(D \ K) = Cardinality(D) - Cardinality(D \intersect K)
      BY <2>4, FS_Difference
    <3>2. D \intersect K = K
      BY <2>3
    <3>3. QED
      BY <2>3, <3>1, <3>2
  <2>6. stage = "submitted" => decision.confidence <= submitted.predicted
    BY <1>1, <2>1 DEF CoreInv, DecideInv, SubmitInv
  <2> HIDE DEF D, K, B
  <2>7. Cardinality(D) = (Cardinality(D) - Cardinality(K)) + Cardinality(K)
    BY <2>4
  <2>8. QED
    BY <2>2, <2>5, <2>6, <2>7 DEF D, K, B
<1>2. QED
  BY <1>1, CoreInvAlways, PTL

-----------------------------------------------------------------------------
(* Planning: the options come from the adapter's chain or its templates.   *)

\* What Planning adds: options are there once they were returned, a fallback's
\* are the templates', and a rejected plan is one that does not compile.
PathInv ==
    /\ phase \in {"direct", "chain"} <=> stage = "generate"
    /\ path = "RULE_BASED" =>
          /\ stage # "generate"
          /\ options = RuleBasedOptions(ClassOf[ctx], ctx \in Addressed)
    /\ stage = "rejected" => ~Compiles(kept[decision.selected].spec)

\* The templates make three options that DecisionCore knows.
LEMMA TemplateOptions ==
    ASSUME ctx \in Contexts
    PROVE  /\ RuleBasedOptions(ClassOf[ctx], ctx \in Addressed) \in [1..3 -> OptionPool]
           /\ 3 \in Positions
<1>1. 3 \in Positions
  BY TemplatesAssumption, MaxOptionsAssumption DEF Positions
<1>2. \A i \in 1..3 :
         RuleBasedOption(Templates[ClassOf[ctx]][i], ctx \in Addressed) \in OptionPool
  BY TemplatesAssumption
<1>3. QED
  BY <1>1, <1>2 DEF RuleBasedOptions

\* What a model answers is something DecisionCore may generate.
LEMMA ModelOptions ==
    ASSUME NEW n \in Positions, NEW o \in [1..n -> ModelPool]
    PROVE  o \in [1..n -> OptionPool]
  BY ModelPoolAssumption

\* A chain of the table consists of models.
LEMMA TiersTyped ==
    ASSUME ctx \in Contexts
    PROVE  IntentTiers[ClassOf[ctx]] \in Seq(Models)
<1>1. ClassOf[ctx] \in {"EXECUTION", "DECISION", "ESCALATION", "QUERY"}
  BY ClassOfAssumption DEF Classes, IntentTiers
<1>2. /\ <<"pro", "reasoner">> \in Seq(Models) /\ <<"reasoner", "lite">> \in Seq(Models)
      /\ <<"lite", "pro">> \in Seq(Models)
  BY DEF Models
<1>3. IntentTiers[ClassOf[ctx]] \in
         {<<"pro", "reasoner">>, <<"reasoner", "lite">>, <<"lite", "pro">>}
  BY <1>1 DEF IntentTiers
<1>4. QED
  BY <1>2, <1>3

\* Returning options is DecisionCore's one step; asking is none.
LEMMA StepImplements ==
    TypeOK /\ PathInv /\ [PlanningNext]_planningVars => [Next]_vars
<1>1. SUFFICES ASSUME TypeOK, PathInv, [PlanningNext]_planningVars PROVE [Next]_vars
  OBVIOUS
<1>2. CASE DirectCall
  BY <1>2 DEF DirectCall, coreVars, vars
<1>3. CASE ModelFails
  BY <1>3 DEF ModelFails, coreVars, vars
<1>4. CASE ModelAnswers
  <2>1. PICK n \in Positions : options' \in [1..n -> ModelPool]
    BY <1>4 DEF ModelAnswers
  <2>2. options' \in [1..n -> OptionPool]
    BY <2>1, ModelOptions
  <2>3. GenerateOptions
    BY <1>1, <1>4, <2>2 DEF GenerateOptions, ModelAnswers, Return, PathInv, coreVars
  <2>4. QED
    BY <2>3 DEF Next
<1>5. CASE FallBack
  <2>1. ctx \in Contexts
    BY <1>1 DEF TypeOK
  <2>2. options' \in [1..3 -> OptionPool] /\ 3 \in Positions
    BY <1>5, <2>1, TemplateOptions DEF FallBack
  <2>3. GenerateOptions
    BY <1>1, <1>5, <2>2 DEF GenerateOptions, FallBack, Return, PathInv, coreVars
  <2>4. QED
    BY <2>3 DEF Next
<1>6. CASE Decide
  BY <1>6 DEF Decide, Next
<1>7. CASE UNCHANGED planningVars
  BY <1>7 DEF planningVars, vars
<1>8. QED
  BY <1>1, <1>2, <1>3, <1>4, <1>5, <1>6, <1>7 DEF PlanningNext

LEMMA StepKeepsPath ==
    PathInv /\ [PlanningNext]_planningVars => PathInv'
<1>1. SUFFICES ASSUME PathInv, [PlanningNext]_planningVars PROVE PathInv'
  OBVIOUS
<1>2. CASE DirectCall
  BY <1>1, <1>2 DEF DirectCall, coreVars, PathInv, Compiles
<1>3. CASE ModelFails
  BY <1>1, <1>3 DEF ModelFails, coreVars, PathInv, Compiles
<1>4. CASE ModelAnswers
  BY <1>1, <1>4 DEF ModelAnswers, Return, coreVars, PathInv
<1>5. CASE FallBack
  BY <1>1, <1>5 DEF FallBack, Return, coreVars, PathInv
<1>6. CASE Decide
  <2>1. UNCHANGED <<phase, path, ctx, options>>
    BY <1>6 DEF Decide, FilterOptions, ScoreOptions, SimulateAndRescore, SelectDecision,
                CompileActionSpec
  <2>2. stage # "generate" /\ stage' # "generate"
    BY <1>6 DEF Decide, FilterOptions, ScoreOptions, SimulateAndRescore, SelectDecision,
                CompileActionSpec, NextStage
  <2>3. stage' = "rejected" => ~Compiles(kept'[decision'.selected].spec)
    BY <1>6 DEF Decide, FilterOptions, ScoreOptions, SimulateAndRescore, SelectDecision,
                CompileActionSpec, NextStage, SelectedOption
  <2>4. QED
    BY <1>1, <2>1, <2>2, <2>3 DEF PathInv, Compiles
<1>7. CASE UNCHANGED planningVars
  BY <1>1, <1>7 DEF planningVars, PathInv, Compiles
<1>8. QED
  BY <1>1, <1>2, <1>3, <1>4, <1>5, <1>6, <1>7 DEF PlanningNext

LEMMA StepKeepsCore == CoreInv /\ [Next]_vars => CoreInv'
  BY GenerateCore, FilterCore, ScoreCore, SimulateCore, SelectCore, CompileCore,
     StutterCore DEF Next

\* Both invariants, of Planning.
THEOREM PlanningInvAlways == PlanningSpec => [](CoreInv /\ PathInv)
<1>1. PlanningInit => CoreInv /\ PathInv
  <2>1. PlanningInit => CoreInv
    BY InitCore DEF PlanningInit
  <2>2. PlanningInit => PathInv
    BY DEF PlanningInit, PathInv, Init
  <2>3. QED
    BY <2>1, <2>2
<1>2. CoreInv /\ PathInv /\ [PlanningNext]_planningVars => (CoreInv /\ PathInv)'
  BY StepImplements, StepKeepsPath, StepKeepsCore DEF CoreInv
<1>3. QED
  BY <1>1, <1>2, PTL DEF PlanningSpec

\* The fallback chain implements DecisionCore's generation: at the end there are
\* options, whatever the models did, so all of DecisionCore's theorems hold of it.
THEOREM Refinement == PlanningSpec => ImplementsCore
<1>1. PlanningInit => Init
  BY DEF PlanningInit
<1>2. CoreInv /\ PathInv /\ [PlanningNext]_planningVars => [Next]_vars
  BY StepImplements DEF CoreInv
<1>3. QED
  BY <1>1, <1>2, PlanningInvAlways, PTL DEF PlanningSpec, Spec, ImplementsCore

\* The values stay in their ranges, those of the fallback chain too.
THEOREM PlanningTypeCorrect == PlanningSpec => []PlanningTypeOK
<1> DEFINE Own == /\ phase \in {"direct", "chain", "done"}
                  /\ chain \in Seq(Models)
                  /\ keyed \in BOOLEAN
                  /\ path \in {"NONE", "MODEL", "RULE_BASED"}
<1>1. PlanningInit => Own
  BY DEF PlanningInit
<1>2. TypeOK /\ Own /\ [PlanningNext]_planningVars => Own'
  <2>1. SUFFICES ASSUME TypeOK, Own, [PlanningNext]_planningVars PROVE Own'
    OBVIOUS
  <2>2. CASE DirectCall
    BY <2>1, <2>2, TiersTyped DEF DirectCall, coreVars, TypeOK
  <2>3. CASE ModelFails
    BY <2>1, <2>3 DEF ModelFails, coreVars
  <2>4. CASE ModelAnswers
    BY <2>1, <2>4 DEF ModelAnswers, Return, coreVars
  <2>5. CASE FallBack
    BY <2>1, <2>5 DEF FallBack, Return, coreVars
  <2>6. CASE Decide
    BY <2>1, <2>6 DEF Decide
  <2>7. CASE UNCHANGED planningVars
    BY <2>1, <2>7 DEF planningVars
  <2>8. QED
    BY <2>1, <2>2, <2>3, <2>4, <2>5, <2>6, <2>7 DEF PlanningNext
<1>3. CoreInv => TypeOK
  BY DEF CoreInv
<1>4. TypeOK /\ Own => PlanningTypeOK
  BY DEF PlanningTypeOK
<1>5. QED
  BY <1>1, <1>2, <1>3, <1>4, PlanningInvAlways, PTL DEF PlanningSpec

\* A pass without a model submits a template of its class, none of the forbidden
\* actions, and fails to compile only without a target, unless xnch replaced it.
THEOREM FallbackIsSafeAlways == PlanningSpec => []FallbackIsSafe
<1>1. ASSUME CoreInv, PathInv PROVE FallbackIsSafe
  <2>1. SUFFICES ASSUME path = "RULE_BASED", ~Replaced
                 PROVE  /\ stage = "submitted" =>
                              /\ submitted.spec.type \notin ForbiddenRuleBased
                              /\ \E i \in 1..3 :
                                    submitted.spec.type = Templates[ClassOf[ctx]][i].type
                              /\ kept[decision.selected].reversible
                        /\ stage = "rejected" => ctx \notin Addressed
    BY DEF FallbackIsSafe
  <2> DEFINE i == decision.selected
  <2>2. SUFFICES ASSUME stage \in {"submitted", "rejected"}
                 PROVE  /\ stage = "submitted" =>
                              /\ submitted.spec.type \notin ForbiddenRuleBased
                              /\ \E k \in 1..3 :
                                    submitted.spec.type = Templates[ClassOf[ctx]][k].type
                              /\ kept[i].reversible
                        /\ stage = "rejected" => ctx \notin Addressed
    OBVIOUS
  <2>3. /\ i \in DOMAIN kept /\ i \in DOMAIN options
        /\ kept[i] = AfterPolicy(options[i], answers[i])
    BY <1>1, <2>2 DEF CoreInv, FilterInv, ScoreInv, DecideInv, Decided, FromScore
  <2>4. kept[i] = options[i]
    BY <2>1, <2>3 DEF AfterPolicy, Replaced
  <2>5. i \in 1..3 /\ options[i] = RuleBasedOption(Templates[ClassOf[ctx]][i], ctx \in Addressed)
    BY <1>1, <2>1, <2>3 DEF PathInv, RuleBasedOptions
  <2>6. /\ kept[i].spec.type = Templates[ClassOf[ctx]][i].type
        /\ kept[i].spec.target = (ctx \in Addressed)
    BY <2>4, <2>5, SMT DEF RuleBasedOption
  <2>7. kept[i].reversible
    <3>1. RuleBasedOption(Templates[ClassOf[ctx]][i], ctx \in Addressed).reversible = TRUE
      BY SMT DEF RuleBasedOption
    <3>2. QED
      BY <2>4, <2>5, <3>1, Zenon
  <2>8. /\ Templates[ClassOf[ctx]][i].type \notin ForbiddenRuleBased
        /\ Templates[ClassOf[ctx]][i].type # NoType
    <3>1. ClassOf[ctx] \in {"EXECUTION", "DECISION", "ESCALATION", "QUERY"}
      BY <1>1, ClassOfAssumption DEF CoreInv, TypeOK, Classes, IntentTiers
    <3>2. i = 1 \/ i = 2 \/ i = 3
      BY <2>5
    <3>3. Templates[ClassOf[ctx]][i].type \in
             {"READ_FILE", "LIST", "ANALYZE", "PLAN", "ESCALATE", "BACKUP"}
      BY <3>1, <3>2 DEF Templates
    <3>4. Templates[ClassOf[ctx]][i].type # NoType
      BY <2>5, <3>1, TemplatesAssumption DEF Classes, IntentTiers
    <3>5. QED
      BY <3>3, <3>4 DEF ForbiddenRuleBased
  <2>9. QED
    BY <1>1, <2>2, <2>5, <2>6, <2>7, <2>8 DEF CoreInv, SubmitInv, SelectedOption, PathInv, Compiles
<1>2. QED
  BY <1>1, PlanningInvAlways, PTL
=============================================================================
