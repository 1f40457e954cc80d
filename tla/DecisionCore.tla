---------------------------- MODULE DecisionCore ----------------------------
(***************************************************************************)
(* The synchronous middle of a pass: PolicyFilter, Evaluator, select_      *)
(* decision and compile_action_spec, in the order run.py calls them.       *)
(*                                                                         *)
(* Scores and weights are hundredths and composites ten-thousandths: with  *)
(* inputs of two decimals, round(composite, 4) in the code removes the     *)
(* binary noise of the sum and nothing else, so integers compute the same. *)
(* Inputs of more decimals, whose close composites are rounded together,   *)
(* are left out.                                                           *)
(* Action types are compared after .upper(), as both sides apply it.       *)
(***************************************************************************)
EXTENDS Integers, FiniteSets

CONSTANTS
    MaxOptions,  \* bound: options in one pass
    Fields,      \* names of params and of declared constraints
    Types,       \* action types
    NoType,      \* the empty action type
    OptionPool,  \* the options a generator can return
    SpecPool,    \* the specs xnch can put in place of one, or NoSpec
    NoSpec,      \* modified_action_spec is None
    Contexts,    \* what a pass's intent, manifest, session and weights can be
    Malformed    \* a weight config of xnch that lacks a key

-----------------------------------------------------------------------------
\* The numbers within [0, 1]: scores in hundredths, composites in ten-thousandths.
Shares == {x \in Nat : x <= 100}
Composites == {c \in Nat : c <= 10000}

\* ActionSpec; `target` says whether there is one.
Specs == [type : Types, target : BOOLEAN, fields : SUBSET Fields]

\* PlanOption.  The hash stands for the spec it was computed from: both
\* generators take the action type and the hash from the spec they were given.
Options == [action : Types, spec : Specs, hash : Specs, reversible : BOOLEAN,
            effects : Nat]
Generated == {o \in Options : o.action = o.spec.type /\ o.hash = o.spec}

\* xnch's or the default weights, in hundredths.
Weights == [policy : Nat, outcome : Nat, risk : Nat, fit : Nat]

\* classed: the intent's target_entity_class is not empty, as it may be when the
\* model that read the request left it so; sensitivity: of that class; outcome:
\* success_rate * confidence of the pattern that matches an action type, or 50;
\* constraints: of the intent.
ContextRecords == [classed : BOOLEAN, sensitivity : Shares, agent : BOOLEAN,
                   outcome : [Types -> Nat], constraints : SUBSET Fields,
                   weights : Weights \union {Malformed}]

ASSUME MaxOptionsAssumption == MaxOptions \in Nat \ {0}
ASSUME FieldsAssumption == IsFiniteSet(Fields)
ASSUME PoolsAssumption ==
    /\ OptionPool \subseteq Generated
    /\ SpecPool \subseteq Specs \union {NoSpec}
    /\ Contexts \subseteq ContextRecords
ASSUME NoTypeAssumption == NoType \in Types
ASSUME NoSpecAssumption == NoSpec \notin Specs /\ NoSpec \in SpecPool
ASSUME MalformedAssumption == Malformed \notin Weights

VARIABLES
    stage,      \* the stage of run.py that is next, or how the pass ended
    ctx,        \* the pass's context
    options,    \* raw_options, by position
    answers,    \* xnch's dry-run answers, by position
    kept,       \* surviving: the position and the option that goes on
    evaluated,  \* the EvaluatedOption of each survivor
    decision,   \* the DecisionRecord
    submitted   \* the action of the /verdict request

vars == <<stage, ctx, options, answers, kept, evaluated, decision, submitted>>

Verdicts == {"ALLOW", "ALLOW_WITH_WARNINGS", "MODIFY", "DEFER", "BLOCK"}
Answers == {a \in [verdict : Verdicts, spec : SpecPool] :
               a.verdict # "MODIFY" => a.spec = NoSpec}
Scores == [policy : Shares, outcome : Shares, risk : Shares, fit : Shares]
Evaluations == [scores : Scores, composite : Composites, simulate : BOOLEAN]
Positions == 1..MaxOptions
Stages == {"generate", "filter", "score", "simulate", "select", "compile",
           "submitted", "escalated", "rejected", "failed"}
NoDecision == [selected |-> 0, confidence |-> 0, generated |-> 0, blocked |-> 0]
NoAction == [spec |-> NoSpec, hash |-> NoSpec, predicted |-> 0]

OptionsTyped ==
    DOMAIN options \subseteq Positions /\ options \in [DOMAIN options -> OptionPool]
AnswersTyped == answers = <<>> \/ answers \in [DOMAIN options -> Answers]
KeptTyped ==
    DOMAIN kept \subseteq DOMAIN options /\ kept \in [DOMAIN kept -> Options]
EvaluatedTyped ==
    /\ DOMAIN evaluated \subseteq DOMAIN kept
    /\ evaluated \in [DOMAIN evaluated -> Evaluations]
DecisionTyped ==
    decision \in [selected : 0..MaxOptions, confidence : Composites,
                  generated : 0..MaxOptions, blocked : 0..MaxOptions]
SubmittedTyped ==
    submitted \in [spec : Specs \union {NoSpec}, hash : Specs \union {NoSpec},
                   predicted : Composites]

TypeOK ==
    /\ stage \in Stages /\ ctx \in Contexts
    /\ OptionsTyped /\ AnswersTyped /\ KeptTyped
    /\ EvaluatedTyped /\ DecisionTyped /\ SubmittedTyped

Init ==
    /\ stage = "generate"
    /\ ctx \in Contexts
    /\ options = <<>>
    /\ answers = <<>>
    /\ kept = <<>>
    /\ evaluated = <<>>
    /\ decision = NoDecision
    /\ submitted = NoAction

-----------------------------------------------------------------------------
(* Step 6: the policy filter.                                               *)

GenerateOptions ==
    /\ stage = "generate"
    /\ stage' = "filter"
    /\ \E n \in Positions : options' \in [1..n -> OptionPool]
    /\ UNCHANGED <<ctx, answers, kept, evaluated, decision, submitted>>

Survives(a) == a.verdict # "BLOCK"

\* MODIFY replaces the spec only: action type and payload hash stay.
AfterPolicy(o, a) ==
    IF a.verdict = "MODIFY" /\ a.spec # NoSpec THEN [o EXCEPT !.spec = a.spec] ELSE o

\* AllOptionsBlocked.
NextStage(survivors) == IF survivors = {} THEN "escalated" ELSE "score"

\* All dry-runs are gathered; one that fails, or answers for an option nobody
\* generated, fails the pass.  The code finds the option by the id that the answer
\* echoes: xnch is taken to echo the one it was asked about, so that positions do
\* for ids.
FilterOptions ==
    /\ stage = "filter"
    /\ \/ /\ answers' \in [DOMAIN options -> Answers]
          /\ kept' = [i \in {j \in DOMAIN options : Survives(answers'[j])}
                          |-> AfterPolicy(options[i], answers'[i])]
          /\ stage' = NextStage(DOMAIN kept')
       \/ stage' = "failed" /\ UNCHANGED <<answers, kept>>
    /\ UNCHANGED <<ctx, options, evaluated, decision, submitted>>

-----------------------------------------------------------------------------
(* Steps 7 and 8: scoring and simulation.                                   *)

PolicyScore(v) ==
    CASE v = "ALLOW" -> 100
      [] v = "ALLOW_WITH_WARNINGS" -> 70
      [] v = "MODIFY" -> 50
      [] v = "DEFER" -> 30
      [] OTHER -> 0

AtMost(limit, x) == IF x > limit THEN limit ELSE x

\* Defect: the sum of the risks is not capped.
RiskScore_Uncapped(o) ==
    (IF o.reversible THEN 0 ELSE 30) + ctx.sensitivity
        + AtMost(20, 5 * o.effects) + (IF ctx.agent THEN 10 ELSE 0)

RiskScore(o) ==
    AtMost(100, (IF o.reversible THEN 0 ELSE 30) + ctx.sensitivity
                    + AtMost(20, 5 * o.effects) + (IF ctx.agent THEN 10 ELSE 0))

ContextFit(o) ==
    IF ctx.constraints = {} THEN 100
    ELSE (100 * Cardinality(o.spec.fields \intersect ctx.constraints))
             \div Cardinality(ctx.constraints)

\* Every score is weighed with a plus sign, the risk too.
Composite(s, w) ==
    s.policy * w.policy + s.outcome * w.outcome + s.risk * w.risk + s.fit * w.fit

ScoresOf(i) ==
    [policy |-> PolicyScore(answers[i].verdict),
     outcome |-> ctx.outcome[kept[i].action],
     risk |-> RiskScore(kept[i]),
     fit |-> ContextFit(kept[i])]

\* compute_context_signature refuses an empty string in any of its four fields.
\* The intent class and the actor's role are enums, which have no empty member.
Signable(i) == kept[i].action # NoType /\ ctx.classed

\* What keeps the whole pass from being scored: an option without a signature, a
\* missing key, which is a KeyError, and a score or a composite outside [0, 1],
\* which the models refuse.
Scorable(i) ==
    /\ Signable(i)
    /\ ctx.weights # Malformed
    /\ ScoresOf(i) \in Scores
    /\ Composite(ScoresOf(i), ctx.weights) <= 10000

ScoreOptions ==
    /\ stage = "score"
    /\ \/ /\ \A i \in DOMAIN kept : Scorable(i)
          /\ evaluated' = [i \in DOMAIN kept |->
                [scores |-> ScoresOf(i),
                 composite |-> Composite(ScoresOf(i), ctx.weights),
                 simulate |-> \/ RiskScore(kept[i]) > 60
                              \/ ~kept[i].reversible
                              \/ ctx.agent]]
          /\ stage' = "simulate"
       \/ /\ \E i \in DOMAIN kept : ~Scorable(i)
          /\ stage' = "failed"
          /\ UNCHANGED evaluated
    /\ UNCHANGED <<ctx, options, answers, kept, decision, submitted>>

\* Defect: the list is sorted without reverse=True.
Before_Ascending(i, j) ==
    \/ evaluated[i].composite < evaluated[j].composite
    \/ evaluated[i].composite = evaluated[j].composite /\ i < j

\* The order of sorted(..., reverse=True), which is stable.
Before(i, j) ==
    \/ evaluated[i].composite > evaluated[j].composite
    \/ evaluated[i].composite = evaluated[j].composite /\ i < j

TopTwo ==
    LET needs == {i \in DOMAIN evaluated : evaluated[i].simulate}
    IN  {i \in needs : Cardinality({j \in needs : Before(j, i)}) < 2}

\* _project_state is a stub: no option is ever found in violation.
ProjectState(i) == FALSE

Rescored(i) ==
    LET s == [evaluated[i].scores EXCEPT !.risk = AtMost(100, @ + 30)]
    IN  [evaluated[i] EXCEPT !.scores = s, !.composite = Composite(s, ctx.weights)]

SimulateAndRescore ==
    /\ stage = "simulate"
    /\ stage' = "select"
    /\ evaluated' = [i \in DOMAIN evaluated |->
                        IF i \in TopTwo /\ ProjectState(i) THEN Rescored(i)
                                                           ELSE evaluated[i]]
    /\ UNCHANGED <<ctx, options, answers, kept, decision, submitted>>

-----------------------------------------------------------------------------
(* Steps 9 and 10a: selection and compilation.                              *)

\* The first two of the ranking; with one survivor there is no second.
Ranked(best, second) ==
    /\ \A j \in DOMAIN evaluated \ {best} : Before(best, j)
    /\ second = best <=> DOMAIN evaluated = {best}
    /\ \A j \in DOMAIN evaluated \ {best, second} : Before(second, j)

\* Defect: the difference is taken the wrong way round.
Confidence_Reversed(best, second) ==
    IF second = best THEN evaluated[best].composite
    ELSE evaluated[second].composite - evaluated[best].composite

\* The lead over the second, over zero when there is none.
Confidence(best, second) ==
    IF second = best THEN evaluated[best].composite
    ELSE evaluated[best].composite - evaluated[second].composite

\* There is a survivor, so the ranking is not empty and the only escalation of
\* select_decision, that of an empty ranking, cannot happen.
SelectDecision ==
    /\ stage = "select"
    /\ stage' = "compile"
    /\ \E best, second \in DOMAIN evaluated :
          /\ Ranked(best, second)
          /\ decision' = [selected |-> best,
                          confidence |-> Confidence(best, second),
                          generated |-> Cardinality(DOMAIN options),
                          blocked |-> Cardinality(DOMAIN options)
                                          - Cardinality(DOMAIN kept)]
    /\ UNCHANGED <<ctx, options, answers, kept, evaluated, submitted>>

Compiles(spec) == spec.type # NoType /\ spec.target

\* Defect: the selected option is looked up in the list before the filter.
SelectedOption_Raw == options[decision.selected]

SelectedOption == kept[decision.selected]

CompileActionSpec ==
    /\ stage = "compile"
    /\ IF Compiles(SelectedOption.spec)
       THEN /\ stage' = "submitted"
            /\ submitted' = [spec |-> SelectedOption.spec,
                             hash |-> SelectedOption.hash,
                             predicted |-> evaluated[decision.selected].composite]
       ELSE stage' = "rejected" /\ UNCHANGED submitted
    /\ UNCHANGED <<ctx, options, answers, kept, evaluated, decision>>

-----------------------------------------------------------------------------
Next ==
    \/ GenerateOptions
    \/ FilterOptions
    \/ ScoreOptions
    \/ SimulateAndRescore
    \/ SelectDecision
    \/ CompileActionSpec

Spec == Init /\ [][Next]_vars

-----------------------------------------------------------------------------
(* Properties.                                                              *)

\* What xnch allowed the option at position i to do: its own spec, or the one
\* xnch put in its place.
Allowed(i) ==
    IF answers[i].verdict = "MODIFY" /\ answers[i].spec # NoSpec
    THEN answers[i].spec ELSE options[i].spec

\* The action that goes to /verdict is the one the dry-run let through for the
\* selected option, across filter, ranking, lookup and compilation; its hash is
\* that of the generated spec, so the two agree unless xnch replaced the spec.
SubmittedIsVetted ==
    stage = "submitted" =>
        /\ answers[decision.selected].verdict # "BLOCK"
        /\ submitted.spec = Allowed(decision.selected)
        /\ submitted.hash = options[decision.selected].spec
        /\ Compiles(submitted.spec)

Decided == stage \in {"compile", "submitted", "rejected"}

\* j is at least as good as i for the evaluator: no worse a verdict, outcome
\* and fit, and no smaller a risk, since the code adds the risk.
AtLeast(j, i) ==
    LET a == evaluated[j].scores
        b == evaluated[i].scores
    IN  /\ a.policy >= b.policy
        /\ a.outcome >= b.outcome
        /\ a.risk >= b.risk
        /\ a.fit >= b.fit

\* ... and is preferred to it: generated earlier, or better liked by xnch where
\* the weights give that a say.
Dominates(j, i) ==
    /\ AtLeast(j, i)
    /\ \/ j < i
       \/ /\ ctx.weights.policy > 0
          /\ evaluated[j].scores.policy > evaluated[i].scores.policy

\* Whatever the weights, no survivor dominates the selected option: ties go to
\* the first one generated, and an option that xnch defers or warns about never
\* wins over an allowed one that is its equal otherwise.
Undominated ==
    Decided => \A j \in DOMAIN evaluated : ~Dominates(j, decision.selected)

\* When run.py selects, there is something to select from: every pass that is
\* not escalated by the filter has a first and, among several, a second option.
SelectionPossible ==
    stage = "select" => \E best, second \in DOMAIN evaluated : Ranked(best, second)

\* With weights that sum to one (the defaults and weights/*.yaml do) and outcomes
\* within [0, 1], the only thing that keeps a pass from being scored is a missing
\* context signature: no sum of risks, no share of constraints and no weighing of
\* them is refused by the models' bounds.
NormalisedScores ==
    /\ stage \in {"score", "failed"}
    /\ ctx.weights # Malformed
    /\ ctx.weights.policy + ctx.weights.outcome + ctx.weights.risk
          + ctx.weights.fit = 100
    /\ \A t \in Types : ctx.outcome[t] <= 100
    => \A i \in DOMAIN kept : Signable(i) => Scorable(i)

\* The DecisionRecord describes the pass: its blocked options are those xnch
\* blocked, the others were all evaluated, and the predicted score that the
\* outcome will be compared with is the selected option's.
RecordAgrees ==
    Decided =>
        /\ decision.generated = Cardinality(DOMAIN options)
        /\ decision.blocked = Cardinality({i \in DOMAIN options :
                                              answers[i].verdict = "BLOCK"})
        /\ decision.generated = decision.blocked + Cardinality(DOMAIN evaluated)
        /\ stage = "submitted" => decision.confidence <= submitted.predicted
=============================================================================
