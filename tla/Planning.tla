------------------------------ MODULE Planning ------------------------------
(***************************************************************************)
(* Steps 5 to 10a of a pass: where the options of DecisionCore come from.  *)
(* option_generator.py asks a model itself, then lets ModelAdapter ask the *)
(* models of the intent's chain one after the other, and ends with the     *)
(* templates of model_adapter.py.  What follows is DecisionCore's.         *)
(***************************************************************************)
EXTENDS DecisionCore, Sequences

CONSTANTS
    ModelPool,  \* the options that a model's answer can be parsed into
    ClassOf,    \* intent.intent_class of a context
    Addressed   \* the contexts whose intent has a target_entity_id

VARIABLES
    phase,  \* "direct": own call, "chain": ModelAdapter, "done": returned
    chain,  \* the models that fallback_chain still offers
    keyed,  \* settings.opencode_go_api_key is set
    path    \* the GenerationPath of the options, or NONE

planningVars == <<stage, ctx, options, answers, kept, evaluated, decision, submitted,
                  phase, chain, keyed, path>>

coreVars == <<ctx, answers, kept, evaluated, decision, submitted>>

-----------------------------------------------------------------------------
\* _INTENT_TIERS.  Settings can add models to the registry but take none away,
\* so fallback_chain drops none of these.
IntentTiers ==
    [EXECUTION |-> <<"pro", "reasoner">>, DECISION |-> <<"pro", "reasoner">>,
     ESCALATION |-> <<"reasoner", "lite">>, QUERY |-> <<"lite", "pro">>]

Classes == DOMAIN IntentTiers
Models == {"pro", "reasoner", "lite"}

\* _RULE_BASED_TEMPLATES: action type and the names of its params.
Templates ==
    [QUERY |-> <<[type |-> "READ_FILE", fields |-> {"operation", "scope"}],
                 [type |-> "LIST", fields |-> {"operation", "scope"}],
                 [type |-> "ANALYZE", fields |-> {"operation", "scope"}]>>,
     DECISION |-> <<[type |-> "PLAN", fields |-> {"operation", "commit"}],
                    [type |-> "ANALYZE", fields |-> {"operation", "commit"}],
                    [type |-> "ESCALATE", fields |-> {"operation", "reason"}]>>,
     EXECUTION |-> <<[type |-> "BACKUP", fields |-> {"operation", "scope"}],
                     [type |-> "ANALYZE", fields |-> {"operation", "commit"}],
                     [type |-> "ESCALATE", fields |-> {"operation", "reason"}]>>,
     ESCALATION |-> <<[type |-> "ESCALATE", fields |-> {"operation", "reason"}],
                      [type |-> "READ_FILE", fields |-> {"operation", "scope"}],
                      [type |-> "ANALYZE", fields |-> {"operation", "scope"}]>>]

ForbiddenRuleBased ==
    {"RUN_COMMAND", "RUN_SCRIPT", "DEPLOY", "ROLLBACK", "DELETE_FILE", "MUTATE"}

\* The template filled with the intent's target, which is empty when the model
\* that read the request gave an empty entity_id.  Only the backup has an effect.
RuleBasedOption(template, target) ==
    LET spec == [type |-> template.type, target |-> target, fields |-> template.fields]
    IN  [action |-> template.type, spec |-> spec, hash |-> spec, reversible |-> TRUE,
         effects |-> IF template.type = "BACKUP" THEN 1 ELSE 0]

RuleBasedOptions(class, target) ==
    [i \in 1..3 |-> RuleBasedOption(Templates[class][i], target)]

ASSUME ClassOfAssumption == ClassOf \in [Contexts -> Classes]
ASSUME AddressedAssumption == Addressed \subseteq Contexts
ASSUME ModelPoolAssumption == ModelPool \subseteq OptionPool
\* Every template makes an option of DecisionCore, and names its action.
ASSUME TemplatesAssumption ==
    /\ MaxOptions >= 3
    /\ \A class \in Classes : \A i \in 1..3 : Templates[class][i].type # NoType
    /\ \A c \in Contexts : \A i \in 1..3 :
          RuleBasedOption(Templates[ClassOf[c]][i], c \in Addressed) \in OptionPool

PlanningTypeOK ==
    /\ TypeOK
    /\ phase \in {"direct", "chain", "done"}
    /\ chain \in Seq(Models)
    /\ keyed \in BOOLEAN
    /\ path \in {"NONE", "MODEL", "RULE_BASED"}

PlanningInit ==
    /\ Init
    /\ phase = "direct"
    /\ chain = <<>>
    /\ keyed \in BOOLEAN
    /\ path = "NONE"

-----------------------------------------------------------------------------
\* The generator's own call.  _build_option_prompt formats a template whose JSON
\* braces are not escaped, so it raises KeyError before the request is sent, and
\* `except Exception: pass` goes on to the adapter.  classify_request, called before
\* that handler, is external and taken to return, for its result is not used.
DirectCall ==
    /\ phase = "direct"
    /\ phase' = "chain"
    /\ chain' = IntentTiers[ClassOf[ctx]]
    /\ UNCHANGED <<coreVars, stage, options, keyed, path>>

Return(from) ==
    /\ phase' = "done"
    /\ chain' = <<>>
    /\ path' = from
    /\ stage' = "filter"
    /\ UNCHANGED <<coreVars, keyed>>

\* Defect: the two paths are confused.
ModelAnswers_Mislabelled ==
    /\ phase = "chain" /\ chain # <<>> /\ keyed
    /\ \E n \in Positions : options' \in [1..n -> ModelPool]
    /\ Return("RULE_BASED")

\* The next model of the chain answers with at least one item that can be parsed.
ModelAnswers ==
    /\ phase = "chain" /\ chain # <<>> /\ keyed
    /\ \E n \in Positions : options' \in [1..n -> ModelPool]
    /\ Return("MODEL")

\* Without a key the answer is [] at once.  Otherwise: an error status, a timeout,
\* an answer that is not JSON or holds no usable item, or a failure of
\* trace_llm_call, which discards a good answer.
ModelFails ==
    /\ phase = "chain" /\ chain # <<>>
    /\ chain' = Tail(chain)
    /\ UNCHANGED <<coreVars, stage, options, phase, keyed, path>>

\* Defect: an intent without a target gets no options.
FallBack_AddressedOnly ==
    /\ phase = "chain" /\ chain = <<>>
    /\ options' = IF ctx \in Addressed THEN RuleBasedOptions(ClassOf[ctx], TRUE) ELSE <<>>
    /\ Return("RULE_BASED")

FallBack ==
    /\ phase = "chain" /\ chain = <<>>
    /\ options' = RuleBasedOptions(ClassOf[ctx], ctx \in Addressed)
    /\ Return("RULE_BASED")

Decide ==
    /\ FilterOptions \/ ScoreOptions \/ SimulateAndRescore \/ SelectDecision
          \/ CompileActionSpec
    /\ UNCHANGED <<phase, chain, keyed, path>>

PlanningNext == DirectCall \/ ModelAnswers \/ ModelFails \/ FallBack \/ Decide

PlanningSpec == PlanningInit /\ [][PlanningNext]_planningVars

-----------------------------------------------------------------------------
(* Properties.                                                              *)

\* Whatever the models do, the options are those of one GenerateOptions of
\* DecisionCore: a list that is not empty, of hashed options.
ImplementsCore == Spec

Replaced == answers[decision.selected].verdict = "MODIFY"
                /\ answers[decision.selected].spec # NoSpec

\* A pass without a model is harmless: what is submitted is one of the class's
\* templates, none of the forbidden actions, unless xnch put its own spec in its
\* place; and compilation refuses it only for want of a target.  Scoring may still
\* fail it, for want of an entity class or of usable weights.
FallbackIsSafe ==
    path = "RULE_BASED" =>
        /\ stage = "submitted" /\ ~Replaced =>
              /\ submitted.spec.type \notin ForbiddenRuleBased
              /\ \E i \in 1..3 : submitted.spec.type = Templates[ClassOf[ctx]][i].type
              /\ kept[decision.selected].reversible
        /\ stage = "rejected" => ctx \notin Addressed \/ Replaced
=============================================================================
