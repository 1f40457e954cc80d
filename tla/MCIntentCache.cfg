SPECIFICATION FairSpec
CONSTANTS
    Requests = {r1, r2}
    Inputs <- MCInputs
    Clean <- MCClean
    Keys <- MCKeys
    KeyOf <- MCKeyOf
    RuleOf <- MCRuleOf
    Classes = {"DEPLOY", "ANALYZE"}
    Harmless = "ANALYZE"
    NoRule = NoRule
    Nothing = Nothing
INVARIANTS
    TypeOK
    CacheAgreesWithRules
    AnswersAreOwn
PROPERTIES
    MeaningIsStable
    EveryRequestEnds
\* The process stands still for good in a call that a silent Redis does not end.
CHECK_DEADLOCK FALSE
