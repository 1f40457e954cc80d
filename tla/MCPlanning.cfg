SPECIFICATION PlanningSpec
CONSTANTS
    MaxOptions = 3
    Fields = {"scope", "commit", "operation", "reason"}
    Types <- MCTypes
    NoType = NoType
    OptionPool <- MCOptions
    ModelPool <- MCModelOptions
    ClassOf <- MCClassOf
    Addressed <- MCAddressed
    SpecPool <- MCSpecs
    NoSpec = NoSpec
    Contexts <- MCContexts
    Malformed = Malformed
INVARIANTS
    PlanningTypeOK
    SubmittedIsVetted
    Undominated
    NormalisedScores
    FallbackIsSafe
PROPERTIES
    ImplementsCore
CHECK_DEADLOCK FALSE
