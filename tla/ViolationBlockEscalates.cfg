SPECIFICATION Spec
CONSTANTS
    Passes = {p1}
    MaxVersion = 2
    StaleShown <- OnlyShown
INVARIANT
    BlockEscalates
CHECK_DEADLOCK FALSE
