SPECIFICATION Spec
CONSTANTS
    Passes = {p1}
    MaxVersion = 2
    StaleShown <- OnlyHidden
INVARIANT
    StaleEndsIn409
CHECK_DEADLOCK FALSE
