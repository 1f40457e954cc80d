SPECIFICATION Spec
CONSTANTS
    Goals = {g1}
    Nobody = Nobody
    Limit = 2
    MaxOwed = 1
    MaxCrashes = 0
INVARIANTS
    OverLimitIsOver
