SPECIFICATION FairSpec
CONSTANTS
    Goals = {g1}
    Nobody = Nobody
    Limit = 3
    MaxOwed = 2
    MaxCrashes = 1
INVARIANTS
    TypeOK
    NoOverlap
    StoppedStaysBlocked
    RetriesBounded
PROPERTIES
    NoEndlessFailure
