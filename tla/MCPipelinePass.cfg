SPECIFICATION FairSpec
CONSTANTS
    Passes = {p1, p2}
    MaxVersion = 2
    StaleShown <- Both
INVARIANTS
    TypeOK
    OneEffect
    RefusalHasNoEffect
    MetricsAgree
PROPERTIES
    RetryCarriesFreshVersion
    ImplementsContract
    PassTerminates
CHECK_DEADLOCK FALSE
