SPECIFICATION FairSpec
CONSTANTS
    Steps = {s1}
    Nothing = Nothing
    MaxRetries = 2
    MaxLate = 2
    MaxCrashes = 1
INVARIANTS
    TypeOK
    EndIsWhatHappened
    DoneWasDispatched
    FailedIsEarned
PROPERTIES
    EveryStepEnds
