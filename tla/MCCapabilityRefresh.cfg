SPECIFICATION FairSpec
CONSTANTS
    Callers = {c1}
    Task = Task
    Absent = Absent
    Torn = Torn
    Services = 1
    Period = 2
    PersonaOn = TRUE
    MaxWorld = 1
INVARIANTS
    TypeOK
    OverlayWhole
PROPERTIES
    StepBackOnlyByOverlap
    ServedEventuallyFresh
    OverlayEventuallyFresh
