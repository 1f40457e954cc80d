SPECIFICATION FairSpec
CONSTANTS
    Callbacks = {c1, c2}
    Episodes = {"e1", "e2"}
    NoEpisode = "none"
    Outcomes = {"SUCCESS", "FAILURE", "PARTIAL"}
    Bodies <- MCBodies
    ReflectionEnabled = TRUE
    Nothing = Nothing
INVARIANTS
    TypeOK
    LessonIsItsOwn
PROPERTIES
    RecordedStands
    CallbackAnswered
