SPECIFICATION Spec
CONSTANTS
    Facts = {f1, old}
    YamlFacts = {f1}
    Before = {old}
    Syncs = {s1, s2}
    ReadLimit = 2
    MaxCopies = 2
    Conditions = {"service_down"}
    Keys = {k1, k2}
    Absent = Absent
    Prompts = {p1, p2}
    WithEngine = {p1}
    FactLimit = 1
    MaxVersion = 1
    AutoFacts = AutoFacts
    Nothing = Nothing
SYMMETRY Symmetric
INVARIANTS
    TypeOK
    PromptIsSound
PROPERTIES
    DuplicateOnlyByOverlap
