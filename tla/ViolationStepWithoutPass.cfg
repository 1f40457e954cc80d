SPECIFICATION Spec
CONSTANTS
    Steps = {s1}
    Nothing = Nothing
    MaxRetries = 1
    MaxLate = 0
    MaxCrashes = 0
INVARIANTS
    NoEndWithoutPass
