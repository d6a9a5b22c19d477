SPECIFICATION Spec
CONSTANTS
    Calls = {c1, c2}
    AllowedErrors = 2
    DisableTime = 1
    NoTarantoolRequired = TRUE
    User = TRUE
    MaxOps = 5
    MaxCuts = 2
    None = none
INVARIANTS TypeOK RestoreSeesSaves PipelineKept
PROPERTY RestoreEnds
