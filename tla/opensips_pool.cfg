SPECIFICATION Spec
CONSTANTS
    PoolSize = 3
    AllowedErrors = 2
    DisableTime = 1
    LazyConnect = FALSE
    User = TRUE
    FallbackSpace = 512
    MaxResets = 2
INVARIANTS TypeOK BreakerJustified NoHalfOpen UsableReached
PROPERTY Recovers
