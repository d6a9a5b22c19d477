SPECIFICATION Spec
CONSTANTS
    PoolSize = 2
    AllowedErrors = 2
    DisableTime = 1
    LazyConnect = TRUE
    User = FALSE
    FallbackSpace = 512
    MaxResets = 1
PROPERTY RequestEnds
