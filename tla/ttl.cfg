SPECIFICATION Spec
CONSTANTS
    SpaceOrder <- MCTwoSpaces
    Keys = {k1, k2}
    Nodes = {n1}
    Cleaners = {w1, w2}
    BatchSize = 2
    Ttls = {0, 1}
    DefaultTtl = 2
    MaxTime = 2
    MaxErrors = 1
    AllowStop = TRUE
    LateWrites = FALSE
INVARIANTS TypeOK NothingLost
PROPERTIES ExpiredPurged StopEndsCleaners
