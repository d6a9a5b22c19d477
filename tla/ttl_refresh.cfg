SPECIFICATION Safety
CONSTANTS
    SpaceOrder <- MCTwoSpaces
    Keys = {k1, k2}
    Nodes = {n1}
    Cleaners = {w1}
    BatchSize = 2
    Ttls = {0, 1}
    DefaultTtl = 2
    MaxTime = 3
    MaxErrors = 1
    AllowStop = FALSE
    LateWrites = TRUE
INVARIANT NothingLost
