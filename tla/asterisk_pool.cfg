SPECIFICATION Spec
CONSTANTS
    t1 = t1
    t2 = t2
    t3 = t3
    t4 = t4
    Threads = {t1, t2, t3, t4}
    Program <- MCMixed
    PoolSize = 2
    Requests = 1
    None = None
CHECK_DEADLOCK FALSE
INVARIANTS TypeOK SocketExclusive RepliesMatch
