SPECIFICATION Spec
CONSTANTS
    t1 = t1
    t2 = t2
    t3 = t3
    t4 = t4
    Threads = {t1, t2}
    Program <- MCRealtime
    PoolSize = 1
    Requests = 1
    None = None
CHECK_DEADLOCK FALSE
PROPERTY AllServed
