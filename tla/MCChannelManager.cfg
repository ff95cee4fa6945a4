CONSTANTS
    t1 = t1  t2 = t2  t3 = t3
    MaxChannelCount = 2
    Threads <- ThreeThreads
    Runs = 1
    Retries = 2
    SizeMax = 7
    Statuses <- AnyStatus
SPECIFICATION Spec
INVARIANTS TypeOK InUseExact PoolBoundedWhileHealthy HandlesCounted
PROPERTY Terminates
