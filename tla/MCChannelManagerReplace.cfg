CONSTANTS
    t1 = t1  t2 = t2  t3 = t3
    MaxChannelCount = 1
    Threads <- TwoThreads
    Runs = 2
    Retries = 2
    SizeMax = 7
    Statuses <- OkUnhealthy
SPECIFICATION Spec
INVARIANT UnhealthyReplaced
