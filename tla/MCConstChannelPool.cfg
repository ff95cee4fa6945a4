CONSTANTS
    t1 = t1  t2 = t2
    Threads <- MCThreads
    MaxChannels = 4
SPECIFICATION Spec
INVARIANTS TypeOK ChannelsAlive QueueDrained
PROPERTY DestructorReturns
