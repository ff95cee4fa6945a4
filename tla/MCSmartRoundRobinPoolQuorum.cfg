CONSTANTS
    t1 = t1  t2 = t2
    a1 = a1  a2 = a2  a3 = a3  a4 = a4  a5 = a5
    Size = 2
    Threads <- MCThreads
    Addresses <- MCAddresses
    Results <- Fast
    MaxChannels = 5
    ScoresPerChannel = 3
    MaxScoreCount = 2
    Operations <- Reads
SYMMETRY Symmetry
SPECIFICATION Spec
INVARIANT QuorumReachable
