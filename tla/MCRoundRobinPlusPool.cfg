CONSTANTS
    t1 = t1  t2 = t2  t3 = t3
    a1 = a1  a2 = a2  a3 = a3  a4 = a4  a5 = a5  a6 = a6
    Size = 2
    Threads <- ThreeThreads
    Addresses <- SixAddresses
    MaxChannels = 5
    MinCount = 2
    Operations <- EveryOperation
SYMMETRY Symmetry
SPECIFICATION Spec
INVARIANTS TypeOK CountsMatch HopelessGone
PROPERTY ReportsOwnChannel
