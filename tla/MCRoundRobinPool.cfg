CONSTANTS
    t1 = t1  t2 = t2
    Size = 2
    Threads <- MCThreads
    MaxChannels = 5
SYMMETRY Symmetry
SPECIFICATION Spec
INVARIANTS TypeOK HopelessGone SafeApart
