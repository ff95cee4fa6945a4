CONSTANTS
    t1 = t1  t2 = t2
    a1 = a1  a2 = a2  a3 = a3  a4 = a4  a5 = a5
    Size = 2
    Threads <- MCThreads
    Addresses <- MCAddresses
    Results <- SlowOrInstant
    MaxChannels = 5
    ScoresPerChannel = 2
    MaxScoreCount = 6
    Operations <- RandomReadsAndWrites
SYMMETRY Symmetry
SPECIFICATION Spec
INVARIANTS TypeOK EntriesTraced EvaluatedOnTime
PROPERTY EvictsOnlySlow
