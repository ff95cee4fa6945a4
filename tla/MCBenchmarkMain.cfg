CONSTANTS
    t1 = t1  t2 = t2
    Threads <- MCThreads
    Runs = 2
    MaxTime = 2
    MaxFailures = 1
    ParameterSpace <- SomeParameters
SPECIFICATION Spec
INVARIANTS TypeOK MeasuredSpan PercentileRanks
PROPERTY Ends
