CONSTANTS
    ThreadCount <- MCThreadCount
    Runs = 1
    WordBits <- MCWordBits
    MaxFailures = 0
    ParameterSpace <- ReadOnly
SPECIFICATION Spec
INVARIANT FailureIsReal
