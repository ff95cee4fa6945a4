CONSTANTS
    ThreadCount <- MCThreadCount
    Runs = 2
    WordBits <- MCWordBits
    MaxFailures = 2
    ParameterSpace <- Parameters
SPECIFICATION Spec
INVARIANTS
    TypeOK OnceOnly NoJobLost StealComplete NoFalseSuccess
    ReportHasSuccess
PROPERTIES PromiseSpec Terminates TryingCompletes
