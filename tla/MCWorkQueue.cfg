CONSTANTS
    ThreadCount <- MCThreadCount
    WorkCountPerThread <- MCWorkCountPerThread
SPECIFICATION QueueSpec
INVARIANT QueueTypeOK
PROPERTY PoolSpec
