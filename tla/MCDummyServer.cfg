CONSTANTS
    K = 2
    IntMax = 31
    MaxReadChunkBytes = 8
    Window = 2
    Flags <- SomeFlags
    Requests <- SomeRequests
SPECIFICATION Spec
INVARIANTS TypeOK OneAtATime BytesConserved
PROPERTIES TransferSpec CallEnds
