SPECIFICATION FairSpec
CONSTANTS
    Streams <- MCStreams
    MaxText = 3
    MaxValue = 2
    MaxSet = 3
    CHUNK = 3
    U32 = 16
    Nodes <- MCNodes
    Trees <- MCTrees
    Dir <- MCDir
    None = None
INVARIANTS
    TypeOK
    StraysForCause
    FileIsPrefix
    ChunkBounded
    MemoryIsSetIfWhole
    DeletedAsTold
PROPERTIES
    LoopsRunOut
    Ends
CHECK_DEADLOCK FALSE
