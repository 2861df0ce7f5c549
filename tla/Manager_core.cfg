SPECIFICATION FairSpec
CONSTANTS
    Kinds <- KindSet
    Closable <- AllChildren
    MaxChunks = 3
INVARIANTS
    TypeOK
    NoneSkipped
    RoutedInOrder
    OneChild
    EndedAfterAll
PROPERTIES
    EveryChunkHandled
    CloseReturns
CHECK_DEADLOCK FALSE
