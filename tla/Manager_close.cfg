SPECIFICATION FairSpec
CONSTANTS
    Kinds <- KindSet
    Closable <- NoChildren
    MaxChunks = 2
PROPERTIES
    NothingAfterClose
CHECK_DEADLOCK FALSE
