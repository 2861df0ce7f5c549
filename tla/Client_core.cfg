SPECIFICATION FairSpec
CONSTANTS
    Kinds <- KindSet
    NetIds <- NetSet
    MaxChunks = 2
INVARIANTS
    OneHolder
PROPERTIES
    EndToEnd
    AllConsumed
CHECK_DEADLOCK FALSE
