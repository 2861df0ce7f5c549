SPECIFICATION FairSpec
CONSTANTS
    Nonces <- NonceSet
    Versions <- AnyVersion
    MaxChunks = 2
INVARIANTS
    TypeOK
    OnlyVerified
    ExactHandover
    PeerSatisfied
PROPERTIES
    LossNoticed
    Completes
CHECK_DEADLOCK FALSE
