SPECIFICATION FairSpec
CONSTANTS
    Callers = {c1, c2}
    Jobs <- JobSet
    FirstWriteSize = 6
    FirstPeerSize = 4
    Cuts <- CutSet
    MaxMsgs = 3
INVARIANTS
    TypeOK
    PeerInStep
    Intact
PROPERTIES
    WrittenRead
CHECK_DEADLOCK FALSE
