SPECIFICATION Spec
CONSTANTS
    Callers = {c1}
    Jobs <- RelaySet
    FirstWriteSize = 6
    FirstPeerSize = 4
    Cuts <- CutSet
    MaxMsgs = 2
INVARIANT FramesWriteable
CHECK_DEADLOCK FALSE
