SPECIFICATION FairSpec
CONSTANTS
    Csids <- CsidSet
    Types <- TypeSet
    Msids <- MsidSet
    Lens <- LenSet
    Sizes <- SizeSet
    FirstSize = 2
    SizeLen = 2
    Formats <- FormatSet
    ExtLong = FALSE
    MaxMsgs = 3
    MaxWire = 5
INVARIANTS
    TypeOK
    InStep
    Reassembled
    HeadersFilled
    BuildersMatch
    EveryMessage
PROPERTIES
    EofReported
CHECK_DEADLOCK FALSE
