SPECIFICATION Spec
CONSTANTS
    Csids <- CsidSet
    Types <- TypeSet
    Msids <- MsidSet
    Lens <- LenSet
    Sizes <- SizeSet
    FirstSize = 2
    SizeLen = 2
    Formats <- FormatSet
    ExtLong = FALSE
    MaxMsgs = 3
    MaxWire = 5
INVARIANTS
    HeadersComplete
CHECK_DEADLOCK FALSE
