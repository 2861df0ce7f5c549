SPECIFICATION Spec
CONSTANTS
    Csids <- CsidSet
    Types <- TypeSet
    Msids <- MsidSet
    Lens <- LenSet
    Sizes <- SizeSet
    FirstSize = 2
    SizeLen = 2
    Formats <- FormatSet
    ExtLong = TRUE
    MaxMsgs = 3
    MaxWire = 5
INVARIANTS
    InStep
CHECK_DEADLOCK FALSE
