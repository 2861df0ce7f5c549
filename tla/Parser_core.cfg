SPECIFICATION FairSpec
CONSTANTS
    c1 = c1
    c2 = c2
    Single <- SingleIds
    Multi <- MultiIds
    Stray <- StrayIds
    Closers <- TwoClosers
    ErrsRead = TRUE
    ClientOrder = FALSE
    MaxChunks = 3
INVARIANTS
    TypeOK
    PerStreamFifo
    NothingLost
    CloseLosesNothing
    CloseComplete
    OneCloseReturns
PROPERTIES
    Delivery
    Delivered
    AwaitReturns
CHECK_DEADLOCK FALSE
