SPECIFICATION BusySpec
CONSTANTS
    c1 = c1
    c2 = c2
    Single <- SingleIds
    Multi <- MultiIds
    Stray <- NoIds
    Closers <- OneCloser
    ErrsRead = TRUE
    ClientOrder = TRUE
    MaxChunks = 2
PROPERTY CloseHalts
CHECK_DEADLOCK FALSE
