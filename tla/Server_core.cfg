SPECIFICATION FairSpec
CONSTANT MaxConns = 6
INVARIANTS
    EachOnce
PROPERTIES
    Served
