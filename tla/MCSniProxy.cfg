CONSTANTS
    Hellos <- MCHellos
    Records <- MCRecords
    ReadTimeout = 1
    IdleTimeout = 2
    MaxChunks = 2
SPECIFICATION HSpec
INVARIANTS
    StaysInside
    FindsName
    InOrder
    IdleBound
PROPERTIES
    ClosedWhenOver
    Released
CHECK_DEADLOCK FALSE
