CONSTANTS
    BufferSize = 1
    HttpServers = {"doh"}
    Conns = {c1}
    Handlers = {h1}
    Sizes = {40, 300}
    ErrChSize = 3
    MaxQueries = 2
SPECIFICATION FairLifeSpec
INVARIANTS
    DotFinishesQueries
    RowsAtExit
    ServersClosed
    QueriesAsSent
PROPERTY EventuallyExits
CHECK_DEADLOCK FALSE
