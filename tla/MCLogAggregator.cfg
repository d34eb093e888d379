CONSTANTS
    BufferSize = 1
    FlushThreshold = 2
    MaxLogs = 4
SPECIFICATION FairSpec
INVARIANTS
    TypeOK
    Conservation
    StoredInOrder
    WritesAccounted
    StatsSound
    BatchFlushedOnStop
PROPERTIES
    EventuallyAccounted
    WorkerStops
    ImplementsSink
