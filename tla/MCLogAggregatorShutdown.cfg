CONSTANTS
    BufferSize = 2
    FlushThreshold = 2
    MaxLogs = 3
SPECIFICATION QuietSpec
INVARIANT AccountedAfterWait
