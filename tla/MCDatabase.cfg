CONSTANTS
    DbThreads = {d1, d2}
    ChunkSize = 2
    MaxOps = 3
    MaxMeet = 2
SPECIFICATION DbSpec
INVARIANT ReportsAreStored
CHECK_DEADLOCK FALSE
