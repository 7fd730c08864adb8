CONSTANTS
    x = x
    y = y
    v1 = v1
    v2 = v2
    Keys <- ByteKeys
    Values = {v1, v2}
    MaxBatches = 3
    MaxBreaks = 1
    MaxTimeouts = 1
    MemoryLimit = 3
    ChangesLimit = 2
    NoLimit = NoLimit
    None = None
    ScanPrefixes <- Prefixes6
SPECIFICATION Spec

INVARIANT IterateIsPrefixScan
PROPERTY ReplicaConverges
PROPERTY ReplicationRefinement
CHECK_DEADLOCK FALSE
