SPECIFICATION Spec
CONSTANTS
    Nodes <- Pair
    Root = "root"
    Kids <- PairKids
    Queues <- OneQueue
    Aggregators <- None
    DataNodes <- TheDisk
    Announces = TRUE
    Ordered = TRUE
    Workers = 1
    Resync = TRUE
    Failures <- AllFailures
    MaxFailures = 1
    MaxLosses = 1
    MaxDeletions = 0
INVARIANTS TypeOK PersistedIsComplete ReadyIsWhole ReapedIsDurable
PROPERTIES  LegsAreCaptureLegs
CHECK_DEADLOCK FALSE
