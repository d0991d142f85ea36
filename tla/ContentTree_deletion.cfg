SPECIFICATION FairSpec
CONSTANTS
    Nodes <- Pair
    Root = "root"
    Kids <- PairKids
    Queues <- OneQueue
    Aggregators <- TheRoot
    DataNodes <- None
    Announces = TRUE
    Ordered = TRUE
    Workers = 1
    Resync = FALSE
    Failures <- None
    MaxFailures = 0
    MaxLosses = 0
    MaxDeletions = 1
INVARIANT PlannedIsDeep
PROPERTY DeletionSurfaces
CHECK_DEADLOCK FALSE
