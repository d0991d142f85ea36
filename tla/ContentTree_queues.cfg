SPECIFICATION Spec
CONSTANTS
    Nodes <- Pair
    Root = "root"
    Kids <- PairKids
    Queues <- TwoQueues
    Aggregators <- TheRoot
    DataNodes <- None
    Announces = TRUE
    Ordered = TRUE
    Workers = 2
    Resync = TRUE
    Failures <- None
    MaxFailures = 0
    MaxLosses = 0
    MaxDeletions = 0
INVARIANTS PersistedIsComplete ReadyAfterChildren OwnerReadyIsEarned KidsLatchIsComplete ReapedIsDurable
CHECK_DEADLOCK FALSE
