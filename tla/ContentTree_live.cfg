SPECIFICATION FairSpec
CONSTANTS
    Nodes <- Pair
    Root = "root"
    Kids <- PairKids
    Queues <- TwoQueues
    Aggregators <- TheRoot
    DataNodes <- None
    Announces = TRUE
    Ordered = TRUE
    Workers = 1
    Resync = FALSE
    Failures <- TheManifest
    MaxFailures = 1
    MaxLosses = 1
    MaxDeletions = 0
PROPERTIES TreeSettles LossSurfaces
CHECK_DEADLOCK FALSE
