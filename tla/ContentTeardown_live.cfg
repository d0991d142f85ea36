SPECIFICATION FairSpec
CONSTANTS
    Nodes <- Pair
    Root = "root"
    Kids <- PairKids
    DataNodes <- TheDisk
    VolumeLeaves <- TheDisk
    Queues <- OneQueue
    Workers = 1
    Policies <- AllPolicies
    MaxAborts = 1
    MaxReads = 0
PROPERTY TreeGoes
CHECK_DEADLOCK FALSE
