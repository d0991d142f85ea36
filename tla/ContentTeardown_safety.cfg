SPECIFICATION Spec
CONSTANTS
    Nodes <- Pair
    Root = "root"
    Kids <- PairKids
    DataNodes <- TheDisk
    VolumeLeaves <- TheDisk
    Queues <- OneQueue
    Workers = 2
    Policies <- AllPolicies
    MaxAborts = 1
    MaxReads = 1
INVARIANTS
    
    RestoreIsWhole
 
CHECK_DEADLOCK FALSE
