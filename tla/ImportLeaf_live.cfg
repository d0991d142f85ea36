SPECIFICATION FairSpec
CONSTANTS
    Kinds <- AllKinds
    Imports = {1}
    Artifacts <- AllArtifacts
    Queues <- OneQueue
    Uploads = {1, 2}
    Payloads = {1}
    MaxAborts = 1

    
PROPERTY ImportIsServed
CHECK_DEADLOCK FALSE
