SPECIFICATION Spec
CONSTANTS
    N = 2
    V = 2
    Lag = TRUE
    Flaky <- ChunkCalls
    Rejects = {}
    MaxHiccups = 1
    MaxChanges = 1
    MaxCrashes = 0
INVARIANTS CheckpointIntegrity CapturedIsDurable CompletedIsHandedOff 
