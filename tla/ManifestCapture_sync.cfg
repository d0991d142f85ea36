SPECIFICATION FairSpec
CONSTANTS
    N = 2
    V = 3
    Lag = FALSE
    Flaky <- AllCalls
    Rejects = {3}
    MaxHiccups = 2
    MaxChanges = 1
    MaxCrashes = 1
INVARIANTS TypeOK CheckpointIntegrity CapturedIsDurable CompletedIsHandedOff 
PROPERTIES IsCaptureLeg   RequestSettles
