SPECIFICATION FairSpec
CONSTANTS
    Sources <- MCSources
    PVCs <- MCPVCs
    Weight <- MCWeight
    Uses <- MCUses
    Claim <- MCClaim
    Vetoed = {"scratch"}
    Classless = {}
    Beginnings <- MCBeginnings
    MaxFailures = 1
    MaxVanished = 1
    MaxChanges = 1
    MaxAborts = 1
    Nothing = Nothing
INVARIANTS
    NothingIsLost
    VolumeIsCapturedOnce
PROPERTIES
    IsPointInTime
    RootEnds
CHECK_DEADLOCK FALSE
