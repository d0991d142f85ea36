SPECIFICATION Spec
CONSTANTS
    Sources <- MCSources
    PVCs <- MCPVCs
    Weight <- MCWeight
    Uses <- MCUses
    Claim <- MCClaim
    Vetoed = {"scratch"}
    Classless = {"spare"}
    Beginnings <- MCBeginnings
    MaxFailures = 0
    MaxVanished = 0
    MaxChanges = 0
    MaxAborts = 0
    Nothing = Nothing
INVARIANT DroppedIsNeverLost
CHECK_DEADLOCK FALSE
