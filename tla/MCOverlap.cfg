CONSTANTS
    Versions <- MCVersions
    BadVersions <- MCNone
    MaxCount = 3
    HasStandby = FALSE
    DeletePVCs = TRUE
    NoCopy = NoCopy
    MaxAttempts = 2
    MaxOps = 3
    MaxFaults = 1
    PartialRedistribution = TRUE
    UnseenSuccess = FALSE
    UserActions = {"stop"}
    Counts = {1, 3}
    EditPhases = {"Running"}
    RacingEdits = TRUE
    InitialCount = 3
    Mirrored = FALSE
    Deployed = TRUE
SPECIFICATION Safety
PROPERTIES
    
    LargeScaleInConfirmed
CHECK_DEADLOCK FALSE
