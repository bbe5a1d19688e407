CONSTANTS
    Versions <- MCVersions
    BadVersions <- MCNone
    MaxCount = 3
    HasStandby = TRUE
    DeletePVCs = TRUE
    NoCopy = NoCopy
    MaxAttempts = 2
    MaxOps = 1
    MaxFaults = 1
    PartialRedistribution = FALSE
    UnseenSuccess = FALSE
    UserActions = {"stop"}
    Counts = {}
    EditPhases = {"Running"}
    RacingEdits = FALSE
    InitialCount = 2
    Mirrored = FALSE
    Deployed = TRUE
SPECIFICATION Spec
PROPERTIES
    StopEnds
CHECK_DEADLOCK FALSE
