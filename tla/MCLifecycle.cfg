CONSTANTS
    Versions <- MCVersions
    BadVersions <- MCNone
    MaxCount = 3
    HasStandby = FALSE
    DeletePVCs = TRUE
    NoCopy = NoCopy
    MaxAttempts = 2
    MaxOps = 2
    MaxFaults = 1
    PartialRedistribution = FALSE
    UnseenSuccess = FALSE
    UserActions = {"start", "start-restricted", "start-maintenance", "stop", "restart", "rebalance"}
    Counts = {}
    EditPhases = {"Running"}
    RacingEdits = FALSE
    InitialCount = 2
    Mirrored = FALSE
    Deployed = FALSE
SPECIFICATION Spec
PROPERTIES
    StopStops
    StopSettles
    StartStarts
    RestartRestarts
    ReadinessTold
CHECK_DEADLOCK FALSE
