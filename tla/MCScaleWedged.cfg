CONSTANTS
    Versions <- MCVersions
    BadVersions <- MCNone
    MaxCount = 3
    HasStandby = FALSE
    DeletePVCs = TRUE
    NoCopy = NoCopy
    MaxAttempts = 2
    MaxOps = 1
    MaxFaults = 0
    PartialRedistribution = FALSE
    UnseenSuccess = FALSE
    UserActions = {}
    Counts = {3}
    EditPhases = {"Running"}
    RacingEdits = FALSE
    InitialCount = 2
    Mirrored = FALSE
    Deployed = TRUE
SPECIFICATION Spec
PROPERTIES
    ScaleEnds
CHECK_DEADLOCK FALSE
