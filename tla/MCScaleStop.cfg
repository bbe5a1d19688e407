CONSTANTS
    Versions <- MCVersions
    BadVersions <- MCNone
    MaxCount = 3
    HasStandby = FALSE
    DeletePVCs = TRUE
    NoCopy = NoCopy
    MaxAttempts = 2
    MaxOps = 3
    MaxFaults = 0
    PartialRedistribution = FALSE
    UnseenSuccess = FALSE
    UserActions = {"start", "stop"}
    Counts = {1, 3}
    EditPhases = {"Running"}
    RacingEdits = FALSE
    InitialCount = 2
    Mirrored = FALSE
    Deployed = TRUE
SPECIFICATION Safety
INVARIANTS
    RowsServed
PROPERTIES
    NoSelfInitdb
CHECK_DEADLOCK FALSE
