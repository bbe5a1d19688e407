CONSTANTS
    Versions <- MCVersions
    BadVersions <- MCNone
    MaxCount = 3
    HasStandby = TRUE
    DeletePVCs = TRUE
    NoCopy = NoCopy
    MaxAttempts = 2
    MaxOps = 2
    MaxFaults = 1
    PartialRedistribution = FALSE
    UnseenSuccess = FALSE
    UserActions = {}
    Counts = {1, 3}
    EditPhases = {"Running"}
    RacingEdits = FALSE
    InitialCount = 2
    Mirrored = TRUE
    Deployed = TRUE
SPECIFICATION Safety
INVARIANTS
    TypeOK
    RowsServed
    SegmentsServed
PROPERTIES
    NoSelfInitdb
    ExpandedBeforeCompletion
CHECK_DEADLOCK FALSE
