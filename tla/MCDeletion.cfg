SPECIFICATION Spec
CONSTANTS
    v1 = v1
    v2 = v2
    PVCs <- MCPVCs
INVARIANTS
    TypeOK
    RetainKeepsData
    FinalizerLast
    HonestReport
    OutcomeRecorded
    OneJob
PROPERTIES
    RunningBackupTold
    DeletionFinishes
CHECK_DEADLOCK FALSE
