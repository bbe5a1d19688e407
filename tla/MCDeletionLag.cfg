SPECIFICATION Spec
CONSTANTS
    v1 = v1
    v2 = v2
    PVCs <- MCPVCs
PROPERTY TrackedBackupBeforeData
CHECK_DEADLOCK FALSE
