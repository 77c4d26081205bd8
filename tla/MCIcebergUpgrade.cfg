SPECIFICATION Spec
CONSTANTS
    SnapshotIds = {1, 2}
    ObjectIds   = {0, 1, 2}
    Branches    = {"audit"}
    Transforms  = {"identity", "bucket"}
    Foreign     <- MCForeign
    Missing     = Missing
    MaxSnapshots   = 1
    MaxMetadataLog = 2
    MaxSteps    = 4
    MaxEdits    = 1
INVARIANTS
    UpgradeAccepted
CHECK_DEADLOCK FALSE
