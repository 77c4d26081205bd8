SPECIFICATION Spec
CONSTANTS
    Names     = {1,2}
    Contents  <- MCContents
    Modes     <- MCModes
    Absent    = Absent
    NoSchema  = NoSchema
    Unknown   = Unknown
    MaxEdits  = 1
INVARIANTS
    Symmetric
    RenamesUnseen
    DataChangeSeen
    ExitMatchesReport
CHECK_DEADLOCK FALSE
