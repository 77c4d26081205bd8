SPECIFICATION Spec
CONSTANTS
    Names     = {1,2}
    Contents  <- MCIpcContents
    Modes     <- MCOneMode
    Absent    = Absent
    NoSchema  = NoSchema
    Unknown   = Unknown
    MaxEdits  = 0
INVARIANTS
    FileMetadataSeen
CHECK_DEADLOCK FALSE
