SPECIFICATION Spec
CONSTANTS
    None           = None
    MaxWord        = 15
    MaxRows        = 9
    MaxVersions    = 2
    FragmentRows   = 3
    SmallFragments = 2
    DeletedPercent = 40
    LastVersion    = 3
    Damages        <- MCDamages
INVARIANTS
    TypeOK
    StaleAlarmsOnly
    NoFalseAlarm
    CurrentVersion
    DamageReported
CHECK_DEADLOCK FALSE
