SPECIFICATION Spec
CONSTANTS
    Paths      <- MCPaths
    Supported  <- MCSupported
    Builtin    <- MCBuiltin
    Declared   <- MCDeclared
    RuleId     <- MCRuleId
    SeverityOf <- MCSeverity
    Contents   <- MCContents
    Configs    <- MCConfigs
    RuleFiles  <- MCRuleFiles
    Args       <- MCArgs
    Absent     = Absent
    Broken     = Broken
    Unreadable = Unreadable
    NoOption   = NoOption
    MaxEdits   = 2
INVARIANTS
    TypeOK
    ExitMatchesReport
    ReportIsExact
    NothingSkipped
PROPERTY
    Termination
    ImplementsGate
CHECK_DEADLOCK FALSE
