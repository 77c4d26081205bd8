SPECIFICATION Spec
CONSTANTS
    Paths      <- MCPaths
    Supported  <- MCSupported
    Builtin    <- MCBuiltin
    Declared   <- MCDeclared
    RuleId     <- MCRuleId
    SeverityOf <- MCSeverity
    Contents   <- MCContents
    Configs    <- MCConfigs
    RuleFiles  <- MCRuleFiles
    Args       <- MCPlainArgs
    Absent     = Absent
    Broken     = Broken
    Unreadable = Unreadable
    NoOption   = NoOption
    MaxEdits   = 0
INVARIANTS
    ConfigThresholdHonoured
CHECK_DEADLOCK FALSE
