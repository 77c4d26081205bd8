SPECIFICATION ScanSpec
CONSTANTS
    FileSizes       <- MCFileSizes
    MetadataLengths <- MCMetadataLengths
    BodyLengths     <- MCBodyLengths
    MaxMetadata     = 16
    MaxBatches      = 1
    Formats         = {"ArrowIpc"}
INVARIANTS
    TypeOK
    Verdict
    FailureNeedsShrink
    LegacyFlag
    RowsOnlyWhenClean
    StreamsNeverAbort
    BrokenStreamsReported
PROPERTY
    ScanEnds
CHECK_DEADLOCK FALSE
