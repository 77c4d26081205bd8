SPECIFICATION ScanSpec
CONSTANTS
    FileSizes       <- MCFileSizes
    MetadataLengths <- MCMetadataLengths
    BodyLengths     <- MCBodyLengths
    MaxMetadata     = 16
    MaxBatches      = 2
    Formats         = {"Feather"}
INVARIANTS
    BrokenStreamsReported
CHECK_DEADLOCK FALSE
