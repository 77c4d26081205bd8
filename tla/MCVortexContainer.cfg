SPECIFICATION Spec
CONSTANTS
    FileSizes         <- MCFileSizes
    PostscriptLengths <- MCPostscriptLengths
    Postscripts       <- MCPostscripts
    Footers           <- MCFooters
    KeyBytes          <- MCKeyBytes
    MaxPostscript     = 20
    MaxFooter         = 14
    MaxEntries        = 3
    MaxKeyBytes       = 4
    MaxSchemes        = 2
    WordBits          = 6
    Missing           = Missing
INVARIANTS
    TypeOK
    FailureNeedsShrink
    BoundedReads
    FooterExplained
    OpaqueNotMalformed
    Verdict
CHECK_DEADLOCK FALSE
