SPECIFICATION Spec
CONSTANTS
  None = None
  Nowhere = Nowhere
  MaxWord = 3
  MinRowGroupRows = 2
  SmallFileBytes = 2
  MaxDepth = 3
  MaxEdits = 1
  Suffix <- MCSuffix
  Remote <- MCRemote
  Scenarios <- MCScenarios
  Replacements <- MCReplacements
INVARIANTS
  TypeOK
  CountsVerdict
  GeoVerdict
  ErrorsAreReal
  ExactCover
  SchemaDrift
PROPERTY ScanEnds
CHECK_DEADLOCK FALSE
