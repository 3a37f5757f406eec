CONSTANTS
  Names <- MCNames
  Paths <- MCPaths
  Sessions <- MCSessions
  MaxOverlap = 2
SPECIFICATION Spec
INVARIANTS
  LoadedIsWhole
  ResumedIsUninterrupted
  RecordsSurvive
  PackageConsistent
PROPERTIES
  PublishedStays
