SPECIFICATION Spec
CONSTANTS
  Wheels = 2
  NameOf <- MCDistinct
  Names <- MCNames
  Digests <- MCContents
  Broken <- MCBroken
  Salts <- MCTwoSalts
  Jobs = 2
  Modes <- MCFile
  MaxRuns = 3
  Faults <- MCCacheFaults
  MaxFaults = 2
  NoFile = NoFile
  NoLine = NoLine
CHECK_DEADLOCK FALSE
INVARIANTS
  TypeOK
  CacheIsTrue
  NoStaleAnswer
PROPERTIES
  AtomicOutput
  RunsEnd
