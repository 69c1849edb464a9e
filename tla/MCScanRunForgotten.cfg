SPECIFICATION Spec
CONSTANTS
  Wheels = 2
  NameOf <- MCDistinct
  Names <- MCNames
  Digests <- MCContents
  Broken <- MCBroken
  Salts <- MCOneSalt
  Jobs = 1
  Modes <- MCFile
  MaxRuns = 2
  Faults <- MCTransient
  MaxFaults = 1
  NoFile = NoFile
  NoLine = NoLine
CHECK_DEADLOCK FALSE
INVARIANTS
  FailuresAreForgotten
