SPECIFICATION Spec
CONSTANTS
  Wheels = 2
  NameOf <- MCDistinct
  Names <- MCNames
  Digests <- MCContents
  Broken <- MCBroken
  Salts <- MCOneSalt
  Jobs = 2
  Modes <- MCFile
  MaxRuns = 1
  Faults <- MCWorkerDies
  MaxFaults = 1
  NoFile = NoFile
  NoLine = NoLine
CHECK_DEADLOCK FALSE
INVARIANTS
  NeverAborted
