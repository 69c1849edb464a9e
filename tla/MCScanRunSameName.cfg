SPECIFICATION Spec
CONSTANTS
  Wheels = 2
  NameOf <- MCSameName
  Names <- MCNames
  Digests <- MCContents
  Broken <- MCBroken
  Salts <- MCOneSalt
  Jobs = 1
  Modes <- MCBothModes
  MaxRuns = 2
  Faults <- MCCrash
  MaxFaults = 1
  NoFile = NoFile
  NoLine = NoLine
CHECK_DEADLOCK FALSE
INVARIANTS
  SameAsFromScratch
