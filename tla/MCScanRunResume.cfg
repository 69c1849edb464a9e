SPECIFICATION Spec
CONSTANTS
  Wheels = 3
  NameOf <- MCThree
  Names <- MCThreeNames
  Digests <- MCContents
  Broken <- MCBroken
  Salts <- MCOneSalt
  Jobs = 2
  Modes <- MCBothModes
  MaxRuns = 2
  Faults <- MCResumeFaults
  MaxFaults = 2
  NoFile = NoFile
  NoLine = NoLine
CHECK_DEADLOCK FALSE
INVARIANTS
  SameAsFromScratch
  FailuresAreFresh
