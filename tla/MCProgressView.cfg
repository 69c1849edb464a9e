SPECIFICATION Spec
CONSTANTS
  Records = 2
  Heights <- MCHeights
  MaxFrames = 3
  MaxPauses = 2
INVARIANTS
  TypeOK
  WholeFrames
PROPERTIES
  MessageStands
  NeverStalled
  CloseReturns
