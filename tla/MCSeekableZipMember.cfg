SPECIFICATION Spec
CONSTANTS
  Length = 5
  Size = 6
  WindowBytes = 2
  SkipChunk = 2
  MaxRequest = 3
  FlakyReads = TRUE
  Offsets <- MCOffsets
INVARIANTS
  TypeOK
  WindowTracksStream
  SoundUntilAReadRaises
PROPERTIES
  FileSpec
  SeekReturns
