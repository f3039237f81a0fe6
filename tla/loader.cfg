SPECIFICATION FairSpec
CONSTANTS
  Files <- ImageFiles
  NoFile = NoFile
  Garbage = {0, 48, 65535}
  Bytes = {0, 18, 255}
  MaxLength = 5
INVARIANTS TypeOK SwappedUpToPtr LoadedAsStored
PROPERTIES LoadEnds
CHECK_DEADLOCK FALSE
