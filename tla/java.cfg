SPECIFICATION FairSpec
CONSTANTS
  UINT16_MAX = 300
  FileLengths <- Lengths
  NoFile = NoFile
INVARIANTS TypeOK
PROPERTIES EndsInException
CHECK_DEADLOCK FALSE
