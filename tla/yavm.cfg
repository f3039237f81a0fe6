SPECIFICATION FairSpec
CONSTANTS
  Files <- GuestFiles
  NoFile = NoFile
  Garbage = {0}
  StdioBufSize = 2
  Keys = {7, 200}
  MaxKeys = 2
  MayHangup = TRUE
  Beyond = {0}
  MaxStray = 0
INVARIANTS TypeOK TerminalAtExit RawIsRestorable NothingBringsItBack FalseEndOfInput PrintsItsText
PROPERTIES GuestStartsClean HaltEnds
CHECK_DEADLOCK FALSE
