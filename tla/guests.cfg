SPECIFICATION FairSpec
CONSTANTS
  StdioBufSize = 2
  Images <- AllGuests
  Keys = {7, 10, 200}
  MaxKeys = 4
  MayHangup = TRUE
  Beyond = {0}
  MaxStray = 0
PROPERTIES EchoIsWhatWasTyped EveryKeyIsServed ClosingDrains StrandedUntilNextKey LoopsAndCalls HaltTerminates
CHECK_DEADLOCK FALSE
