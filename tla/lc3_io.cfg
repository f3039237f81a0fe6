SPECIFICATION MCSpec
CONSTANTS
  StdioBufSize = 2
  Images <- IoGuests
  Keys = {7, 200}
  MaxKeys = 3
  MayHangup = TRUE
  Beyond = {0, 40}
  MaxStray = 1
  MaxSteps = 8
INVARIANTS OnlyGetcAndInWait
PROPERTIES KeysInOrder ReadyIsStable
CHECK_DEADLOCK FALSE
