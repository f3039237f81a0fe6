SPECIFICATION MCSpec
CONSTANTS
  StdioBufSize = 1
  Images <- IsaGuests
  Keys = {}
  MaxKeys = 0
  MayHangup = FALSE
  Beyond = {0, 40}
  MaxStray = 1
  MaxSteps = 10
INVARIANTS StoresHitMemory
CHECK_DEADLOCK FALSE
