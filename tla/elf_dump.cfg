SPECIFICATION Spec
CONSTANTS
  Files <- ObjectFiles
  NoFile = NoFile
  Garbage <- Leftovers
  Altered = {0, 2, 45, 255}
  Lengths = {0, 1, 15, 64, 65, 119, 120, 121, 150, 184, 200}
INVARIANTS AsDumped
CHECK_DEADLOCK FALSE
