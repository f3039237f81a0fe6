SPECIFICATION Spec
CONSTANTS
  XStride = 331
  YStride = 1021
INVARIANTS BitwiseByBits ExtendByMask SubtractByComplement
CHECK_DEADLOCK FALSE
