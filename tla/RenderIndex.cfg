SPECIFICATION Spec
CONSTANTS
  MaxExpansions = 256
  Templates <- MCIndex
  Params <- MCParams
INVARIANT NeverRefused
CHECK_DEADLOCK FALSE
