SPECIFICATION Spec
CONSTANTS
  MaxExpansions = 256
  Templates <- MCWith
  Params <- MCParams
INVARIANTS NeverRefused ArgsAsChecked
CHECK_DEADLOCK FALSE
