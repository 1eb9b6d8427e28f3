SPECIFICATION Spec
CONSTANTS
  MaxExpansions = 3
  Templates <- MCHidden
  Params <- MCParams
INVARIANT SparseCovers
CHECK_DEADLOCK FALSE
