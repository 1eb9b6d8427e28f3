SPECIFICATION Spec
CONSTANTS
  MaxExpansions = 256
  Templates <- MCReuse
  Params <- MCParams
INVARIANT BoundToItsValue
CHECK_DEADLOCK FALSE
