SPECIFICATION Spec
CONSTANTS
  MaxExpansions = 256
  Templates <- MCTemplates
  Params <- MCParams
INVARIANTS
  NeverRefused
  BoundToItsValue
  ArgsAsChecked
  NilSeen
  SparseCovers
CHECK_DEADLOCK FALSE
