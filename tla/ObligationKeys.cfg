SPECIFICATION Spec
CONSTANTS
  NoRow = NoRow
  NoColumn = NoColumn
  Leaves <- MCLeaves
  Statements <- MCByKeys
  Facts <- LevelFacts
  Results <- LevelResults
  Holds <- HoldsOf
  Declarations <- MCKeys
INVARIANTS
  DischargedHolds
CHECK_DEADLOCK FALSE
