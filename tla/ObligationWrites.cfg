SPECIFICATION Spec
CONSTANTS
  NoRow = NoRow
  NoColumn = NoColumn
  Leaves <- MCLeaves
  Statements <- MCMoves
  Facts <- LevelFacts
  Results <- LevelResults
  Holds <- HoldsOf
  Declarations <- MCDeclarations
INVARIANTS
  DischargedHolds
CHECK_DEADLOCK FALSE
