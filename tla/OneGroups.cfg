SPECIFICATION Spec
CONSTANTS
  NoRow = NoRow
  NoColumn = NoColumn
  Leaves <- MCLeaves
  Statements <- MCOuterGroups
  Facts <- LevelFacts
  Results <- LevelResults
  Holds <- HoldsOf
  Declarations <- MCDeclarations
INVARIANTS
  AtMostOneRow
CHECK_DEADLOCK FALSE
