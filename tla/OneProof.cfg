SPECIFICATION Spec
CONSTANTS
  NoRow = NoRow
  NoColumn = NoColumn
  Leaves <- MCLeaves
  Statements <- MCStatements
  Facts <- LevelFacts
  Results <- LevelResults
  Holds <- HoldsOf
  Declarations <- MCDeclarations
INVARIANTS
  AtMostOneRow
  FactsHold
  LeafSound
  LeastClosed
  DischargedHolds
CHECK_DEADLOCK FALSE
