SPECIFICATION Spec
CONSTANTS
  RelationOrder <- MCRelationOrder
  ColumnOrder <- MCColumnOrder
  Source <- MCSource
  Nulls <- MCNulls
  Label = "sad"
  Types = {"int", "text", "mood"}
  Changes = {"generated", "part", "add_table"}
  MaxEdits = 3
INVARIANT DropsWhatBlocks
CHECK_DEADLOCK FALSE
