SPECIFICATION Spec
CONSTANTS
  RelationOrder <- MCRelationOrder
  ColumnOrder <- MCColumnOrder
  Source <- MCSource
  Nulls <- MCNulls
  Label = "sad"
  Types = {"int", "text", "mood"}
  Changes = {"drop_column", "retype", "null", "rename_column", "rename_table", "drop_table", "add_column", "add_table", "part", "view", "label", "generated"}
  MaxEdits = 2
INVARIANTS Reached LossIsDeclared StaleAreErrors DropsDeclared NothingElseBlocks
CHECK_DEADLOCK FALSE
