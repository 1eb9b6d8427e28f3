SPECIFICATION Spec
CONSTANTS
  RelationOrder <- MCRelationOrder
  ColumnOrder <- MCColumnOrder
  Source <- MCSource
  Nulls <- MCNulls
  Label = "sad"
  Types = {"int", "text", "mood"}
  Changes = {"drop_column", "view", "retype", "part"}
  MaxEdits = 2
INVARIANTS DependentsFirst PoliciesGoAround
CHECK_DEADLOCK FALSE
