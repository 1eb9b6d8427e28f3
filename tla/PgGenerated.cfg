SPECIFICATION Spec
CONSTANTS
  RelationOrder <- MCRelationOrder
  ColumnOrder <- MCColumnOrder
  Source <- MCSource
  Nulls <- MCNulls
  Label = "sad"
  Types = {"int", "text", "mood"}
  Changes = {"generated", "null"}
  MaxEdits = 2
INVARIANTS RewriteRestores LossIsAnnounced BackfillsFit
CHECK_DEADLOCK FALSE
