\* One caller and a connection of its own that has not met the type; it is recreated once.
CONSTANTS
  Callers = {u1}
  Conns = {u1}
  Pooled = FALSE
  AfterConnect = FALSE
  Scanned = FALSE
  MaxOid = 2
  MaxExecs = 5
  None = None
SPECIFICATION FairSpec
INVARIANTS OneExecution TypesLoaded
CHECK_DEADLOCK FALSE
