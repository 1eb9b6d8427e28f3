\* Two callers on connections of their own; the type is recreated once.
CONSTANTS
  Callers = {u1, u2}
  Conns = {u1, u2}
  Pooled = FALSE
  AfterConnect = FALSE
  Scanned = TRUE
  MaxOid = 2
  MaxExecs = 5
  None = None
SPECIFICATION FairSpec
INVARIANTS ScannerGetsText KeepsWorking OnceWhenReady
PROPERTIES EveryRunEnds
CHECK_DEADLOCK FALSE
