\* Two callers and a pool of two connections with AfterConnect; the type is recreated once.
CONSTANTS
  Callers = {u1, u2}
  Conns = {c1, c2}
  Pooled = TRUE
  AfterConnect = TRUE
  Scanned = TRUE
  MaxOid = 2
  MaxExecs = 5
  None = None
SPECIFICATION FairSpec
INVARIANTS KeepsWorking
CHECK_DEADLOCK FALSE
