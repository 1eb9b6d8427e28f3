SPECIFICATION FairSpec
CONSTANTS
  MaxQueued = 5
INVARIANTS HandlesTell ServerErrorUndoes
PROPERTIES KeepsPromise SendReturns
CHECK_DEADLOCK FALSE
