SPECIFICATION FairSpec
CONSTANTS
  t = t
  u = u
  v1 = v1
  v2 = v2
  v3 = v3
  None = None
  Runs = {r1, r2}
  Objects <- MCObjects
  Versions <- MCVersions
  TypeOf <- MCTypeOf
  Starts <- MCStart
  Targets <- MCNext
  Files <- MCCrossing
  Flags <- MCTransactions
  Consumers <- MCNoCode
  Seeds = {u}
  Recreated = {}
  Undroppable = {}
  Engine = "postgres"
  MaxCommands = 2
  MaxFaults = 1
  MaxEdits = 1
INVARIANTS
  TypeOK
  AsJudged
PROPERTIES
  AtomicSpec
  Terminates
CHECK_DEADLOCK FALSE
