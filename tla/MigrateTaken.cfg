SPECIFICATION Spec
CONSTANTS
  t = t
  u = u
  v1 = v1
  v2 = v2
  v3 = v3
  None = None
  Runs = {r1, r2}
  Objects <- MCObjects
  Versions <- MCVersions
  TypeOf <- MCTypeOf
  Starts <- MCStart
  Targets <- MCNext
  Files <- MCAgain
  Flags <- MCTransactions
  Consumers <- MCNoCode
  Seeds = {}
  Recreated = {}
  Undroppable = {}
  Engine = "postgres"
  MaxCommands = 2
  MaxFaults = 0
  MaxEdits = 0
INVARIANTS
  TakenStepRefused
CHECK_DEADLOCK FALSE
