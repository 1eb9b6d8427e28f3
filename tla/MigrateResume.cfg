SPECIFICATION Spec
CONSTANTS
  t = t
  u = u
  v1 = v1
  v2 = v2
  v3 = v3
  None = None
  Runs = {r1}
  Objects <- MCObjects
  Versions <- MCMoreVersions
  TypeOf <- MCMoreTypes
  Starts <- MCStart
  Targets <- MCTargets
  Files <- MCFiles
  Flags <- MCChecks
  Consumers <- MCCode
  Seeds = {}
  Recreated = {u}
  Undroppable = {u}
  Engine = "mysql"
  MaxCommands = 4
  MaxFaults = 1
  MaxEdits = 1
INVARIANTS
  ReportsWhatRan
  AppliedIsTarget
  PlanAccepted
  ConsumersKept
CHECK_DEADLOCK FALSE
