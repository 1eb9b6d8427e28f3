SPECIFICATION Spec
CONSTANTS
  t = t
  u = u
  v1 = v1
  v2 = v2
  v3 = v3
  None = None
  Runs = {r1}
  Objects <- MCObjects
  Versions <- MCMoreVersions
  TypeOf <- MCMoreTypes
  Starts <- MCStart
  Targets <- MCTargets
  Files <- MCFiles
  Flags <- MCPlain
  Consumers <- MCNoCode
  Seeds = {}
  Recreated = {u}
  Undroppable = {u}
  Engine = "mysql"
  MaxCommands = 1
  MaxFaults = 1
  MaxEdits = 0
INVARIANTS
  SaysWhatRan
  RefusedByVerdict
CHECK_DEADLOCK FALSE
