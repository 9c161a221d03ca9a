SPECIFICATION SmokeSpec
CONSTANTS
  Clients = {c1, c2}
  Circle = 2
  Deltas = {1}
  Ops = {"slew", "sync", "tracking", "status"}
  MountKinds = {{"slew_async", "slew", "sync", "tracking"}, {"slew_async", "tracking"}}
  Faults = {}
  MaxCommands = 8
  MaxKills = 0
  Setups <- MCSetups
  Target = 1
  MaxMishaps = 1
  MaxOthers = 1
SYMMETRY Symmetry
INVARIANTS
  SmokeTypeOK
  MotionIsAuthorized
  PassedInOrder
  GreenRunIsClean
  PlanIsSafe
  FirstFailureHasCause
