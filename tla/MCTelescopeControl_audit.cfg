SPECIFICATION Spec
CONSTANTS
  Clients = {c1, c2}
  Circle = 3
  Deltas = {1}
  Ops = {"slew"}
  MountKinds = {{"slew_async", "sync", "tracking"}}
  Faults = {"timeout"}
  MaxCommands = 1
  MaxKills = 0
SYMMETRY Symmetry
INVARIANT AuditIsComplete
