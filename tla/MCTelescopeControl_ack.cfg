SPECIFICATION Spec
CONSTANTS
  Clients = {c1, c2}
  Circle = 3
  Deltas = {1}
  Ops = {"slew", "status"}
  MountKinds = {{"slew_async", "sync", "tracking"}}
  Faults = {}
  MaxCommands = 2
  MaxKills = 0
SYMMETRY Symmetry
INVARIANT SupportedCommandsAck
