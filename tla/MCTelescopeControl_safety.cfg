SPECIFICATION Spec
CONSTANTS
  Clients = {c1, c2}
  Circle = 3
  Deltas = {1}
  Ops = {"slew", "sync", "tracking", "nudge", "read", "status"}
  MountKinds = {{"slew_async", "sync", "tracking"}, {"slew"}, {}}
  Faults = {"connect", "call", "timeout", "disconnect", "kafka", "mongo"}
  MaxCommands = 2
  MaxKills = 1
SYMMETRY Symmetry
INVARIANTS
  TypeOK
  RecordsAreTrue
  AcknowledgedIsRecorded
  SlewIsComplete
  SoloKeepsConnection
  DisconnectedWhenQuiet
PROPERTY KeepsLedger
