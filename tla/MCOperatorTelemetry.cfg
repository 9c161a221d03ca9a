SPECIFICATION FairSpec
CONSTANTS
  Sockets <- MCSockets
  Pollers = {p1}
  OldRecords <- MCOldRecords
  Snapshots <- MCSnapshots
  Disabled = Disabled
  None = None
  MaxNew = 2
INVARIANTS
  TypeOK
  StatusIsSound
  PrimarySettles
  PageInControl
PROPERTIES
  StreamSurvives
  SessionEnds
