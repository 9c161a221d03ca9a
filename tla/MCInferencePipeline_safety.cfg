SPECIFICATION Spec
CONSTANTS
  Requests = {r1, r2}
  Statuses = {"completed"}
  NoResult = NoResult
  NoOffset = NoOffset
  Faults = {"mongo", "send", "expire", "duplicate", "kill"}
  MaxRuns = 3
  MaxBackendStops = 2
  MaxWorkerStops = 1
  MaxRequests = 2
  MaxResults = 4
SYMMETRY Symmetry
CONSTRAINT TopicsBounded
INVARIANTS
  TypeOK
  ResultsBelongToRequests
  NewestHandledIsStored
  CommitAtMostOneAhead
  RerunsStayInOrder
PROPERTY KeepsLedger
