SPECIFICATION FairSpec
CONSTANTS
  Requests = {r1, r2}
  Statuses = {"completed"}
  NoResult = NoResult
  NoOffset = NoOffset
  Faults = {"kill", "send"}
  MaxRuns = 4
  MaxBackendStops = 1
  MaxWorkerStops = 1
  MaxRequests = 4
  MaxResults = 4
PROPERTIES
  AcceptedIsAnswered
  RestartRedoesLostRequests
