SPECIFICATION Spec
CONSTANTS
  Requests = {r1}
  Statuses = {"completed"}
  NoResult = NoResult
  NoOffset = NoOffset
  Faults = {"mongo"}
  MaxRuns = 1
  MaxBackendStops = 0
  MaxWorkerStops = 0
  MaxRequests = 4
  MaxResults = 4
INVARIANT TransientErrorsRetried
