SPECIFICATION FairSpec
CONSTANTS
  Clients = {c1, c2}
  Workers = 2
  Configs <- MCConfigs
  Requests <- MCRequests
  None = None
  MaxAbandoned = 2
INVARIANTS
  TypeOK
  ContextDegrades
  PoolServesWaiting
PROPERTIES
  RequestsEnd
