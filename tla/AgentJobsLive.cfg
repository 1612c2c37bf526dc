SPECIFICATION FairSpec
CONSTANTS
  RefreshJobs = {}
  ClientJobs = {j1}
  DefaultJobs = {d1}
  QueueCapacity = 1
  OutboundCapacity = 1
  Retention = 1
  MaxTime = 1
  MaxRestarts = 0
PROPERTIES TeardownEnds LanesIsolated
