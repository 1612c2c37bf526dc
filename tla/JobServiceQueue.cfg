SPECIFICATION Spec
CONSTANTS
  Agents = {a1}
  Keys = {k1, k2}
  Groups = {g1}
  NoKey = NoKey
  NoGroup = NoGroup
  Callers = {c1}
  Enqueuers = {c1}
  Dispatchers = {c1}
  Receivers = {c1}
  TTLs = {1}
  RetryAfter = 1
  AckTTL = 1
  KeyTTL = 1
  Retention = 0
  CallLag = 1
  ListLimit = 1
  Second = 1
  MaxJobs = 2
  MaxTime = 3
  MaxRestarts = 1
  MaxFailures = 0
SYMMETRY Symmetry
INVARIANTS WatermarkSound IndexExact
PROPERTIES RestartKeepsLiveJobs DispatchWithinTTL
CHECK_DEADLOCK FALSE
