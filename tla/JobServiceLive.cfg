SPECIFICATION FairSpec
CONSTANTS
  Agents = {a1}
  Keys = {k1}
  Groups = {}
  NoKey = NoKey
  NoGroup = NoGroup
  Callers = {c1, c2}
  Enqueuers = {c1}
  Dispatchers = {c2}
  Receivers = {c1}
  TTLs = {1}
  RetryAfter = 1
  AckTTL = 0
  KeyTTL = 0
  Retention = 0
  CallLag = 0
  ListLimit = 9
  Second = 1
  MaxJobs = 1
  MaxTime = 3
  MaxRestarts = 1
  MaxFailures = 0
PROPERTIES ExpiryHappens QueuedIsSent
CHECK_DEADLOCK FALSE
