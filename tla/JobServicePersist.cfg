SPECIFICATION Spec
CONSTANTS
  Agents = {a1}
  Keys = {k1}
  Groups = {}
  NoKey = NoKey
  NoGroup = NoGroup
  Callers = {c1, c2}
  Enqueuers = {c1}
  Dispatchers = {c1}
  Receivers = {c2}
  TTLs = {1}
  RetryAfter = 1
  AckTTL = 1
  KeyTTL = 1
  Retention = 1
  CallLag = 0
  ListLimit = 9
  Second = 2
  MaxJobs = 1
  MaxTime = 5
  MaxRestarts = 1
  MaxFailures = 1
INVARIANTS TypeOK StoreCatchesUp
PROPERTIES FinishedStaysFinished
CHECK_DEADLOCK FALSE
