SPECIFICATION Spec
CONSTANTS
  Agents = {a1}
  Keys = {k1, k2}
  Groups = {g1}
  NoKey = NoKey
  NoGroup = NoGroup
  Callers = {c1, c2}
  Enqueuers = {c1, c2}
  Dispatchers = {c1}
  Receivers = {c1}
  TTLs = {0}
  RetryAfter = 1
  AckTTL = 0
  KeyTTL = 1
  Retention = 0
  CallLag = 1
  ListLimit = 9
  Second = 1
  MaxJobs = 2
  MaxTime = 2
  MaxRestarts = 1
  MaxFailures = 0
INVARIANTS StaleSiblingsAreLate KeyOwnership
SYMMETRY Symmetry
CHECK_DEADLOCK FALSE
