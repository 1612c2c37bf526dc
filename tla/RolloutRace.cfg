SPECIFICATION RolloutSpec
CONSTANTS
  Batches = {b1}
  Hosts = {h1}
  NoJob = NoJob
  MaxMischance = 0
INVARIANT FailedIsTrue
CHECK_DEADLOCK FALSE
