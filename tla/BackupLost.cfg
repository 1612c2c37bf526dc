SPECIFICATION UpdateSpec
CONSTANTS
  Releases = 2
  MaxUpdates = 2
  MaxBadLuck = 1
INVARIANT LastGoodSurvives
CHECK_DEADLOCK FALSE
