SPECIFICATION SwitchSpec
CONSTANTS
  JobCap = 2
  MaxPuts = 1
  MaxUnluck = 0
INVARIANTS SwitchHasSafetyNet
CHECK_DEADLOCK FALSE
