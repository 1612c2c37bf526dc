SPECIFICATION CertSpec
CONSTANTS
  Lifetime = 3
  RenewWindow = 1
  OverlapMax = 2
  MaxTime = 6
  MaxIssued = 4
  MaxGrants = 1
  MaxSwitches = 1
  MaxSlips = 2
INVARIANTS NeverStranded
CHECK_DEADLOCK FALSE
