SPECIFICATION PanelSpec
CONSTANTS
  Nodes = {n1}
  Cap = 2
  MaxEnqueues = 4
  MaxFaults = 1
  MaxBoots = 1
  AuditCap = 2
  MaxEvents = 3
  MaxWriters = 2
  MaxAuditFaults = 2
  MaxAuditBoots = 1
  Notices = {v1}
  Receivers = {e1, e2}
  BatchSize = 1
  WebhookAttempts = 2
  MaxEdits = 1
  MaxTroubles = 2
  QueueCap = 2
  MaxBytes = 2
  MaxStreams = 2
  MaxUpsets = 2
  Clients = {c1, c2}
  NoClient = NoClient
  Deployed = c1
  Operators = {o1, o2}
  Passes = {p1}
  MaxNow = 3
  MaxFlows = 2
  MaxMishaps = 1
  Lifetime = 3
  RenewWindow = 1
  OverlapMax = 2
  MaxTime = 5
  MaxIssued = 4
  MaxGrants = 1
  MaxSwitches = 1
  MaxSlips = 2
  JobCap = 2
  MaxPuts = 2
  MaxUnluck = 2
  Batches = {b1, b2}
  Hosts = {h1}
  NoJob = NoJob
  MaxMischance = 1
  Releases = 3
  MaxUpdates = 3
  MaxBadLuck = 2
INVARIANTS PanelTypeOK FallbackOrder NoSilentLoss NeighboursLink DeadIsEarned ChargedOnce LostReportsCatchUp SucceededIsTrue HeldStaysUsable FallbackIsProven BatchSucceededIsApplied LostIsTrue WorkingBinaryKept EndsInstalled
PROPERTIES GoneStaysGone AtLeastOnce PresenterNeverEvicted
CHECK_DEADLOCK FALSE
