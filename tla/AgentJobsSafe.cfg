SPECIFICATION Spec
CONSTANTS
  RefreshJobs = {r1, r2}
  ClientJobs = {}
  DefaultJobs = {}
  QueueCapacity = 1
  OutboundCapacity = 1
  Retention = 1
  MaxTime = 3
  MaxRestarts = 1
SYMMETRY Symmetry
INVARIANTS TypeOK NoLeakedReservation QueuedOnce
PROPERTIES RunsOnce
