SPECIFICATION LoopSpec
CONSTANTS
  Nodes = {n1}
  Cap = 2
  MaxEnqueues = 3
  MaxFaults = 1
  MaxBoots = 1
  Notices = {v1, v2}
  Receivers = {e1}
  BatchSize = 1
  WebhookAttempts = 2
  MaxEdits = 1
  MaxTroubles = 2
  Clients = {c1}
  NoClient = NoClient
  Deployed = c1
  Operators = {o1}
  Passes = {p1}
  MaxNow = 6
  MaxFlows = 1
  MaxMishaps = 1
  JobCap = 2
  MaxPuts = 2
  MaxUnluck = 1
  Batches = {b1}
  Hosts = {h1, h2}
  NoJob = NoJob
  MaxMischance = 1
PROPERTIES BuffersDrain EveryDeliverySettles EveryDeploymentAnswered SwitchedOutComesBack BatchesEnd
CHECK_DEADLOCK FALSE
