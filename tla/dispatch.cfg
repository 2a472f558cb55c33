SPECIFICATION DispatchSpec
CONSTANTS
  Processes = {p1, p2}
  Datasets = {d1, d2}
  Nobody = nobody
  BatchSize = 2
  MaxDrains = 2
  LeaseDuration = 3
  Heartbeat = 1
  MaxRetryDelay = 1
  MaxAttempts = 2
  MaxFaults = 2
INVARIANTS HeartbeatKeepsLease
PROPERTIES WorkSettles
CHECK_DEADLOCK FALSE
