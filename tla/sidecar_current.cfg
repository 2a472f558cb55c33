CONSTANTS
  Rows = {1, 2, 3}
  InitialRows = {1, 3}
  ExpiredRows = {3}
  MaxWrites = 2
  ReplanBudget = 2
  CLUSTER_READ_SHARDS = 2
  MaxStaleReplans = 2
  MaxIndexDeltas = 1
  FragmentsPerTask = 2
  FtsMaxUnindexed = 1
  VectorMinRows = 1
  RetrainGrowthFactor = 1
  IndexKinds = {"vector"}
  MaxRuns = 3
SPECIFICATION JobsSpec
INVARIANT SidecarIsCurrent
CHECK_DEADLOCK FALSE
