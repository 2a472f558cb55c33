CONSTANTS
  Rows = {1, 2, 3}
  InitialRows = {1, 3}
  ExpiredRows = {3}
  MaxWrites = 2
  ReplanBudget = 2
  CLUSTER_READ_SHARDS = 2
  MaxStaleReplans = 2
  MaxIndexDeltas = 1
  FragmentsPerTask = 2
  FtsMaxUnindexed = 1
  VectorMinRows = 1
  RetrainGrowthFactor = 1
  IndexKinds = {"vector", "btree", "fts"}
  MaxRuns = 3
  MaxPublications = 3
  RetainedCount <- MCRetainedCount
  Grace <- MCGrace
  AuditRetention = 1
  CleanupBatch = 1
  Sweepers = {s1, s2}
  Skew = 0
  MaxClock = 2
  Sessions = {t1, t2}
  SpecOf <- MCSpecOf
  SeedRevision = 1
  Free = free
  MaxPointer = 2
  Null = null
  Malformed = {"1st"}
  INTEGER_MAX = 1000000
  BIGINT_MAX = 3000000
  FieldEdits <- MCFieldEdits
  IndexEdits <- MCIndexEdits
  RevisionEdits <- MCRevisionEdits
  MaxEdits = 2
  Keys = {1, 2, 3}
  PartitionOf <- MCPartitionOf
  SourceRows <- MCSourceRows
  Dimension = 4
  RowBytes <- MCRowBytes
  extra_seconds = 1
  Cutoffs = {2}
  MaxChunkRows = 2
  MaxChunkBytes = 3
  MaxWindows = 2
  MaxAttemptsMade = 3
  Snapshots = {n1, n2, n3, n4}
  MaxLimit = 1
  None = none
  Partitions = 2
  ChunkRows = 3
  Tables <- MCTables
  ShardSignature <- MCShardSignature
  Caps = {1, 2}
  MaxFailures = 1
  Targets = {"a"}
  SnapshotIds = {1, 2}
  SpecIds = {1, 2}
  Hours = {1, 2}
  MAX_MANIFEST_FACTS_PER_SNAPSHOT = 2
  Inspected <- MCInspected
  Datasets = {d1, d2, d3}
  MaxGates = 3
  MaxAborts = 2
  Nobody = Nobody
SPECIFICATION ComponentsSpec
INVARIANTS
  JobsKeepRows StampIsTruthful ReportedDeletes OneModel BuiltMeansCovered
  RetainedStayIntact ReaderHasGrace NothingLeaks
  OneActiveRevision PreparedDraftsPersist MarkedTableIsComplete NoFalseConflict
  NoDocumentTwice RetainsTheTail
  AcceptedWindowsOnlyAdd CleanAppendsAccepted EveryRowRoutedOnce WrittenInPartitionOrder BucketsBounded
  NeverEarly CompletionWitness
PROPERTIES AssignedWhileActive GateHolds
CHECK_DEADLOCK FALSE
