CONSTANTS
  Datasets = {d1, d2}
  Revisions = {r1}
  DefaultRevision = r1
  Requests = {q1}
  MaxSeq = 2
  ClaimLimit = 2
  MaxAttempts = 2
  MaxFaults = 2
  MaxRepairs = 2
  None = None
SPECIFICATION FleetSpec
SYMMETRY Symmetry
INVARIANTS AtMostOneOwner AppliedPrefix ServesExactly PublishedIsPinned SnapshotCompletion
CHECK_DEADLOCK FALSE
