CONSTANTS
  Datasets = {d1}
  Revisions = {r1, r2}
  DefaultRevision = r1
  Requests = {}
  MaxSeq = 2
  ClaimLimit = 2
  MaxAttempts = 2
  MaxFaults = 1
  MaxRepairs = 2
  None = None
SPECIFICATION FairSpec
INVARIANTS TypeOK LaneInvariant
PROPERTIES ImplementsCatalog ExpiredSourceIsNeverNeeded LanesDrain
CHECK_DEADLOCK FALSE
