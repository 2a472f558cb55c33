CONSTANTS
  Datasets = {d1}
  Revisions = {r1}
  DefaultRevision = r1
  Requests = {}
  MaxSeq = 1
  ClaimLimit = 2
  MaxAttempts = 2
  MaxFaults = 2
  MaxRepairs = 0
  None = None
SPECIFICATION Spec
INVARIANT AttemptsBounded
CHECK_DEADLOCK FALSE
