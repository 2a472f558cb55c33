CONSTANTS
  Datasets = {d1}
  Revisions = {r1, r2}
  DefaultRevision = r1
  Requests = {}
  MaxSeq = 2
  ClaimLimit = 2
  MaxAttempts = 2
  MaxFaults = 0
  MaxRepairs = 1
  None = None
SPECIFICATION Spec
PROPERTY ClaimRefreezesRevision
CHECK_DEADLOCK FALSE
