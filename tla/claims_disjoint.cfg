CONSTANTS
  Datasets = {d1}
  Revisions = {r1}
  DefaultRevision = r1
  Requests = {q1}
  MaxSeq = 2
  ClaimLimit = 2
  MaxAttempts = 2
  MaxFaults = 0
  MaxRepairs = 1
  None = None
SPECIFICATION Spec
INVARIANT ClaimsStayDisjoint
CHECK_DEADLOCK FALSE
