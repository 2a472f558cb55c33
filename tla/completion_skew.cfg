CONSTANTS
  Datasets = {d1, d2}
  MaxGates = 0
  MaxAborts = 0
  Nobody = Nobody
SPECIFICATION Spec
INVARIANT CompletedOnceApplied
CHECK_DEADLOCK FALSE
