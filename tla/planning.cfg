CONSTANTS
  Planners = {p1, p2}
  Kinds = {"append", "bulk"}
  RootKinds = {"stated", "conflict"}
  Formats = {1, 2}
  Baselines = {1}
  MaxSnapshots = 3
  MaxPlan = 1
  MaxEvents = 1
  MaxRepairs = 1
  MAX_MANIFEST_FACTS_PER_SNAPSHOT = 1
SPECIFICATION FairSpec
INVARIANTS TypeOK SealedLineage RejectedIncrementIsReal
PROPERTIES OvertakenPlansWriteNothing PlanningConverges
CHECK_DEADLOCK FALSE
