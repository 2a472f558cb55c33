CONSTANTS
  Planners = {p1}
  Kinds = {"append"}
  RootKinds = {"append"}
  Formats = {1}
  Baselines = {1}
  MaxSnapshots = 2
  MaxPlan = 1
  MaxEvents = 0
  MaxRepairs = 0
  MAX_MANIFEST_FACTS_PER_SNAPSHOT = 1
SPECIFICATION FairSpec
PROPERTY RejectionsAreRecorded
CHECK_DEADLOCK FALSE
