SPECIFICATION DeltaWorkersFairSpec
CONSTANTS
  File = {f1, f2}
  Plan <- MCPlan
  Workers = 2
INVARIANT
  OneReferenceAtATime
CHECK_DEADLOCK FALSE
