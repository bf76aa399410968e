SPECIFICATION DeltaWorkersFairSpec
CONSTANTS
  File = {f1, f2}
  Plan <- MCPlan
  Workers = 2
INVARIANTS
  UsesMapped
  ResultsTheirOwn
  MappingsBounded
PROPERTY
  Returns
CHECK_DEADLOCK FALSE
