SPECIFICATION SweepSpec
CONSTANTS
  NumGpus = 2
  MaxPort = 2
  Workloads <- MCPairs
  CapChoices = {2}
  MaxForeign = 0
  Faults = {"cancel"}
INVARIANTS
  EveryCompletedTrialReported
CHECK_DEADLOCK FALSE
