SPECIFICATION SweepSpec
CONSTANTS
  NumGpus = 3
  MaxPort = 3
  Workloads <- MCWorkloads
  CapChoices = {1, 3}
  MaxForeign = 1
  Faults = {"cancel", "trial", "worker", "checkpoint", "progress", "cleanup"}
INVARIANTS
  GpuExclusive
  PortExclusive
  WorkConserving
  NeverStumbles
  SweepConsistent
PROPERTIES
  Terminates
  ImplementsTrialLog
CHECK_DEADLOCK FALSE
