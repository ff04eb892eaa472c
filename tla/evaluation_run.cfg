SPECIFICATION RunSpec
CONSTANTS
  TrialCount = 3
  Scores = {1, 2}
  RunFaults = {"cancel", "crash", "preflight", "trial", "worker", "io", "install", "clock", "leaderboard", "output"}
INVARIANTS
  WinnerIsBest
  FinalUnlessNotWritten
  RunConsistent
PROPERTIES
  CancellationHeeded
  ImplementsRecord
  ImplementsTrialLog
CHECK_DEADLOCK FALSE
