SPECIFICATION Spec
CONSTANTS
    Nothing = Nothing
    Modes = {"trial", "check", "serve"}
    Faults = {"dir", "plan", "progress", "spawn", "poll", "stop", "process", "cleanup",
              "metrics", "collect", "artifacts", "persist"}
CHECK_DEADLOCK FALSE
INVARIANTS
    MeasuredTheEngine
    NoEngineLeft
    CheckIsReported
    Consistent
PROPERTIES
    FirstFailureStands
    ComesToItsEnd
