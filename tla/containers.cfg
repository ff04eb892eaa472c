SPECIFICATION Spec
CONSTANTS
    r1 = r1
    r2 = r2
    Trials <- MCTrials
    Faults = {"rm", "list"}
INVARIANTS
    CleanupKeepsItsWord
    Consistent
