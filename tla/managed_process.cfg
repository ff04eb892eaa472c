SPECIFICATION Spec
CONSTANTS
    Leader = leader
    Descendants = {d1}
    Faults = {"spawn", "poll", "signal", "drain", "secret"}
CHECK_DEADLOCK FALSE
INVARIANTS
    NobodyHoldsOn
    OkIsOwnExit
PROPERTIES
    StopsUnlessHeld
