SPECIFICATION Spec
CONSTANTS
    Leader = leader
    Descendants = {d1}
    Faults = {}
CHECK_DEADLOCK FALSE
PROPERTIES
    StagesAreBounded
