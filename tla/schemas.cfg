SPECIFICATION Spec
CONSTANTS
    Writers = {p1, p2}
    Contents = {c1, c2}
    Tag = tag
    Dests <- MCDests
    Temps = {t1, t2}
    Attempts = 2
    Old = old
    Absent = absent
    Backends = {"docker", "in_container"}
    MaxOutages = 1
    DockerFails = TRUE
    IoFaults = {"create", "write", "rename", "syncdir"}
SYMMETRY Symmetries
INVARIANTS
    ValidatedWhatRuns
    NeverTorn
    Consistent
PROPERTIES
    ImplementsRegister
