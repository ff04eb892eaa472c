SPECIFICATION Spec
CONSTANTS
    a = a
    b = b
    Ids = {a, b}
    Null = Null
    Lines <- SessionLines
    MaxPending = 1
    MaxLines = 4
    MaxCancels = 1
INVARIANTS
    CancellationsReachTheirCall
    EveryRequestAnsweredInOrder
    SignalStopsWriting
    ServerConsistent
PROPERTIES
    RequestsAreAnswered
