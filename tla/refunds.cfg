SPECIFICATION Spec
CONSTANTS
    a1 = a1  a2 = a2  a3 = a3  d1 = d1  w1 = w1  w2 = w2  k1 = k1
    None = None
    Attempts = {a1, a2}
    Dashboard = {d1}
    Workers = {w1, w2}
    Keys = {k1}
    Paid = 2
    Asked <- PartWithKey
    ByHand = {1}
    MaxLost = 1
    Faults = {"fail"}
SYMMETRY RefundSymmetry
INVARIANTS
    NeverPaysTwice
    KeyPaysOnce
    FailedMovedNothing
    AggregatesMatchRows
    RecordedOnce
    ToldIsRecorded
CHECK_DEADLOCK FALSE
