SPECIFICATION FaultySpec
CONSTANTS
    a1 = a1  a2 = a2  a3 = a3  d1 = d1  w1 = w1  w2 = w2  k1 = k1
    None = None
    Attempts = {a1, a2}
    Dashboard = {}
    Workers = {w1, w2}
    Keys = {k1}
    Paid = 2
    Asked <- AnyAmount
    ByHand = {1,2}
    MaxLost = 3
    Faults = {"late"}
SYMMETRY RefundSymmetry
INVARIANT FailedMovedNothing
CHECK_DEADLOCK FALSE
