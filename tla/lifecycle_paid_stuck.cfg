SPECIFICATION Spec
CONSTANTS
    o1 = o1  o2 = o2  w1 = w1  w2 = w2
    None = None
    Orders = {o1}
    Workers = {w1}
    Method <- AllOnline
    Supply = 1
    MaxRetries = 0
    Requests = {"checkout", "captured", "replay"}
    Pushes <- Scans
    ReplayLimit = 1
    MayFail = TRUE
INVARIANTS
    ProcessedMeansApplied
CHECK_DEADLOCK FALSE
