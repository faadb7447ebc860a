SPECIFICATION Spec
CONSTANTS
    o1 = o1  o2 = o2  w1 = w1  w2 = w2
    None = None
    Orders = {o1}
    Workers = {w1, w2}
    Method <- AllCod
    Supply = 1
    MaxRetries = 0
    Requests = {"checkout", "book", "recall", "scan", "track"}
    Pushes <- LaterScans
    ReplayLimit = 1
    MayFail = FALSE
SYMMETRY WorkerSymmetry
INVARIANTS
    ProcessedMeansApplied
    DeliveredCodIsPaid
CHECK_DEADLOCK FALSE
