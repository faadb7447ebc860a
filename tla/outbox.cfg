SPECIFICATION FairSpec
CONSTANTS
    shipped = shipped
    inapp = inapp  email = email
    None = None
    Deliveries = {inapp, email}
    EventOf <- TwoChannels
    Callers = {c1, c2}
    Workers = {w1, w2}
    MAX_ATTEMPTS = 2
    MaxCrashes = 1
    Slow = FALSE
INVARIANTS
    EventHasDeliveries
    OneSender
PROPERTIES
    KeepsPromise
CHECK_DEADLOCK FALSE
