SPECIFICATION Spec
CONSTANTS
    o1 = o1  o2 = o2  w1 = w1  w2 = w2  w3 = w3
    None = None
    Orders = {o1}
    Workers = {w1, w2, w3}
    Limit = 5
    MaxVans = 3
    Faults = {"crash", "pickupTimeout"}
SYMMETRY BookingSymmetry
INVARIANTS
    TypeOK
    OneParcelPerOrder
    ParcelIsOnRecord
    AwbMeansParcel
    CancelledIsCancelled
    OneVanPerDay
CHECK_DEADLOCK FALSE
