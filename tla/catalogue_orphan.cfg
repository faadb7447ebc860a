SPECIFICATION Spec
CONSTANTS
    w1 = w1  w2 = w2  o1 = o1  o2 = o2  p1 = p1  p2 = p2  p3 = p3
    t1 = t1  t2 = t2  lips = lips  care = care
    None = None
    Workers = {w1, w2}
    Orders = {o1, o2}
    Item <- SameItem
    Seed <- OneLegacyProduct
    Fresh = {p3}
    Types = {t1, t2}
    Names = {lips, care}
    FirstTypes <- TwoTypes
    Requests = {"create", "update", "removeType", "content"}
    Entered = {1}
    ColdStart = FALSE
    MaxEvents = 2
INVARIANTS
    EveryProductResolves
CHECK_DEADLOCK FALSE
