SPECIFICATION Spec
CONSTANTS
    c1 = c1  c2 = c2  c3 = c3  v1 = v1  v2 = v2  v3 = v3  f1 = f1  p1 = p1
    None = None
    Asks = {c1, c2}
    Checks = {v1, v2}
    Forms = {f1}
    Phones = {p1}
    OldAccounts <- NoneOrOne
    FormNumbers = {None}
    Expiry = 4
    Cooldown = 1
    Window = 3
    Quota = 1
    IpWindow = 2
    IpQuota = 2
    MaxAttempts = 1
    Retention = 3
    MaxTime = 4
    MaxWait = 1
    MaxCrashes = 1
    MaxClosing = 1
SYMMETRY SignInSymmetry
INVARIANTS
    OneLiveCode
    DailyQuota
    CodeSignsInOnce
    SameAccount
PROPERTY ReplacedNeverSignsIn
CHECK_DEADLOCK FALSE
