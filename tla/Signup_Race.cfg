SPECIFICATION SignupSpec
CONSTANTS
    Tenants = {t1, t2}
    Emails = {e1, e2}
    Slugs = {g1, g2}
    Workers = {w1}
    MaxAttempts = 1
    MaxStalls = 1
    MaxCrashes = 0
    Kinds = {"register", "create"}
INVARIANTS
    QueuedIsRegistered
    ActiveUserHasHome
SYMMETRY MCSymmetry
CHECK_DEADLOCK FALSE
