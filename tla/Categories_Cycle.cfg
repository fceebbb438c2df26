SPECIFICATION CatsSpec
CONSTANTS
    Requests = {r1}
    CategoryIds = {k1, k2, k3}
    Names = {n1, n2}
INVARIANT NoCycle
CHECK_DEADLOCK FALSE
