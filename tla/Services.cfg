SPECIFICATION ServicesSpec
CONSTANTS
    Requests = {r1, r2, r3}
    Values2 = {n1, n2}
    Values3 = {k1, k2, k3}
    Companies = {c1, c2}
    Registered = {c1}
    Accounts = {a1}
    LockAt = 2
    Modules = {n1, n2}
    Members = {k1, k2, k3}
    Admins = {n1, n2}
    Roles = {o1}
    MaxUsers = 2
    CategoryIds = {k1, k2, k3}
    Names = {n1, n2}
    Products = {p1, p2}
    Variants = {v1}
    StockMin = 1
    MaxStock = 2
    Banks = {n1, n2}
    Contacts = {k1, k2, k3}
    CustomerIds = {n1, n2}
    People = {n1, n2}
    Mails = {n1, n2}
    Earlier = {e1}
    MaxMonthly = 1
    Plans = {n1, n2}
    MaxPrice = 1
INVARIANTS
    ServicesTypeOK
    ClientsAreOpen
    LockEarned
    StockFollowsMovements
    OnePrimary
    MailsDiffer
    SettledRowIsOne
PROPERTIES
    EndedStays
    SoloAgrees
    SoloCounts
    SoloNameIsFree
    SoloCheckAlerts
    SoloSendCounts
    OnlyCancelledGo
    SoloBillIsRight
SYMMETRY MCSymmetry
CHECK_DEADLOCK FALSE
