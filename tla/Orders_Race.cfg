SPECIFICATION OrderSpec
CONSTANTS
    Orders = {o1, o2}
    Payments = {}
    OrderSlots = {s1, s2}
    Techs = {}
    Totals <- MCTotals
    Amounts = {}
CHECK_DEADLOCK FALSE
INVARIANTS
    OrderTypeOK
    StatusEarned
PROPERTY OnlyOnward
SYMMETRY MCSymmetry
