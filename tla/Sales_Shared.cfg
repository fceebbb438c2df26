SPECIFICATION Spec
CONSTANTS
    Orders = {o1}
    Payments = {p1}
    PaySlots = {r1, r2}
    OrderSlots = {s1, s2}
    Techs = {t1}
    Totals <- MCTotals
    Amounts <- MCAmounts
CHECK_DEADLOCK FALSE
INVARIANTS
    PaymentHasOrder
    OpenRefundKeepsItsRows
    StatusEarned
PROPERTY OnlyOnward
SYMMETRY MCSymmetry
