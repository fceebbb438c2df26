SPECIFICATION PaySpec
CONSTANTS
    Orders = {o1, o2}
    Payments = {p1, p2, p3}
    PaySlots = {r1}
    Techs = {}
    Totals <- MCTotals
    Amounts <- MCAmounts
PROPERTY ImplementsLedger
CHECK_DEADLOCK FALSE
