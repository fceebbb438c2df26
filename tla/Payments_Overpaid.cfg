SPECIFICATION PaySpec
CONSTANTS
    Orders = {o1}
    Payments = {p1, p2}
    PaySlots = {r1, r2}
    Techs = {}
    Totals <- MCTotals
    Amounts <- MCAmounts
INVARIANT GrossWithinTotal
CHECK_DEADLOCK FALSE
