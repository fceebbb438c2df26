SPECIFICATION Spec
CONSTANTS
    Orders = {o1}
    Payments = {p1}
    PaySlots = {r1}
    OrderSlots = {s1}
    Techs = {t1}
    Totals <- MCTotals
    Amounts <- MCAmounts
CHECK_DEADLOCK FALSE
PROPERTY PaymentsStay
