SPECIFICATION PayFairSpec
CONSTANTS
    Orders = {o1}
    Payments = {p1, p2}
    PaySlots = {r1, r2}
    Techs = {}
    Totals <- MCTotals
    Amounts <- MCAmounts
INVARIANTS
    RefundWithinPayment
    StatusTellsPaid
    RecordedRefundsMade
PROPERTY RequestsEnd
CHECK_DEADLOCK FALSE
