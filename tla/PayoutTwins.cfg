CONSTANTS
    Payouts = {p1, p2}
    Runs = {r1, r2}
    Null = Null
    Funds = 2
SPECIFICATION Spec
INVARIANTS OwnRecord
CHECK_DEADLOCK FALSE
