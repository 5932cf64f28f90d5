CONSTANTS
    Calls = {c1, c2}
    c1 = c1
    c2 = c2
    KeyOf <- OwnKeys
    Rail <- AllRecon
    Twins <- TwinPair
    Triggers = {"sweep", "prompt"}
    Finalizers = {f1}
    Orders = {o1, o2}
    NoOrder = NoOrder
    Funds = 2
SPECIFICATION Spec
INVARIANTS RefundedAtMostOnce
CHECK_DEADLOCK FALSE
