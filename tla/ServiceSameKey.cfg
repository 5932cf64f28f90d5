CONSTANTS
    Calls = {c1, c2}
    c1 = c1
    c2 = c2
    KeyOf <- SameKey
    Rail <- AllRecon
    Twins <- NoTwins
    Triggers = {"sweep"}
    Finalizers = {f1}
    Orders = {o1, o2}
    NoOrder = NoOrder
    Funds = 1
SPECIFICATION Spec
INVARIANTS OneOrderPerKey
CHECK_DEADLOCK FALSE
