CONSTANTS
    Calls = {c1, c2}
    c1 = c1
    c2 = c2
    KeyOf <- OwnKeys
    Rail <- Mixed
    Twins <- TwinPair
    Triggers = {"sweep", "desk"}
    Finalizers = {f1, f2}
    Orders = {o1, o2}
    NoOrder = NoOrder
    Funds = 2
SPECIFICATION Spec
SYMMETRY Symm
INVARIANTS TypeOK WalletMatchesStatus OneSuccessPerOrder
PROPERTIES ReservesMoveOnce
CHECK_DEADLOCK FALSE
