CONSTANTS
    Calls = {c1, c2}
    c1 = c1
    c2 = c2
    KeyOf <- SameKey
    Rail <- AllRecon
    Twins <- NoTwins
    Triggers = {"sweep", "prompt", "desk"}
    Finalizers = {f1}
    Orders = {o1}
    NoOrder = NoOrder
    Funds = 2
SPECIFICATION FairSpec
INVARIANTS KeyDebitedOnce DebitMatchesStatus SettledMeansPaid
PROPERTIES HeldRowsSettle RefundsAreDoubleChecked
CHECK_DEADLOCK FALSE
