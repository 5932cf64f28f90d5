CONSTANTS
    Books = {"PRIMARY"}
    Null = Null
    Retailers = {u1}
    Suspense = suspense
    Sessions = {s1, s2}
    None = None
    Movements <- SpendMoves
    DeskOps = {"place", "recover", "release", "reverse"}
    LienAmounts = {1}
    MaxLiens = 2
    MaxEntries = 3
    u1 = u1
    u2 = u2
    k1 = k1
    k2 = k2
    k3 = k3
SPECIFICATION FairSpec
INVARIANTS TypeOK EachLienBalances MoneyConserved
PROPERTY TransactionsEnd
CHECK_DEADLOCK FALSE
