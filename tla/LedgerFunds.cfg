CONSTANTS
    Books = {"PRIMARY", "REVENUE"}
    Null = Null
    Retailers = {u1, u2}
    Suspense = suspense
    Sessions = {s1, s2}
    None = None
    Movements <- AllMoves
    DeskOps = {"place"}
    LienAmounts = {2}
    MaxLiens = 2
    MaxEntries = 2
    u1 = u1
    u2 = u2
    k1 = k1
    k2 = k2
    k3 = k3
SPECIFICATION Spec
INVARIANTS AccountsSolvent PassbookContinuous KeyAppliedOnce LienBalanceMatchesActive RecoveryIsDoubleEntry
PROPERTIES ActsAtomically FrozenMoneyStaysFrozen OldestLienFirst
CHECK_DEADLOCK FALSE
