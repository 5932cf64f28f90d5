CONSTANTS
    Books = {"PRIMARY"}
    Null = Null
    Retailers = {u1}
    Suspense = suspense
    Sessions = {s1, s2}
    None = None
    Movements <- RecoverMoves
    DeskOps = {"place", "recover"}
    LienAmounts = {1}
    MaxLiens = 2
    MaxEntries = 4
    u1 = u1
    u2 = u2
    k1 = k1
    k2 = k2
    k3 = k3
SPECIFICATION Spec
INVARIANT NeverRecoversMoreThanOwed
CHECK_DEADLOCK FALSE
