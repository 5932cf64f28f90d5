CONSTANTS
    Books = {"PRIMARY"}
    Null = Null
    Retailers = {u1}
    Suspense = suspense
    Sessions = {s1}
    None = None
    Movements <- DeskMoves
    DeskOps = {"place", "reverse"}
    LienAmounts = {2}
    MaxLiens = 2
    MaxEntries = 5
    u1 = u1
    u2 = u2
    k1 = k1
    k2 = k2
    k3 = k3
SPECIFICATION Spec
INVARIANT ReversalNotRecaptured
CHECK_DEADLOCK FALSE
