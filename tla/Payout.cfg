CONSTANTS
    Payouts = {p1, p2}
    Runs = {r1, r2}
    Null = Null
    Funds = 2
SPECIFICATION Spec
SYMMETRY Symm
INVARIANTS TypeOK HeldMatchesOpen LedgerMatchesStatus SentOnce SettledAsTheRailDid
PROPERTIES EndsOnce
CHECK_DEADLOCK FALSE
