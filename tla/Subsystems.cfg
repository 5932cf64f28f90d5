CONSTANTS
    Captures = {c1}
    PosRuns = {r1, r2}
    Claims = {q1}
    Large = {q1}
    Admins = {a1, a2}
    Nobody = Nobody
    QrRuns = {r1, r2}
    Codes = {s1, s2}
    s1 = s1
    s2 = s2
    CreatedAt <- CodeOrder
    Priorities = {99, 100}
    Resolvers = {r1, r2}
    MaxChanges = 2
    TopUps = {t1, t2}
    t1 = t1
    t2 = t2
    Gateway <- MdrAndPoll
    TopUpRuns = {r1, r2}
    AepsFunds = 5
    KeepBalance = 1
    MinAmount = 1
    PerTxnCap = 2
    DailyCap = 2
    ClientKeys = {k1}
    Requests = {u1, u2, u3}
    Sweepers = {w1, w2}
    NoRequest = NoRequest
    Payouts = {p1}
    Runs = {r1, r2}
    Null = Null
    Funds = 1
SPECIFICATION PartSpec
INVARIANTS SubsystemsTypeOK PosPaidOnce QrMoneyMatchesStatus QrLargeNeedsTwo TopUpCreditsMatch
INVARIANTS T1BooksAgree OneAnswerPerKey AutosweepOncePerDay
PROPERTIES PosVoidsClose PosPaymentsRecorded QrRotationSettles KeysAreFreed KnownToRailSettles
CHECK_DEADLOCK FALSE
