---------------------------- MODULE AtomicLedger ----------------------------
(***************************************************************************)
(* What src/src/lib/ledger.ts promises its callers: every request for a    *)
(* funds movement happens in one indivisible step on the newest balances,  *)
(* or not at all, a keyed movement at most once; and a credit or a new     *)
(* lien is followed, within the same step, by the recovery of as much lien *)
(* as the free money covers, oldest lien first.  No locks, no sessions.    *)
(***************************************************************************)
EXTENDS WalletRow

CONSTANTS Retailers, Suspense, Movements, LienAmounts

VARIABLE row

Accounts == Retailers \cup {Suspense}

Init == row = [a \in Accounts |-> EmptyRow]

UsedKeys == UNION {Keys(row[a]) : a \in Accounts}

(* Recover from lien i what is free, if the lien is still open. *)
Recover(rows, u, i) ==
    LET r == rows[u]
        l == r.liens[i]
    IN  IF l.status = "ACTIVE" /\ Available(r) > 0
        THEN [rows EXCEPT ![u] = TakeFromUser(r, u, i, l),
                          ![Suspense] = TakeToSuspense(@, TakeAmount(r, l), u, i)]
        ELSE rows

(* All liens of u, oldest first. *)
Swept(rows, u) ==
    LET upTo[i \in 0..Len(rows[u].liens)] ==
            IF i = 0 THEN rows ELSE Recover(upTo[i - 1], u, i)
    IN  upTo[Len(rows[u].liens)]

Update(u, r) == [row EXCEPT ![u] = r]

Fresh(key) == key = Null \/ key \notin UsedKeys

Credit(m) ==
    LET r == Post(row[m.user], m.book, m.amt, m.key, "MOVE", Null) IN
    /\ m.kind = "credit"
    /\ Fresh(m.key)
    /\ row' = IF m.book = "PRIMARY" /\ m.user # Suspense
              THEN Swept(Update(m.user, r), m.user)
              ELSE Update(m.user, r)

Debit(m) ==
    /\ m.kind = "debit"
    /\ Fresh(m.key)
    /\ CanDebit(row[m.user], m.book, m.amt)
    /\ row' = Update(m.user, Post(row[m.user], m.book, -m.amt, m.key, "MOVE", Null))

Reserve(m) ==
    /\ m.kind = "hold"
    /\ m.amt <= Spendable(row[m.user])
    /\ row' = Update(m.user, Hold(row[m.user], m.amt))

GiveBack(m) ==
    /\ m.kind = "unhold"
    /\ m.amt <= row[m.user].held
    /\ row' = Update(m.user, Unhold(row[m.user], m.amt))

Settle(m) ==
    /\ m.kind = "capture"
    /\ Fresh(m.key)
    /\ m.amt <= row[m.user].held
    /\ row' = Update(m.user, Capture(row[m.user], m.amt, m.key))

Freeze(u, amt) == row' = Swept(Update(u, PlaceLien(row[u], amt)), u)

Next == \/ \E m \in Movements : Credit(m) \/ Debit(m) \/ Reserve(m) \/ GiveBack(m) \/ Settle(m)
        \/ \E u \in Retailers, amt \in LienAmounts : Freeze(u, amt)

Spec == Init /\ [][Next]_row
=============================================================================
