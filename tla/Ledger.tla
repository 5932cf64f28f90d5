------------------------------- MODULE Ledger -------------------------------
(***************************************************************************)
(* The wallet ledger at the grain of its SQL statements.                   *)
(*                                                                         *)
(* Sessions are database connections, each running one interactive         *)
(* transaction of src/src/lib/ledger.ts or src/src/lib/wallet/lien.ts.     *)
(* Postgres runs them at READ COMMITTED: a plain read sees committed rows  *)
(* (and the session's own writes), SELECT ... FOR UPDATE takes the row     *)
(* lock and reads the newest committed row, writes become visible at       *)
(* COMMIT, and a dead session leaves nothing behind.                       *)
(*                                                                         *)
(* `row` is the committed table, work[s] the copies of the rows session s  *)
(* has locked, seen[s] what it read of the WalletLien table without a lock.*)
(* The key check before the lock, the lien reads and the lock waits are    *)
(* steps of their own: that is where another session can come between.     *)
(***************************************************************************)
EXTENDS WalletRow, FiniteSets

CONSTANTS
    Retailers,      \* liable users
    Suspense,       \* the Company Suspense account
    Sessions,       \* concurrent database transactions
    None,           \* no session
    Movements,      \* movements callers ask for (and retry): kind, user, book, amt, key
    DeskOps,        \* lien desk operations exercised: kinds of "place", "recover", ...
    LienAmounts,    \* amounts of new liens
    MaxLiens,       \* bound: liens per user
    MaxEntries      \* bound: no new transaction once a passbook is this long

Accounts == Retailers \cup {Suspense}
Funds == {"credit", "debit", "hold", "unhold", "capture"}
LienDesk == {"place", "recover", "release", "reverse"}

ASSUME SuspenseIsNoRetailer == Suspense \notin Retailers
ASSUME NoneIsNoSession == None \notin Sessions
ASSUME RetailersAssumption == IsFiniteSet(Retailers)
ASSUME DeskOpsAssumption == DeskOps \subseteq LienDesk
ASSUME LienAmountsAssumption == LienAmounts \subseteq Nat \ {0}
ASSUME MovementsAssumption ==
    \A m \in Movements : /\ m.kind \in Funds
                         /\ m.user \in Accounts
                         /\ m.book \in Books
                         /\ m.amt \in Nat \ {0}
                         /\ m.kind \in {"hold", "unhold", "capture"} => m.book = "PRIMARY"

(* "lien:<id>:reverse:..." is the prefix of reverseWalletLien alone. *)
ReversalKeys == Retailers \X Nat \X {"suspense", "user"}

ASSUME ReversalKeysAreOwn == \A k \in {m.key : m \in Movements} \cup {Null} : k \notin ReversalKeys

VARIABLES
    row,        \* committed User rows (with passbook and liens)
    lock,       \* row locks: account -> session or None
    pc, op,     \* what each session is doing, and for which request
    work,       \* session -> account -> uncommitted copy of a locked row
    seen        \* session -> lien rows it has read: {[i, lien], ...}, i the age rank

vars == <<row, lock, pc, op, work, seen>>

NoOp == [kind |-> "none", user |-> Suspense, book |-> "PRIMARY", amt |-> 0, key |-> Null, ref |-> 0]

Init ==
    /\ row  = [a \in Accounts |-> EmptyRow]
    /\ lock = [a \in Accounts |-> None]
    /\ pc   = [s \in Sessions |-> "idle"]
    /\ op   = [s \in Sessions |-> NoOp]
    /\ work = [s \in Sessions |-> [a \in Accounts |-> EmptyRow]]
    /\ seen = [s \in Sessions |-> {}]

-----------------------------------------------------------------------------
(* Locks, reads, commit and rollback. *)

Mine(s, a) == lock[a] = s
Lockable(s, a) == lock[a] \in {None, s}

(* The row as session s sees it: its own copy if it holds the lock. *)
View(s, a) == IF Mine(s, a) THEN work[s][a] ELSE row[a]

(* SELECT ... FOR UPDATE on a, then write r to it; continue at next. *)
Write(s, a, r, next) ==
    /\ Lockable(s, a)
    /\ lock' = [lock EXCEPT ![a] = s]
    /\ work' = [work EXCEPT ![s][a] = r]
    /\ pc'   = [pc EXCEPT ![s] = next]
    /\ UNCHANGED <<row, op, seen>>

(* Transaction over: locks dropped, the session's private state forgotten. *)
End(s) ==
    /\ lock' = [a \in Accounts |-> IF Mine(s, a) THEN None ELSE lock[a]]
    /\ pc'   = [pc EXCEPT ![s] = "idle"]
    /\ op'   = [op EXCEPT ![s] = NoOp]
    /\ work' = [work EXCEPT ![s] = [a \in Accounts |-> EmptyRow]]
    /\ seen' = [seen EXCEPT ![s] = {}]

Rollback(s) == End(s) /\ UNCHANGED row

(* The unique index on WalletTxn.idempotencyKey over committed rows. *)
UsedKeys == UNION {Keys(row[a]) : a \in Accounts}

NewKeys(s) == UNION { KeysFrom(work[s][a], [b \in Books |-> Len(row[a].txns[b])]) :
                        a \in {x \in Accounts : Mine(s, x)} }

(* Mutant: no unique index behind the key check. *)
AcceptedNoIndex(s) == \A a \in Accounts : Mine(s, a) => CheckConstraints(work[s][a])

Accepted(s) == /\ NewKeys(s) \cap UsedKeys = {}
               /\ \A a \in Accounts : Mine(s, a) => CheckConstraints(work[s][a])

Commit(s) ==
    /\ pc[s] = "commit"
    /\ Accepted(s)
    /\ row' = [a \in Accounts |-> View(s, a)]
    /\ End(s)

(* A unique or CHECK constraint is violated: Postgres aborts the transaction. *)
Reject(s) == pc[s] = "commit" /\ ~Accepted(s) /\ Rollback(s)

(* The process dies, the interactive transaction times out, or the lock    *)
(* manager picks the session as deadlock victim.                           *)
Die(s) == pc[s] # "idle" /\ Rollback(s)

-----------------------------------------------------------------------------
(* Requests arrive. *)

Room == \A a \in Accounts, b \in Books : Len(row[a].txns[b]) < MaxEntries

Start(s, o, at) ==
    /\ pc[s] = "idle"
    /\ Room
    /\ op' = [op EXCEPT ![s] = o]
    /\ pc' = [pc EXCEPT ![s] = at]
    /\ UNCHANGED <<row, lock, work, seen>>

Request(s, m) ==
    Start(s, [kind |-> m.kind, user |-> m.user, book |-> m.book, amt |-> m.amt,
              key |-> m.key, ref |-> 0],
          IF m.key = Null THEN "lock" ELSE "check")

(* Staff and system wallets are never liened.  The desk may name a lien    *)
(* that does not exist.                                                    *)
DeskRequest(s, k, u, i, amt) ==
    /\ k \in DeskOps
    /\ IF k = "place" THEN i = Len(row[u].liens) + 1 /\ amt \in LienAmounts ELSE amt = 0
    /\ Start(s, [kind |-> k, user |-> u, book |-> "PRIMARY", amt |-> amt,
                 key |-> Null, ref |-> i],
             IF k = "place" THEN "lock" ELSE "read")

(* findByIdempotencyKey, before the lock: a known key returns the old entry. *)
CheckKey(s) ==
    /\ pc[s] = "check"
    /\ IF op[s].key \in UsedKeys
       THEN Rollback(s)
       ELSE /\ pc' = [pc EXCEPT ![s] = "lock"]
            /\ UNCHANGED <<row, lock, op, work, seen>>

-----------------------------------------------------------------------------
(* Funds movements: lock the row, test, write. *)

At(s, where, kind) == pc[s] = where /\ op[s].kind = kind

(* Mutant: the credit does not trigger the lien sweep. *)
CreditWalletNoSweep(s) ==
    LET o == op[s] IN
    /\ At(s, "lock", "credit")
    /\ Write(s, o.user, Post(row[o.user], o.book, o.amt, o.key, "MOVE", Null), "commit")

CreditWallet(s) ==
    LET o == op[s]  r == row[o.user] IN
    /\ At(s, "lock", "credit")
    /\ Write(s, o.user, Post(r, o.book, o.amt, o.key, "MOVE", Null),
             IF o.book = "PRIMARY" /\ r.lien > 0 THEN "sweep" ELSE "commit")

DebitWallet(s) ==
    LET o == op[s]  r == row[o.user] IN
    /\ At(s, "lock", "debit")
    /\ Lockable(s, o.user)
    /\ IF CanDebit(r, o.book, o.amt)
       THEN Write(s, o.user, Post(r, o.book, -o.amt, o.key, "MOVE", Null), "commit")
       ELSE Rollback(s)

(* Mutant: the hold is not tested against what is spendable. *)
HoldFundsUnchecked(s) ==
    /\ At(s, "lock", "hold")
    /\ Write(s, op[s].user, Hold(row[op[s].user], op[s].amt), "commit")

HoldFunds(s) ==
    LET o == op[s]  r == row[o.user] IN
    /\ At(s, "lock", "hold")
    /\ Lockable(s, o.user)
    /\ IF o.amt <= Spendable(r)
       THEN Write(s, o.user, Hold(r, o.amt), "commit")
       ELSE Rollback(s)

ReleaseHold(s) ==
    LET o == op[s]  r == row[o.user] IN
    /\ At(s, "lock", "unhold")
    /\ Lockable(s, o.user)
    /\ IF o.amt <= r.held
       THEN Write(s, o.user, Unhold(r, o.amt), "commit")
       ELSE Rollback(s)

CaptureHold(s) ==
    LET o == op[s]  r == row[o.user] IN
    /\ At(s, "lock", "capture")
    /\ Lockable(s, o.user)
    /\ IF o.amt <= r.held
       THEN Write(s, o.user, Capture(r, o.amt, o.key), "commit")
       ELSE Rollback(s)

-----------------------------------------------------------------------------
(* The lien sweep: read the ACTIVE liens, lock, take from each in turn.    *)

AfterSweep(s) == IF op[s].kind = "reverse" THEN "close" ELSE "commit"

Continue(s, next) ==
    /\ pc' = [pc EXCEPT ![s] = next]
    /\ UNCHANGED <<row, lock, op, work>>

ActiveLiens(r) ==
    { x \in {[i |-> i, lien |-> r.liens[i]] : i \in 1..Len(r.liens)} :
        x.lien.status = "ACTIVE" /\ Outstanding(x.lien) > 0 }

ReadLiens(s) ==
    LET u == op[s].user  active == ActiveLiens(View(s, u)) IN
    /\ pc[s] = "sweep"
    /\ IF u = Suspense \/ active = {}
       THEN Continue(s, AfterSweep(s)) /\ UNCHANGED seen
       ELSE Continue(s, "take") /\ seen' = [seen EXCEPT ![s] = active]

(* recoverWalletLien reaches the sweep without the lock: it is taken here, *)
(* after the liens were read.                                              *)
LockForSweep(s) ==
    LET u == op[s].user IN
    /\ pc[s] = "take"
    /\ ~Mine(s, u)
    /\ Write(s, u, row[u], "take")

(* Mutant: orderBy createdAt desc. *)
Newest(s, x) == \A y \in seen[s] : x.i >= y.i

Oldest(s, x) == \A y \in seen[s] : x.i <= y.i

(* Mutant: each round starts from the committed suspense row again. *)
TakeFromLienStaleSuspense(s) ==
    LET u == op[s].user
        r == work[s][u]
    IN
    /\ pc[s] = "take"
    /\ Mine(s, u)
    /\ Available(r) > 0
    /\ Lockable(s, Suspense)
    /\ lock' = [lock EXCEPT ![Suspense] = s]
    /\ \E x \in seen[s] :
         /\ Oldest(s, x)
         /\ work' = [work EXCEPT
              ![s][u] = TakeFromUser(r, u, x.i, x.lien),
              ![s][Suspense] = TakeToSuspense(row[Suspense], TakeAmount(r, x.lien), u, x.i)]
         /\ seen' = [seen EXCEPT ![s] = @ \ {x}]
    /\ UNCHANGED <<row, pc, op>>

TakeFromLien(s) ==
    LET u == op[s].user
        r == work[s][u]
    IN
    /\ pc[s] = "take"
    /\ Mine(s, u)
    /\ Available(r) > 0
    /\ Lockable(s, Suspense)
    /\ lock' = [lock EXCEPT ![Suspense] = s]
    /\ \E x \in seen[s] :
         /\ Oldest(s, x)
         /\ work' = [work EXCEPT
              ![s][u] = TakeFromUser(r, u, x.i, x.lien),
              ![s][Suspense] = TakeToSuspense(View(s, Suspense), TakeAmount(r, x.lien), u, x.i)]
         /\ seen' = [seen EXCEPT ![s] = @ \ {x}]
    /\ UNCHANGED <<row, pc, op>>

SweepDone(s) ==
    LET u == op[s].user IN
    /\ pc[s] = "take"
    /\ Mine(s, u)
    /\ seen[s] = {} \/ Available(work[s][u]) <= 0
    /\ Continue(s, AfterSweep(s))
    /\ seen' = [seen EXCEPT ![s] = {}]

-----------------------------------------------------------------------------
(* The lien desk. *)

PlaceWalletLien(s) ==
    LET o == op[s] IN
    /\ At(s, "lock", "place")
    /\ Write(s, o.user, PlaceLien(row[o.user], o.amt), "sweep")

(* The status test of recover, release and reverse reads without a lock. *)
ReadLien(s) ==
    LET o == op[s]
        l == row[o.user].liens[o.ref]
    IN
    /\ pc[s] = "read"
    /\ IF \/ o.ref \notin 1..Len(row[o.user].liens)
          \/ o.kind = "reverse" /\ l.status = "RELEASED"
          \/ o.kind \in {"recover", "release"} /\ l.status # "ACTIVE"
       THEN Rollback(s)
       ELSE /\ seen' = [seen EXCEPT ![s] = {[i |-> o.ref, lien |-> l]}]
            /\ Continue(s, IF o.kind = "recover" THEN "sweep"
                           ELSE IF Outstanding(l) > 0 THEN "lock" ELSE "debitSuspense")

ReleaseWalletLien(s) ==
    LET o == op[s] IN
    /\ At(s, "lock", "release")
    /\ \E x \in seen[s] :
         Write(s, o.user,
               CloseLien(ReleaseFreeze(row[o.user], Outstanding(x.lien)), o.ref), "commit")

(* reverseWalletLien, first leg: free what was never recovered. *)
ReverseFrozen(s) ==
    LET o == op[s] IN
    /\ At(s, "lock", "reverse")
    /\ \E x \in seen[s] :
         Write(s, o.user, ReleaseFreeze(row[o.user], Outstanding(x.lien)),
               IF x.lien.recovered > 0 THEN "debitSuspense" ELSE "close")

(* Mutant: the suspense leg of a reversal carries no key. *)
SuspenseKeyMissing(u, i) == Null

SuspenseKey(u, i) == <<u, i, "suspense">>
UserKey(u, i)     == <<u, i, "user">>

(* Second leg: take the recovered money out of the suspense account.  Both *)
(* keyed legs look for their key first, before they wait for the lock.     *)
CheckSuspenseLeg(s) ==
    /\ pc[s] = "debitSuspense"
    /\ Continue(s, IF SuspenseKey(op[s].user, op[s].ref) \in UsedKeys
                   THEN "creditUser" ELSE "lockSuspense")
    /\ UNCHANGED seen

ReverseDebitSuspense(s) ==
    LET o == op[s]
        r == View(s, Suspense)
    IN
    /\ pc[s] = "lockSuspense"
    /\ Lockable(s, Suspense)
    /\ \E x \in seen[s] :
         IF CanDebit(r, "PRIMARY", x.lien.recovered)
         THEN Write(s, Suspense,
                    Post(r, "PRIMARY", -x.lien.recovered, SuspenseKey(o.user, o.ref),
                         "REVERSAL", <<o.user, o.ref>>),
                    "creditUser")
         ELSE Rollback(s)

(* Third leg: creditWallet on the user, with its own sweep. *)
CheckUserLeg(s) ==
    /\ pc[s] = "creditUser"
    /\ Continue(s, IF UserKey(op[s].user, op[s].ref) \in UsedKeys THEN "close" ELSE "lockUser")
    /\ UNCHANGED seen

ReverseCreditUser(s) ==
    LET o == op[s]
        r == View(s, o.user)
    IN
    /\ pc[s] = "lockUser"
    /\ \E x \in seen[s] :
         Write(s, o.user,
               Post(r, "PRIMARY", x.lien.recovered, UserKey(o.user, o.ref),
                    "REVERSAL", <<o.user, o.ref>>),
               IF r.lien > 0 THEN "sweep" ELSE "close")

(* Last leg: the lien row is closed, whatever its status is by now. *)
ReverseClose(s) ==
    LET o == op[s] IN
    /\ pc[s] = "close"
    /\ Write(s, o.user, CloseLien(View(s, o.user), o.ref), "commit")

-----------------------------------------------------------------------------
SessionStep(s) ==
    \/ CheckKey(s)
    \/ CreditWallet(s) \/ DebitWallet(s)
    \/ HoldFunds(s) \/ ReleaseHold(s) \/ CaptureHold(s)
    \/ ReadLiens(s) \/ LockForSweep(s) \/ TakeFromLien(s) \/ SweepDone(s)
    \/ PlaceWalletLien(s) \/ ReadLien(s) \/ ReleaseWalletLien(s)
    \/ ReverseFrozen(s) \/ CheckSuspenseLeg(s) \/ ReverseDebitSuspense(s)
    \/ CheckUserLeg(s) \/ ReverseCreditUser(s) \/ ReverseClose(s)
    \/ Commit(s) \/ Reject(s)

Arrive(s) ==
    \/ \E m \in Movements : Request(s, m)
    \/ \E k \in DeskOps, u \in Retailers, i \in 1..MaxLiens, amt \in LienAmounts \cup {0} :
         DeskRequest(s, k, u, i, amt)

Next == \E s \in Sessions : Arrive(s) \/ SessionStep(s) \/ Die(s)

Spec == Init /\ [][Next]_vars

(* Postgres: a statement that can run does run, the lock queue is served   *)
(* first come first served (hence strong fairness: the lock may be taken   *)
(* and dropped by others meanwhile), and the deadlock detector aborts a    *)
(* session of a wait cycle.  Nothing obliges a caller to make a request.   *)
WaitsFor(s) ==
    LET u == op[s].user IN
    { t \in Sessions \ {s} :
        \/ /\ \/ pc[s] = "lock" \/ pc[s] = "take" \/ pc[s] = "lockUser" \/ pc[s] = "close"
           /\ Mine(t, u)
        \/ /\ \/ pc[s] = "take" /\ Mine(s, u)
              \/ pc[s] = "lockSuspense"
           /\ Mine(t, Suspense) }

(* Mutant: the database has no deadlock detector. *)
DeadlockedNever(s) == FALSE

Deadlocked(s) == \E t \in WaitsFor(s) : s \in WaitsFor(t)

FairSpec ==
    /\ Spec
    /\ \A s \in Sessions : SF_vars(SessionStep(s)) /\ WF_vars(Deadlocked(s) /\ Die(s))

-----------------------------------------------------------------------------
(* Properties. *)

Keyed == {m.key : m \in Movements} \cup {Null} \cup ReversalKeys
Refs == {Null} \cup (Retailers \X Nat)

Entry == [delta : Int, after : Int, key : Keyed, reason : {"MOVE", "LIEN", "REVERSAL"}, ref : Refs]
Lien  == [status : {"ACTIVE", "RECOVERED", "RELEASED"}, amount : Nat, recovered : Nat]
Balances  == [Books -> Int]
Passbooks == [Books -> Seq(Entry)]
Liens     == Seq(Lien)
Row == [bal : Balances, held : Int, lien : Int, txns : Passbooks, liens : Liens]

(* Type invariant. *)
TypeOK ==
    /\ row \in [Accounts -> Row]
    /\ lock \in [Accounts -> Sessions \cup {None}]
    /\ pc \in [Sessions -> {"idle", "check", "lock", "read", "sweep", "take",
                            "debitSuspense", "lockSuspense", "creditUser", "lockUser",
                            "close", "commit"}]
    /\ op \in [Sessions -> [kind : Funds \cup LienDesk \cup {"none"}, user : Accounts,
                            book : Books, amt : Nat, key : Keyed, ref : Nat]]
    /\ work \in [Sessions -> [Accounts -> Row]]
    /\ seen \in [Sessions -> SUBSET [i : Nat, lien : Lien]]

(* However sessions interleave, no book is ever overdrawn and the funds    *)
(* reserved by holds are still there: ledger.ts, header items 2 and the    *)
(* balance model.                                                          *)
AccountsSolvent == \A a \in Accounts : Solvent(row[a])

(* PASSBOOK_CONTINUITY and BALANCE_VS_LEDGER of the integrity audit: every *)
(* passbook runs without a gap from zero to the balance column, so no      *)
(* update is ever lost.                                                    *)
PassbookContinuous ==
    \A a \in Accounts, b \in Books : Continuous(row[a].txns[b], row[a].bal[b])

(* Header item 3: a keyed movement is applied at most once, under retries, *)
(* duplicate deliveries and two sessions that both found the key unused.   *)
KeyAppliedOnce ==
    \A a1, a2 \in Accounts : \A b1, b2 \in Books :
        \A i \in 1..Len(row[a1].txns[b1]), j \in 1..Len(row[a2].txns[b2]) :
            /\ row[a1].txns[b1][i].key # Null
            /\ row[a1].txns[b1][i].key = row[a2].txns[b2][j].key
            => a1 = a2 /\ b1 = b2 /\ i = j

(* The concurrent ledger is the atomic one: every commit is one of its     *)
(* steps, taken on the newest balances.                                    *)
Atomic == INSTANCE AtomicLedger
ActsAtomically == Atomic!Spec

(* A transaction that began ends: lock waits, sweeps that lock the         *)
(* suspense account second and reversals that lock it first never block    *)
(* each other for good.                                                    *)
TransactionsEnd == \A s \in Sessions : pc[s] # "idle" ~> pc[s] = "idle"
=============================================================================
