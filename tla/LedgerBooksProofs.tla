-------------------------- MODULE LedgerBooksProofs --------------------------
(***************************************************************************)
(* Proofs about the passbooks of Ledger, with every desk operation racing: *)
(* a keyed movement is applied once, and liens only move money: what left  *)
(* the users through liens is what entered the suspense.                   *)
(*                                                                         *)
(* Each is about what a session has written and not committed.  The row   *)
(* it started from stays what it is while the lock is held (Frame), so an  *)
(* invariant may compare a copy with the committed row; a commit then      *)
(* carries what was said of the copies over to the rows.                   *)
(***************************************************************************)
EXTENDS MCLedger, LedgerProofs, FiniteSetTheorems, WellFoundedInduction

USE PrimaryIsABook, SuspenseIsNoRetailer, NoneIsNoSession

-----------------------------------------------------------------------------
(* A step of one session leaves the others what they have. *)

Step(s) == Arrive(s) \/ SessionStep(s) \/ Die(s)

Apart(t) ==
    /\ pc'[t] = pc[t] /\ op'[t] = op[t] /\ seen'[t] = seen[t] /\ work'[t] = work[t]
    /\ \A a \in Accounts : /\ lock'[a] = t <=> lock[a] = t
                           /\ lock[a] = t => row'[a] = row[a]

LEMMA WriteApart ==
    ASSUME TypeOK, NEW s \in Sessions, NEW t \in Sessions \ {s}, NEW a \in Accounts,
           NEW r, NEW next, Write(s, a, r, next)
    PROVE  Apart(t)
<1>1. /\ lock \in [Accounts -> Sessions \cup {None}]
      /\ pc \in [Sessions -> Pcs] /\ op \in [Sessions -> Ops]
      /\ work \in [Sessions -> [Accounts -> Row]] /\ seen \in [Sessions -> SUBSET Seen]
  BY TypeOKGives
<1>2. QED
  BY <1>1 DEF Write, Apart, Lockable

LEMMA EndApart ==
    ASSUME TypeOK, NEW s \in Sessions, NEW t \in Sessions \ {s}, End(s),
           row' = row \/ row' = [a \in Accounts |-> View(s, a)]
    PROVE  Apart(t)
<1>1. /\ lock \in [Accounts -> Sessions \cup {None}]
      /\ pc \in [Sessions -> Pcs] /\ op \in [Sessions -> Ops]
      /\ work \in [Sessions -> [Accounts -> Row]] /\ seen \in [Sessions -> SUBSET Seen]
  BY TypeOKGives
<1>2. QED
  BY <1>1 DEF End, Apart, View, Mine

LEMMA StayApart ==
    ASSUME TypeOK, NEW s \in Sessions, NEW t \in Sessions \ {s},
           row' = row, lock' = lock, work' = work,
           NEW at, NEW o, NEW read, pc' = [pc EXCEPT ![s] = at], op' = [op EXCEPT ![s] = o],
           seen' = [seen EXCEPT ![s] = read]
    PROVE  Apart(t)
<1>1. /\ lock \in [Accounts -> Sessions \cup {None}]
      /\ pc \in [Sessions -> Pcs] /\ op \in [Sessions -> Ops]
      /\ work \in [Sessions -> [Accounts -> Row]] /\ seen \in [Sessions -> SUBSET Seen]
  BY TypeOKGives
<1>2. QED
  BY <1>1 DEF Apart

LEMMA ContinueApart ==
    ASSUME TypeOK, NEW s \in Sessions, NEW t \in Sessions \ {s}, NEW next, Continue(s, next),
           seen' = seen \/ \E read : seen' = [seen EXCEPT ![s] = read]
    PROVE  Apart(t)
<1>1. /\ op = [op EXCEPT ![s] = op[s]] /\ seen = [seen EXCEPT ![s] = seen[s]]
  BY TypeOKGives
<1>2. PICK read : seen' = [seen EXCEPT ![s] = read]
  BY <1>1
<1>3. QED
  BY <1>1, <1>2, StayApart DEF Continue

LEMMA TakeApart ==
    ASSUME TypeOK, NEW s \in Sessions, NEW t \in Sessions \ {s}, TakeFromLien(s)
    PROVE  Apart(t)
<1>1. /\ lock \in [Accounts -> Sessions \cup {None}]
      /\ pc \in [Sessions -> Pcs] /\ op \in [Sessions -> Ops]
      /\ work \in [Sessions -> [Accounts -> Row]] /\ seen \in [Sessions -> SUBSET Seen]
  BY TypeOKGives
<1>2. /\ lock' = [lock EXCEPT ![Suspense] = s] /\ Lockable(s, Suspense)
      /\ row' = row /\ pc' = pc /\ op' = op
      /\ work'[t] = work[t] /\ seen'[t] = seen[t]
  BY <1>1 DEF TakeFromLien
<1>3. QED
  BY <1>1, <1>2 DEF Apart, Lockable

LEMMA Frame ==
    ASSUME Safe, NEW s \in Sessions, Step(s), NEW t \in Sessions \ {s}
    PROVE  Apart(t)
<1>0. TypeOK /\ op[s].user \in Accounts /\ Suspense \in Accounts
  BY Types, NoOpFacts, OpFields DEF Safe
<1>1. ASSUME Rollback(s) PROVE Apart(t)
  BY <1>0, <1>1, EndApart DEF Rollback
<1>2. ASSUME NEW o, NEW at, Start(s, o, at) PROVE Apart(t)
  <2>1. seen = [seen EXCEPT ![s] = seen[s]]
    BY <1>0, TypeOKGives
  <2>2. QED
    BY <1>0, <1>2, <2>1, StayApart DEF Start
<1>3. CASE Arrive(s)
  BY <1>2, <1>3 DEF Arrive, Request, DeskRequest
<1>4. CASE Die(s) \/ Reject(s)
  BY <1>1, <1>4 DEF Die, Reject
<1>5. CASE Commit(s)
  BY <1>0, <1>5, EndApart DEF Commit
<1>6. CASE CheckKey(s)
  <2>1. CASE Rollback(s)
    BY <1>1, <2>1
  <2>2. CASE Continue(s, "lock") /\ seen' = seen
    BY <1>0, <2>2, ContinueApart
  <2>3. QED BY <1>6, <2>1, <2>2 DEF CheckKey, Continue
<1>7. CASE CreditWallet(s) \/ DebitWallet(s) \/ HoldFunds(s) \/ ReleaseHold(s) \/ CaptureHold(s)
  BY <1>0, <1>1, <1>7, WriteApart DEF CreditWallet, DebitWallet, HoldFunds, ReleaseHold, CaptureHold
<1>8. CASE ReadLiens(s) \/ SweepDone(s)
  BY <1>0, <1>8, ContinueApart DEF ReadLiens, SweepDone
<1>9. CASE LockForSweep(s) \/ PlaceWalletLien(s) \/ ReleaseWalletLien(s) \/ ReverseFrozen(s)
  BY <1>0, <1>9, WriteApart DEF LockForSweep, PlaceWalletLien, ReleaseWalletLien, ReverseFrozen
<1>10. CASE TakeFromLien(s)
  BY <1>0, <1>10, TakeApart
<1>11. CASE ReadLien(s)
  <2>1. CASE Rollback(s)
    BY <1>1, <2>1
  <2>2. CASE \E next, read : Continue(s, next) /\ seen' = [seen EXCEPT ![s] = read]
    BY <1>0, <2>2, ContinueApart
  <2>3. QED BY <1>11, <2>1, <2>2 DEF ReadLien
<1>12. CASE CheckSuspenseLeg(s) \/ CheckUserLeg(s)
  BY <1>0, <1>12, ContinueApart DEF CheckSuspenseLeg, CheckUserLeg
<1>13. CASE ReverseDebitSuspense(s) \/ ReverseCreditUser(s) \/ ReverseClose(s)
  BY <1>0, <1>1, <1>13, WriteApart DEF ReverseDebitSuspense, ReverseCreditUser, ReverseClose
<1>14. QED
  BY <1>3, <1>4, <1>5, <1>6, <1>7, <1>8, <1>9, <1>10, <1>11, <1>12, <1>13 DEF Step, SessionStep

-----------------------------------------------------------------------------
(* What a session has appended to the passbooks it holds. *)

(* Entry i of book b of account a is written by s and not committed. *)
Fresh(s, a, b, i) ==
    Mine(s, a) /\ i \in (Len(row[a].txns[b]) + 1)..Len(work[s][a].txns[b])

KeyAt(s, a, b, i) == work[s][a].txns[b][i].key

(* Copies only append. *)
Extends(s) ==
    \A a \in Accounts, b \in Books :
        Mine(s, a) => /\ Len(row[a].txns[b]) <= Len(work[s][a].txns[b])
                      /\ \A i \in 1..Len(row[a].txns[b]) : work[s][a].txns[b][i] = row[a].txns[b][i]

(* No two fresh entries of a session have the same key. *)
KeysApart(s) ==
    \A a1, a2 \in Accounts, b1, b2 \in Books, i, j \in Nat :
        /\ Fresh(s, a1, b1, i) /\ Fresh(s, a2, b2, j)
        /\ KeyAt(s, a1, b1, i) = KeyAt(s, a2, b2, j) /\ KeyAt(s, a1, b1, i) # Null
        => a1 = a2 /\ b1 = b2 /\ i = j

(* The two keyed legs of a reversal. *)
SuspenseLeg == {"debitSuspense", "lockSuspense"}
UserLeg     == {"creditUser", "lockUser"}
USE DEF AtDesk, SuspenseLeg, UserLeg

(* The keys a session has used already, by the point it has reached. *)
KeysByStep(s) ==
    /\ pc[s] \in {"idle", "check", "lock", "read"} => \A a \in Accounts : ~Mine(s, a)
    /\ \A a \in Accounts, b \in Books, i \in Nat :
         Fresh(s, a, b, i) =>
           /\ pc[s] \in SuspenseLeg => KeyAt(s, a, b, i) = Null
           /\ pc[s] \in UserLeg => KeyAt(s, a, b, i) \in {Null, SuspenseKey(op[s].user, op[s].ref)}

Appends(s) == Extends(s) /\ KeysApart(s) /\ KeysByStep(s)

KeysInv == KeyAppliedOnce /\ \A s \in Sessions : Appends(s)

LEMMA Txns ==
    ASSUME TypeOK, NEW s \in Sessions, NEW a \in Accounts, NEW b \in Books
    PROVE  /\ row[a].txns[b] \in Seq(Entry) /\ work[s][a].txns[b] \in Seq(Entry)
           /\ View(s, a).txns[b] \in Seq(Entry)
           /\ Len(row[a].txns[b]) \in Nat /\ Len(work[s][a].txns[b]) \in Nat
           /\ Len(View(s, a).txns[b]) \in Nat
<1>1. row[a] \in Row /\ work[s][a] \in Row /\ View(s, a) \in Row
  BY Types
<1>2. row[a].txns[b] \in Seq(Entry) /\ work[s][a].txns[b] \in Seq(Entry) /\ View(s, a).txns[b] \in Seq(Entry)
  BY <1>1, RowFields
<1>3. \A t \in Seq(Entry) : Len(t) \in Nat
  OBVIOUS
<1>4. QED
  BY <1>2, <1>3

(* A write that leaves the passbooks alone. *)
LEMMA SameTxnsFresh ==
    ASSUME Safe, NEW s \in Sessions, NEW a \in Accounts, NEW q \in Row, NEW next,
           Write(s, a, q, next), q.txns = View(s, a).txns, Extends(s)
    PROVE  /\ Extends(s)'
           /\ \A c \in Accounts, d \in Books, i \in Nat :
                Fresh(s, c, d, i)' => Fresh(s, c, d, i) /\ KeyAt(s, c, d, i)' = KeyAt(s, c, d, i)
<1>1. /\ lock \in [Accounts -> Sessions \cup {None}] /\ work \in [Sessions -> [Accounts -> Row]]
  BY TypeOKGives DEF Safe
<1>2. /\ lock' = [lock EXCEPT ![a] = s] /\ row' = row
      /\ work'[s][a] = q /\ \A c \in Accounts \ {a} : work'[s][c] = work[s][c]
      /\ lock'[a] = s /\ \A c \in Accounts \ {a} : lock'[c] = lock[c]
  BY <1>1 DEF Write
<1>3. ASSUME NEW d \in Books
      PROVE  /\ Len(row[a].txns[d]) <= Len(q.txns[d])
             /\ \A i \in 1..Len(row[a].txns[d]) : q.txns[d][i] = row[a].txns[d][i]
             /\ \A i \in (Len(row[a].txns[d]) + 1)..Len(q.txns[d]) :
                  Mine(s, a) /\ work[s][a].txns[d] = q.txns[d]
  <2>1. CASE Mine(s, a)
    BY <2>1 DEF View, Extends
  <2>2. CASE ~Mine(s, a)
    <3>1. q.txns[d] = row[a].txns[d] /\ Len(row[a].txns[d]) \in Nat
      BY <2>2, Txns DEF View, Safe
    <3>2. QED BY <3>1
  <2>3. QED BY <2>1, <2>2
<1>4. Extends(s)'
  <2> SUFFICES ASSUME NEW c \in Accounts, NEW d \in Books, Mine(s, c)'
               PROVE  /\ Len(row[c].txns[d]) <= Len(work'[s][c].txns[d])
                      /\ \A i \in 1..Len(row[c].txns[d]) : work'[s][c].txns[d][i] = row[c].txns[d][i]
    BY <1>2 DEF Extends
  <2>1. CASE c = a
    BY <1>2, <1>3, <2>1
  <2>2. CASE c # a
    <3>1. Mine(s, c) /\ work'[s][c] = work[s][c]
      BY <1>2, <2>2 DEF Mine
    <3>2. QED BY <3>1 DEF Extends
  <2>3. QED BY <2>1, <2>2
<1>5. ASSUME NEW c \in Accounts, NEW d \in Books, NEW i \in Nat, Fresh(s, c, d, i)'
      PROVE  Fresh(s, c, d, i) /\ KeyAt(s, c, d, i)' = KeyAt(s, c, d, i)
  <2>1. CASE c = a
    BY <1>2, <1>3, <1>5, <2>1 DEF Fresh, KeyAt
  <2>2. CASE c # a
    BY <1>2, <1>5, <2>2 DEF Fresh, KeyAt, Mine
  <2>3. QED BY <2>1, <2>2
<1>6. QED
  BY <1>4, <1>5

LEMMA AppendTo ==
    ASSUME NEW old \in Seq(Entry), NEW t \in Seq(Entry), NEW e \in Entry,
           NEW q, q = Append(t, e),
           Len(old) <= Len(t), \A i \in 1..Len(old) : t[i] = old[i]
    PROVE  /\ Len(q) = Len(t) + 1 /\ q[Len(q)] = e /\ Len(old) <= Len(q)
           /\ \A i \in 1..Len(old) : q[i] = old[i]
           /\ \A i \in (Len(old) + 1)..Len(q) :
                \/ i \in (Len(old) + 1)..Len(t) /\ t[i] = q[i]
                \/ i = Len(q)
<1> DEFINE m == Len(old)
           n == Len(t)
<1>1. m \in Nat /\ n \in Nat /\ m <= n /\ \A i \in 1..m : t[i] = old[i]
  OBVIOUS
<1>2. Len(q) = n + 1 /\ q[n + 1] = e /\ \A i \in 1..n : q[i] = t[i]
  OBVIOUS
<1> HIDE DEF m, n
<1>3. m <= n + 1 /\ \A i \in 1..m : q[i] = old[i]
  BY <1>1, <1>2
<1>4. ASSUME NEW i \in (m + 1)..(n + 1)
      PROVE  (i \in (m + 1)..n /\ t[i] = q[i]) \/ i = n + 1
  BY <1>1, <1>2
<1>5. QED
  BY <1>2, <1>3, <1>4 DEF m, n

(* Row q is account a as s sees it with entry e appended to book b. *)
OneMore(s, a, q, b, e) ==
    q.txns = [View(s, a).txns EXCEPT ![b] = Append(View(s, a).txns[b], e)]

(* What q then holds in book d beyond the committed row. *)
Grown(s, a, q, b, e, d) ==
    /\ Len(row[a].txns[d]) <= Len(q.txns[d])
    /\ \A i \in 1..Len(row[a].txns[d]) : q.txns[d][i] = row[a].txns[d][i]
    /\ \A i \in (Len(row[a].txns[d]) + 1)..Len(q.txns[d]) :
         \/ /\ i \in (Len(row[a].txns[d]) + 1)..Len(work[s][a].txns[d])
            /\ Mine(s, a) /\ work[s][a].txns[d][i] = q.txns[d][i]
         \/ d = b /\ i = Len(q.txns[b]) /\ q.txns[b][i] = e

LEMMA GrownBook ==
    ASSUME Safe, NEW s \in Sessions, NEW a \in Accounts, NEW q, NEW b \in Books, NEW e \in Entry,
           OneMore(s, a, q, b, e), Extends(s), NEW d \in Books
    PROVE  Grown(s, a, q, b, e, d)
<1>1. View(s, a).txns \in Passbooks
  BY Types, RowFields DEF Safe
<1>2. /\ \A c \in Books : c # b => q.txns[c] = View(s, a).txns[c]
      /\ q.txns[b] = Append(View(s, a).txns[b], e)
  BY <1>1 DEF Passbooks, OneMore
<1>3. /\ row[a].txns[d] \in Seq(Entry) /\ View(s, a).txns[d] \in Seq(Entry)
      /\ Len(row[a].txns[d]) <= Len(View(s, a).txns[d])
      /\ \A i \in 1..Len(row[a].txns[d]) : View(s, a).txns[d][i] = row[a].txns[d][i]
      /\ \A i \in (Len(row[a].txns[d]) + 1)..Len(View(s, a).txns[d]) :
           Mine(s, a) /\ View(s, a) = work[s][a]
  <2>1. /\ row[a].txns[d] \in Seq(Entry) /\ View(s, a).txns[d] \in Seq(Entry)
        /\ Len(row[a].txns[d]) \in Nat
    BY Txns DEF Safe
  <2>2. CASE Mine(s, a)
    BY <2>1, <2>2 DEF View, Extends
  <2>3. CASE ~Mine(s, a)
    BY <2>1, <2>3 DEF View
  <2>4. QED BY <2>2, <2>3
<1> DEFINE old == row[a].txns[d]
           t == View(s, a).txns[d]
           new == q.txns[d]
<1>4. /\ old \in Seq(Entry) /\ t \in Seq(Entry) /\ Len(old) <= Len(t)
      /\ \A i \in 1..Len(old) : t[i] = old[i]
      /\ \A i \in (Len(old) + 1)..Len(t) : Mine(s, a) /\ t = work[s][a].txns[d]
  BY <1>3
<1>5. /\ d = b => new = Append(t, e)
      /\ d # b => new = t
  BY <1>2
<1>6. d = b => q.txns[b] = new
  OBVIOUS
<1> HIDE DEF old, t, new
<1>7. /\ Len(old) <= Len(new)
      /\ \A i \in 1..Len(old) : new[i] = old[i]
      /\ \A i \in (Len(old) + 1)..Len(new) :
           \/ i \in (Len(old) + 1)..Len(t) /\ t[i] = new[i]
           \/ d = b /\ i = Len(new) /\ new[i] = e
  <2>1. CASE d = b
    BY SMTT(20), <1>4, <1>5, <2>1, AppendTo
  <2>2. CASE d # b
    BY <1>4, <1>5, <2>2
  <2>3. QED BY <2>1, <2>2
<1>8. ASSUME NEW i \in (Len(old) + 1)..Len(new)
      PROVE  \/ /\ i \in (Len(old) + 1)..Len(work[s][a].txns[d])
                /\ Mine(s, a) /\ work[s][a].txns[d][i] = new[i]
             \/ d = b /\ i = Len(new) /\ new[i] = e
  BY <1>4, <1>7
<1>9. QED
  BY <1>6, <1>7, <1>8 DEF Grown, old, new

(* A write that appends one entry. *)
LEMMA PostFresh ==
    ASSUME Safe, NEW s \in Sessions, NEW a \in Accounts, NEW q \in Row, NEW next,
           NEW b \in Books, NEW e \in Entry, Write(s, a, q, next), OneMore(s, a, q, b, e), Extends(s)
    PROVE  /\ Extends(s)'
           /\ \A c \in Accounts, d \in Books, i \in Nat :
                Fresh(s, c, d, i)' =>
                  \/ Fresh(s, c, d, i) /\ KeyAt(s, c, d, i)' = KeyAt(s, c, d, i)
                  \/ c = a /\ d = b /\ i = Len(q.txns[b]) /\ KeyAt(s, c, d, i)' = e.key
<1>1. /\ lock \in [Accounts -> Sessions \cup {None}] /\ work \in [Sessions -> [Accounts -> Row]]
  BY TypeOKGives DEF Safe
<1>2. /\ lock' = [lock EXCEPT ![a] = s] /\ row' = row
      /\ work'[s][a] = q /\ \A c \in Accounts \ {a} : work'[s][c] = work[s][c]
      /\ lock'[a] = s /\ \A c \in Accounts \ {a} : lock'[c] = lock[c]
  BY <1>1 DEF Write
<1>3. \A d \in Books : Grown(s, a, q, b, e, d)
  BY GrownBook
<1>7. Extends(s)'
  <2> SUFFICES ASSUME NEW c \in Accounts, NEW d \in Books, Mine(s, c)'
               PROVE  /\ Len(row[c].txns[d]) <= Len(work'[s][c].txns[d])
                      /\ \A i \in 1..Len(row[c].txns[d]) : work'[s][c].txns[d][i] = row[c].txns[d][i]
    BY <1>2 DEF Extends
  <2>1. CASE c = a
    BY <1>2, <1>3, <2>1 DEF Grown
  <2>2. CASE c # a
    <3>1. Mine(s, c) /\ work'[s][c] = work[s][c]
      BY <1>2, <2>2 DEF Mine
    <3>2. QED BY <3>1 DEF Extends
  <2>3. QED BY <2>1, <2>2
<1>8. ASSUME NEW c \in Accounts, NEW d \in Books, NEW i \in Nat, Fresh(s, c, d, i)'
      PROVE  \/ Fresh(s, c, d, i) /\ KeyAt(s, c, d, i)' = KeyAt(s, c, d, i)
             \/ c = a /\ d = b /\ i = Len(q.txns[b]) /\ KeyAt(s, c, d, i)' = e.key
  <2>1. CASE c = a
    <3>1. i \in (Len(row[a].txns[d]) + 1)..Len(q.txns[d])
      BY <1>2, <1>8, <2>1 DEF Fresh
    <3>2. CASE /\ i \in (Len(row[a].txns[d]) + 1)..Len(work[s][a].txns[d])
               /\ Mine(s, a) /\ work[s][a].txns[d][i] = q.txns[d][i]
      <4>1. Fresh(s, c, d, i)
        BY <2>1, <3>2 DEF Fresh
      <4>2. KeyAt(s, c, d, i)' = KeyAt(s, c, d, i)
        BY <1>2, <2>1, <3>2 DEF KeyAt
      <4>3. QED BY <4>1, <4>2
    <3>3. CASE d = b /\ i = Len(q.txns[b]) /\ q.txns[b][i] = e
      <4>1. KeyAt(s, c, d, i)' = e.key
        BY <1>2, <2>1, <3>3 DEF KeyAt
      <4>2. QED BY <2>1, <3>3, <4>1
    <3>4. QED BY <1>3, <3>1, <3>2, <3>3 DEF Grown
  <2>2. CASE c # a
    <3>1. Fresh(s, c, d, i) /\ KeyAt(s, c, d, i)' = KeyAt(s, c, d, i)
      BY <1>2, <1>8, <2>2 DEF Fresh, KeyAt, Mine
    <3>2. QED BY <3>1
  <2>3. QED BY <2>1, <2>2
<1>9. QED
  BY <1>7, <1>8

-----------------------------------------------------------------------------
(* A keyed movement is applied once. *)

(* A step of s adds fresh entries with key k only, at most one if k is a key. *)
Adds(s, k) ==
    /\ Extends(s)'
    /\ \A c \in Accounts, d \in Books, i \in Nat :
         Fresh(s, c, d, i)' =>
           \/ Fresh(s, c, d, i) /\ KeyAt(s, c, d, i)' = KeyAt(s, c, d, i)
           \/ KeyAt(s, c, d, i)' = k
    /\ k # Null =>
         \E a \in Accounts, b \in Books, n \in Nat :
           \A c \in Accounts, d \in Books, i \in Nat :
             Fresh(s, c, d, i)' =>
               \/ Fresh(s, c, d, i) /\ KeyAt(s, c, d, i)' = KeyAt(s, c, d, i)
               \/ c = a /\ d = b /\ i = n

NewToCopies(s, k) ==
    k # Null => \A c \in Accounts, d \in Books, i \in Nat : Fresh(s, c, d, i) => KeyAt(s, c, d, i) # k

LEMMA AddsApart ==
    ASSUME NEW s \in Sessions, NEW k, Adds(s, k), KeysApart(s), NewToCopies(s, k)
    PROVE  KeysApart(s)'
<1> SUFFICES ASSUME NEW c1 \in Accounts, NEW c2 \in Accounts, NEW d1 \in Books, NEW d2 \in Books,
                    NEW i \in Nat, NEW j \in Nat,
                    Fresh(s, c1, d1, i)', Fresh(s, c2, d2, j)',
                    KeyAt(s, c1, d1, i)' = KeyAt(s, c2, d2, j)', KeyAt(s, c1, d1, i)' # Null
             PROVE  c1 = c2 /\ d1 = d2 /\ i = j
  BY DEF KeysApart
<1> DEFINE Old(c, d, n) == Fresh(s, c, d, n) /\ KeyAt(s, c, d, n)' = KeyAt(s, c, d, n)
<1>1. /\ Old(c1, d1, i) \/ KeyAt(s, c1, d1, i)' = k
      /\ Old(c2, d2, j) \/ KeyAt(s, c2, d2, j)' = k
  BY DEF Adds
<1>2. CASE Old(c1, d1, i) /\ Old(c2, d2, j)
  BY <1>2 DEF KeysApart
<1>3. CASE ~Old(c1, d1, i) /\ ~Old(c2, d2, j)
  <2>1. k # Null
    BY <1>1, <1>3
  <2>2. QED BY <1>3, <2>1 DEF Adds
<1>4. CASE Old(c1, d1, i) /\ ~Old(c2, d2, j)
  BY <1>1, <1>4 DEF NewToCopies
<1>5. CASE ~Old(c1, d1, i) /\ Old(c2, d2, j)
  BY <1>1, <1>5 DEF NewToCopies
<1>6. QED
  BY <1>2, <1>3, <1>4, <1>5

Unlocked == {"idle", "check", "lock", "read"}

LEMMA AddsAppends ==
    ASSUME NEW s \in Sessions, Appends(s), NEW k, NEW next, Adds(s, k), NewToCopies(s, k),
           op'[s] = op[s], pc'[s] = next, next \notin Unlocked,
           next \in SuspenseLeg => k = Null /\ pc[s] \in {"lock", "read"} \cup SuspenseLeg,
           next \in UserLeg => IF pc[s] \in SuspenseLeg THEN k \in {Null, SuspenseKey(op[s].user, op[s].ref)}
                              ELSE pc[s] \in UserLeg /\ k = Null
    PROVE  Appends(s)'
<1>1. Extends(s)' /\ KeysApart(s)'
  BY AddsApart DEF Appends, Adds
<1>2. ASSUME NEW a \in Accounts, NEW b \in Books, NEW i \in Nat, Fresh(s, a, b, i)'
      PROVE  /\ next \in SuspenseLeg => KeyAt(s, a, b, i)' = Null
             /\ next \in UserLeg => KeyAt(s, a, b, i)' \in {Null, SuspenseKey(op[s].user, op[s].ref)}
  <2>1. \/ Fresh(s, a, b, i) /\ KeyAt(s, a, b, i)' = KeyAt(s, a, b, i)
        \/ KeyAt(s, a, b, i)' = k
    BY <1>2 DEF Adds
  <2>2. CASE next \in SuspenseLeg
    <3>1. Fresh(s, a, b, i) => KeyAt(s, a, b, i) = Null
      BY <2>2 DEF Appends, KeysByStep, Fresh
    <3>2. QED BY <2>1, <2>2, <3>1
  <2>3. CASE next \in UserLeg
    <3>1. Fresh(s, a, b, i) => KeyAt(s, a, b, i) \in {Null, SuspenseKey(op[s].user, op[s].ref)}
      BY <2>3 DEF Appends, KeysByStep
    <3>2. QED BY <2>1, <2>3, <3>1
  <2>4. QED BY <2>2, <2>3
<1>3. KeysByStep(s)'
  BY <1>2 DEF KeysByStep, Unlocked
<1>4. QED
  BY <1>1, <1>3 DEF Appends

(* A session that holds no lock has written nothing. *)
LEMMA NothingHeld ==
    ASSUME NEW s \in Sessions, \A a \in Accounts : lock'[a] # s
    PROVE  Appends(s)'
<1>1. \A a \in Accounts : ~Mine(s, a)'
  BY DEF Mine
<1>2. Extends(s)'
  BY <1>1 DEF Extends
<1>3. \A a \in Accounts, b \in Books, i \in Nat : ~Fresh(s, a, b, i)'
  BY <1>1 DEF Fresh
<1>4. KeysApart(s)' /\ KeysByStep(s)'
  BY <1>1, <1>3 DEF KeysApart, KeysByStep
<1>5. QED
  BY <1>2, <1>4 DEF Appends

(* What others have written is as it was. *)
LEMMA OthersAppend ==
    ASSUME NEW t \in Sessions, Apart(t), Appends(t)
    PROVE  Appends(t)'
<1>1. /\ pc'[t] = pc[t] /\ op'[t] = op[t] /\ work'[t] = work[t]
      /\ \A a \in Accounts : /\ Mine(t, a)' <=> Mine(t, a)
                             /\ Mine(t, a) => row'[a] = row[a]
  BY DEF Apart, Mine
<1>2. Extends(t)'
  BY <1>1 DEF Appends, Extends
<1>3. \A a \in Accounts, b \in Books, i \in Nat :
        /\ Fresh(t, a, b, i)' <=> Fresh(t, a, b, i)
        /\ KeyAt(t, a, b, i)' = KeyAt(t, a, b, i)
  BY <1>1 DEF Fresh, KeyAt
<1>4. KeysApart(t)'
  BY <1>3 DEF Appends, KeysApart
<1>5. KeysByStep(t)'
  BY <1>1, <1>3 DEF Appends, KeysByStep
<1>6. QED
  BY <1>2, <1>4, <1>5 DEF Appends

(* The ways an action adds entries. *)
LEMMA WriteStays ==
    ASSUME Safe, NEW s \in Sessions, NEW a \in Accounts, NEW q \in Row, NEW next,
           Write(s, a, q, next)
    PROVE  op'[s] = op[s] /\ pc'[s] = next
<1>1. pc \in [Sessions -> Pcs] /\ pc' = [pc EXCEPT ![s] = next] /\ op' = op
  BY TypeOKGives DEF Safe, Write
<1>2. QED
  BY <1>1

LEMMA SameTxnsAdds ==
    ASSUME Safe, NEW s \in Sessions, NEW a \in Accounts, NEW q \in Row, NEW next,
           Write(s, a, q, next), q.txns = View(s, a).txns, Extends(s)
    PROVE  Adds(s, Null)
BY SameTxnsFresh DEF Adds

LEMMA PostAdds ==
    ASSUME Safe, NEW s \in Sessions, NEW a \in Accounts, NEW q \in Row, NEW next,
           NEW b \in Books, NEW e \in Entry, Write(s, a, q, next), OneMore(s, a, q, b, e),
           Extends(s), NEW k, k = e.key
    PROVE  Adds(s, k)
<1>1. /\ Extends(s)'
      /\ \A c \in Accounts, d \in Books, i \in Nat :
           Fresh(s, c, d, i)' =>
             \/ Fresh(s, c, d, i) /\ KeyAt(s, c, d, i)' = KeyAt(s, c, d, i)
             \/ c = a /\ d = b /\ i = Len(q.txns[b]) /\ KeyAt(s, c, d, i)' = k
  BY PostFresh
<1>2. Len(q.txns[b]) \in Nat
  <2>1. q.txns[b] \in Seq(Entry)
    BY RowFields
  <2>2. \A t \in Seq(Entry) : Len(t) \in Nat
    OBVIOUS
  <2>3. QED BY <2>1, <2>2
<1> DEFINE n == Len(q.txns[b])
<1>3. QED
  <2>1. n \in Nat
    BY <1>2
  <2> HIDE DEF n
  <2>2. \A c \in Accounts, d \in Books, i \in Nat :
           Fresh(s, c, d, i)' =>
             \/ Fresh(s, c, d, i) /\ KeyAt(s, c, d, i)' = KeyAt(s, c, d, i)
             \/ c = a /\ d = b /\ i = n
    BY <1>1 DEF n
  <2>3. QED BY <1>1, <2>1, <2>2 DEF Adds

LEMMA StillAdds ==
    ASSUME NEW s \in Sessions, row' = row, lock' = lock, work' = work, Extends(s)
    PROVE  Adds(s, Null)
<1>1. Extends(s)'
  BY DEF Extends, Mine
<1>2. \A c \in Accounts, d \in Books, i \in Nat :
        /\ Fresh(s, c, d, i)' <=> Fresh(s, c, d, i)
        /\ KeyAt(s, c, d, i)' = KeyAt(s, c, d, i)
  BY DEF Fresh, KeyAt, Mine
<1>3. QED
  BY <1>1, <1>2 DEF Adds

(* The entry a Post writes. *)
LEMMA PostIsOneMore ==
    ASSUME Safe, NEW s \in Sessions, NEW a \in Accounts, NEW b \in Books, NEW delta \in Int,
           NEW key \in Keyed, NEW reason \in Reasons, NEW ref \in Refs,
           NEW r, r = View(s, a), NEW p, p = Post(r, b, delta, key, reason, ref)
    PROVE  /\ p \in Row
           /\ \E e \in Entry : /\ e.key = key /\ e.delta = delta /\ e.reason = reason /\ e.ref = ref
                               /\ OneMore(s, a, p, b, e)
<1>1. r \in Row
  BY Types DEF Safe
<1>2. p \in Row
  BY <1>1, PostRow
<1> DEFINE e == TxnOf(r, b, delta, key, reason, ref)
<1>3. e \in Entry
  BY <1>1, TxnOfFacts
<1>4. e.key = key /\ e.delta = delta /\ e.reason = reason /\ e.ref = ref
  BY DEF TxnOf
<1>5. p.txns = [r.txns EXCEPT ![b] = Append(r.txns[b], e)]
  BY <1>1, PostTxns
<1> HIDE DEF e
<1>6. OneMore(s, a, p, b, e)
  BY <1>5 DEF OneMore
<1>7. QED
  BY <1>2, <1>3, <1>4, <1>6

LEMMA PostKeyAdds ==
    ASSUME Safe, NEW s \in Sessions, NEW a \in Accounts, NEW b \in Books, NEW delta \in Int,
           NEW key \in Keyed, NEW reason \in Reasons, NEW ref \in Refs, NEW next,
           Write(s, a, Post(View(s, a), b, delta, key, reason, ref), next), Extends(s)
    PROVE  Adds(s, key) /\ op'[s] = op[s] /\ pc'[s] = next
<1> DEFINE r == View(s, a)
           p == Post(r, b, delta, key, reason, ref)
<1>1. Write(s, a, p, next) /\ r = View(s, a)
  OBVIOUS
<1> HIDE DEF r
<1>2. p = Post(r, b, delta, key, reason, ref)
  OBVIOUS
<1> HIDE DEF p
<1>3. p \in Row
  BY <1>1, <1>2, PostIsOneMore
<1>4. PICK e \in Entry : e.key = key /\ OneMore(s, a, p, b, e)
  BY <1>1, <1>2, PostIsOneMore
<1>5. Adds(s, key)
  BY <1>1, <1>3, <1>4, PostAdds
<1>6. QED
  BY <1>1, <1>3, <1>5, WriteStays

(* One lemma per kind of action. *)
LEMMA FreeOfCopies ==
    ASSUME NEW s \in Sessions, Appends(s), pc[s] \in Unlocked
    PROVE  /\ \A a \in Accounts : ~Mine(s, a) /\ View(s, a) = row[a]
           /\ \A k : NewToCopies(s, k)
BY DEF Appends, KeysByStep, Unlocked, View, NewToCopies, Fresh

LEMMA EndKeys == ASSUME NEW s \in Sessions, End(s) PROVE Appends(s)'
<1>1. \A a \in Accounts : lock'[a] # s
  BY DEF End, Mine
<1>2. QED
  BY <1>1, NothingHeld

LEMMA RollbackKeys == ASSUME NEW s \in Sessions, Rollback(s) PROVE Appends(s)'
BY EndKeys DEF Rollback

(* Before the first lock. *)
LEMMA UnlockedKeys ==
    ASSUME Safe, NEW s \in Sessions, Appends(s), pc[s] \in Unlocked, lock' = lock
    PROVE  Appends(s)'
<1>1. \A a \in Accounts : lock'[a] # s
  BY FreeOfCopies DEF Mine
<1>2. QED
  BY <1>1, NothingHeld

LEMMA SameTxnsKeys ==
    ASSUME Safe, NEW s \in Sessions, Appends(s), NEW a \in Accounts, NEW q \in Row, NEW next,
           Write(s, a, q, next), q.txns = View(s, a).txns, next \notin Unlocked,
           next \in SuspenseLeg => pc[s] \in {"lock", "read"}, next \notin UserLeg
    PROVE  Appends(s)'
<1>1. Adds(s, Null) /\ op'[s] = op[s] /\ pc'[s] = next
  BY SameTxnsAdds, WriteStays DEF Appends
<1>2. NewToCopies(s, Null)
  BY DEF NewToCopies
<1>3. QED
  BY <1>1, <1>2, AddsAppends

LEMMA ContinueKeys ==
    ASSUME Safe, NEW s \in Sessions, Appends(s), NEW next, Continue(s, next), next \notin Unlocked,
           next \in SuspenseLeg => pc[s] \in SuspenseLeg,
           next \in UserLeg => pc[s] \in SuspenseLeg \cup UserLeg
    PROVE  Appends(s)'
<1>1. /\ row' = row /\ lock' = lock /\ work' = work /\ op'[s] = op[s] /\ pc'[s] = next
  BY TypeOKGives DEF Continue, Safe
<1>2. Adds(s, Null) /\ NewToCopies(s, Null)
  BY <1>1, StillAdds DEF Appends, NewToCopies
<1>3. QED
  BY <1>1, <1>2, AddsAppends

(* The first entry of a transaction, under any key. *)
LEMMA FirstPostKeys ==
    ASSUME Safe, NEW s \in Sessions, Appends(s), pc[s] \in Unlocked, NEW a \in Accounts,
           NEW b \in Books, NEW delta \in Int, NEW key \in Keyed, NEW reason \in Reasons,
           NEW ref \in Refs, NEW next \in {"sweep", "commit"},
           Write(s, a, Post(row[a], b, delta, key, reason, ref), next)
    PROVE  Appends(s)'
<1> DEFINE r == row[a]
           p == Post(r, b, delta, key, reason, ref)
<1>1. r = View(s, a) /\ NewToCopies(s, key)
  BY FreeOfCopies
<1>2. Write(s, a, p, next)
  OBVIOUS
<1> HIDE DEF r
<1>3. Write(s, a, Post(View(s, a), b, delta, key, reason, ref), next)
  BY <1>1, <1>2
<1>4. Adds(s, key) /\ op'[s] = op[s] /\ pc'[s] = next
  BY <1>3, PostKeyAdds DEF Appends
<1>5. QED
  BY <1>1, <1>4, AddsAppends DEF Unlocked

LEMMA CreditKeys ==
    ASSUME Safe, NEW s \in Sessions, Appends(s), CreditWallet(s) \/ DebitWallet(s)
    PROVE  Appends(s)'
<1> DEFINE o == op[s]
           r == row[o.user]
           next == IF o.book = "PRIMARY" /\ r.lien > 0 THEN "sweep" ELSE "commit"
<1>1. o.user \in Accounts /\ o.book \in Books /\ o.amt \in Int /\ -o.amt \in Int /\ o.key \in Keyed
  <2>1. o \in Ops
    BY Types, NoOpFacts DEF Safe
  <2>2. o.user \in Accounts /\ o.book \in Books /\ o.amt \in Nat /\ o.key \in Keyed
    BY <2>1, OpFields
  <2>3. QED BY <2>2
<1>2. pc[s] \in Unlocked /\ "MOVE" \in Reasons /\ Null \in Refs
  BY DEF CreditWallet, DebitWallet, At, Unlocked, Reasons, Refs
<1>3. \/ Write(s, o.user, Post(r, o.book, o.amt, o.key, "MOVE", Null), next)
      \/ Write(s, o.user, Post(r, o.book, -o.amt, o.key, "MOVE", Null), "commit")
      \/ Rollback(s)
  BY DEF CreditWallet, DebitWallet
<1>4. next \in {"sweep", "commit"} /\ "commit" \in {"sweep", "commit"}
  OBVIOUS
<1> HIDE DEF next
<1>5. CASE Write(s, o.user, Post(r, o.book, o.amt, o.key, "MOVE", Null), next)
  BY <1>1, <1>2, <1>4, <1>5, FirstPostKeys
<1>6. CASE Write(s, o.user, Post(r, o.book, -o.amt, o.key, "MOVE", Null), "commit")
  BY <1>1, <1>2, <1>4, <1>6, FirstPostKeys
<1>7. QED
  BY <1>3, <1>5, <1>6, RollbackKeys

LEMMA HoldWrites ==
    ASSUME Safe, NEW s \in Sessions, HoldFunds(s) \/ ReleaseHold(s)
    PROVE  \/ Rollback(s)
           \/ \E q \in Row : Write(s, op[s].user, q, "commit") /\ q.txns = row[op[s].user].txns
<1> DEFINE o == op[s]
           r == row[o.user]
<1>1. PICK h \in {o.amt, -o.amt} :
        Rollback(s) \/ Write(s, o.user, [r EXCEPT !.held = r.held + h], "commit")
  <2>1. \/ Rollback(s)
        \/ Write(s, o.user, [r EXCEPT !.held = r.held + o.amt], "commit")
        \/ Write(s, o.user, [r EXCEPT !.held = r.held - o.amt], "commit")
    BY DEF HoldFunds, ReleaseHold, Hold, Unhold
  <2>2. r.held - o.amt = r.held + (-o.amt)
    <3>1. o.user \in Accounts /\ o.amt \in Nat
      BY Types, NoOpFacts, OpFields DEF Safe
    <3>2. r.held \in Int
      BY <3>1, Types, RowFields DEF Safe
    <3>3. QED BY <3>1, <3>2
  <2>3. QED BY <2>1, <2>2
<1>2. o.user \in Accounts /\ h \in Int
  BY Types, NoOpFacts, OpFields DEF Safe
<1>3. r \in Row
  BY <1>2, Types DEF Safe
<1> DEFINE q == [r EXCEPT !.held = r.held + h]
<1>4. q \in Row /\ q.txns = r.txns
  <2>1. r.held + h \in Int
    BY <1>2, <1>3, RowFields
  <2> HIDE DEF r, o
  <2>2. QED BY <1>3, <2>1, WriteHeld
<1>5. QED
  BY <1>1, <1>4

LEMMA HoldKeys ==
    ASSUME Safe, NEW s \in Sessions, Appends(s), HoldFunds(s) \/ ReleaseHold(s)
    PROVE  Appends(s)'
<1>1. op[s].user \in Accounts
  BY Types, NoOpFacts, OpFields DEF Safe
<1>2. pc[s] \in Unlocked
  BY DEF HoldFunds, ReleaseHold, At, Unlocked
<1>3. row[op[s].user] = View(s, op[s].user)
  BY <1>1, <1>2, FreeOfCopies
<1>4. ASSUME NEW q \in Row, Write(s, op[s].user, q, "commit"), q.txns = row[op[s].user].txns
      PROVE  Appends(s)'
  BY <1>1, <1>3, <1>4, SameTxnsKeys DEF Unlocked
<1>5. QED
  BY <1>4, HoldWrites, RollbackKeys

LEMMA CaptureTxns ==
    ASSUME Safe, NEW s \in Sessions, NEW a \in Accounts, NEW amt \in Nat, NEW key \in Keyed,
           NEW r, r = View(s, a), NEW q, q = Capture(r, amt, key)
    PROVE  q \in Row /\ \E e \in Entry : e.key = key /\ e.reason = "MOVE" /\ OneMore(s, a, q, "PRIMARY", e)
<1> DEFINE b == "PRIMARY"
           delta == -amt
           p == Post(r, b, delta, key, "MOVE", Null)
<1>1. delta \in Int /\ "MOVE" \in Reasons /\ Null \in Refs /\ b \in Books
  BY DEF Reasons, Refs
<1>2. q = [p EXCEPT !.held = p.held - amt]
  BY DEF Capture, Unhold
<1> HIDE DEF delta
<1>3. p \in Row /\ \E e \in Entry : e.key = key /\ e.reason = "MOVE" /\ OneMore(s, a, p, b, e)
  BY <1>1, PostIsOneMore
<1> HIDE DEF p
<1>4. p.held - amt \in Int
  BY <1>3, RowFields
<1>5. q \in Row /\ q.txns = p.txns
  BY <1>2, <1>3, <1>4, WriteHeld
<1>6. QED
  BY <1>3, <1>5 DEF OneMore

LEMMA CaptureKeys ==
    ASSUME Safe, NEW s \in Sessions, Appends(s), CaptureHold(s)
    PROVE  Appends(s)'
<1> DEFINE o == op[s]
           r == row[o.user]
           q == Capture(r, o.amt, o.key)
<1>1. o.user \in Accounts /\ o.amt \in Nat /\ o.key \in Keyed
  BY Types, NoOpFacts, OpFields DEF Safe
<1>2. pc[s] \in Unlocked
  BY DEF CaptureHold, At, Unlocked
<1>3. r = View(s, o.user) /\ NewToCopies(s, o.key)
  BY <1>1, <1>2, FreeOfCopies
<1>4. Rollback(s) \/ Write(s, o.user, q, "commit")
  BY DEF CaptureHold
<1> HIDE DEF r
<1>5. q \in Row /\ \E e \in Entry : e.key = o.key /\ OneMore(s, o.user, q, "PRIMARY", e)
  <2> HIDE DEF o
  <2>1. QED BY <1>1, <1>3, CaptureTxns
<1> HIDE DEF q
<1>6. CASE Write(s, o.user, q, "commit")
  <2>1. Adds(s, o.key) /\ op'[s] = op[s] /\ pc'[s] = "commit"
    BY <1>1, <1>5, <1>6, PostAdds, WriteStays DEF Appends
  <2>2. QED BY <1>3, <2>1, AddsAppends DEF Unlocked
<1>7. QED
  BY <1>4, <1>6, RollbackKeys

(* The desk writes the lien columns and leaves the passbooks alone. *)
LEMMA LienColumns ==
    ASSUME NEW r \in Row
    PROVE  /\ \A amt \in Nat : PlaceLien(r, amt) \in Row /\ PlaceLien(r, amt).txns = r.txns
           /\ \A amt \in Int : ReleaseFreeze(r, amt) \in Row /\ ReleaseFreeze(r, amt).txns = r.txns
           /\ \A i \in Nat : CloseLien(r, i) \in Row /\ CloseLien(r, i).txns = r.txns
<1>1. ASSUME NEW amt \in Nat
      PROVE  PlaceLien(r, amt) \in Row /\ PlaceLien(r, amt).txns = r.txns
  <2> DEFINE l == [status |-> "ACTIVE", amount |-> amt, recovered |-> 0]
             ls == Append(r.liens, l)
             p == [r EXCEPT !.liens = ls]
             v == r.lien + amt
             q == SetFrozen(p, v)
  <2>1. PlaceLien(r, amt) = q
    BY DEF PlaceLien, AddLien
  <2>2. l \in Lien /\ r.liens \in Seq(Lien) /\ v \in Int
    BY RowFields DEF Lien, Liens
  <2> HIDE DEF l, v
  <2>3. ls \in Liens
    BY <2>2 DEF Liens
  <2> HIDE DEF ls
  <2>4. p \in Row /\ p.txns = r.txns
    BY <2>3, WriteLiens
  <2> HIDE DEF p
  <2>5. q \in Row /\ q.txns = p.txns
    BY <2>2, <2>4, WriteFrozen
  <2>6. QED BY <2>1, <2>4, <2>5
<1>2. ASSUME NEW amt \in Int
      PROVE  ReleaseFreeze(r, amt) \in Row /\ ReleaseFreeze(r, amt).txns = r.txns
  <2>1. Floor0(r.lien - amt) \in Int
    BY RowFields DEF Floor0
  <2>2. QED BY <2>1, WriteFrozen DEF ReleaseFreeze
<1>3. ASSUME NEW i \in Nat
      PROVE  CloseLien(r, i) \in Row /\ CloseLien(r, i).txns = r.txns
  <2> DEFINE l == [r.liens[i] EXCEPT !.status = "RELEASED"]
  <2>1. ASSUME i \in 1..Len(r.liens) PROVE l \in Lien
    <3>1. r.liens[i] \in Lien
      BY <2>1, LienAt
    <3>2. QED
      BY <3>1 DEF Lien
  <2>2. QED
    BY <2>1, SetLienFacts DEF CloseLien
<1>4. QED
  BY <1>1, <1>2, <1>3

LEMMA DeskWrites ==
    ASSUME Safe, NEW s \in Sessions, PlaceWalletLien(s) \/ ReleaseWalletLien(s) \/ ReverseFrozen(s)
    PROVE  \E q \in Row, next \in {"sweep", "commit", "debitSuspense", "close"} :
             Write(s, op[s].user, q, next) /\ q.txns = row[op[s].user].txns
<1> DEFINE u == op[s].user
           r == row[u]
<1>1. u \in Accounts /\ op[s].amt \in Nat /\ op[s].ref \in Nat
  BY Types, NoOpFacts, OpFields DEF Safe
<1>3. r \in Row
  BY <1>1, Types DEF Safe
<1>4. \E q \in Row, next \in {"sweep", "commit", "debitSuspense", "close"} :
        Write(s, u, q, next) /\ q.txns = r.txns
  <2>1. CASE PlaceWalletLien(s)
    BY <1>1, <1>3, <2>1, LienColumns DEF PlaceWalletLien
  <2>2. CASE ReleaseWalletLien(s)
    <3>1. PICK x \in seen[s] :
            Write(s, u, CloseLien(ReleaseFreeze(r, Outstanding(x.lien)), op[s].ref), "commit")
      BY <2>2 DEF ReleaseWalletLien
    <3>2. Outstanding(x.lien) \in Int
      BY SeenFacts
    <3> DEFINE f == ReleaseFreeze(r, Outstanding(x.lien))
    <3>3. f \in Row /\ f.txns = r.txns
      BY <1>3, <3>2, LienColumns
    <3>4. Write(s, u, CloseLien(f, op[s].ref), "commit")
      BY <3>1
    <3> HIDE DEF f, u
    <3>5. CloseLien(f, op[s].ref) \in Row /\ CloseLien(f, op[s].ref).txns = f.txns
      BY <1>1, <3>3, LienColumns
    <3>6. QED BY <3>3, <3>4, <3>5
  <2>3. CASE ReverseFrozen(s)
    <3>1. PICK x \in seen[s] :
            Write(s, u, ReleaseFreeze(r, Outstanding(x.lien)),
                  IF x.lien.recovered > 0 THEN "debitSuspense" ELSE "close")
      BY <2>3 DEF ReverseFrozen
    <3>2. Outstanding(x.lien) \in Int
      BY SeenFacts
    <3>3. QED BY <1>3, <3>1, <3>2, LienColumns
  <2>4. QED BY <2>1, <2>2, <2>3
<1>5. QED
  BY <1>4

LEMMA DeskKeys ==
    ASSUME Safe, NEW s \in Sessions, Appends(s),
           PlaceWalletLien(s) \/ ReleaseWalletLien(s) \/ ReverseFrozen(s)
    PROVE  Appends(s)'
<1>1. op[s].user \in Accounts
  BY Types, NoOpFacts, OpFields DEF Safe
<1>2. pc[s] \in Unlocked /\ pc[s] = "lock"
  BY DEF PlaceWalletLien, ReleaseWalletLien, ReverseFrozen, At, Unlocked
<1>3. row[op[s].user] = View(s, op[s].user)
  BY <1>1, <1>2, FreeOfCopies
<1>4. PICK q \in Row, next \in {"sweep", "commit", "debitSuspense", "close"} :
        Write(s, op[s].user, q, next) /\ q.txns = row[op[s].user].txns
  BY DeskWrites
<1>5. next \notin Unlocked /\ next \notin UserLeg
      /\ (next \in SuspenseLeg => pc[s] \in {"lock", "read"})
  BY <1>2 DEF Unlocked
<1>6. QED
  BY <1>1, <1>3, <1>4, <1>5, SameTxnsKeys

(* The sweep. *)
LEMMA SweepKeys ==
    ASSUME Safe, NEW s \in Sessions, Appends(s), ReadLiens(s) \/ SweepDone(s)
    PROVE  Appends(s)'
<1>1. PICK next \in {"take", "close", "commit"} : Continue(s, next)
  <2>1. AfterSweep(s) \in {"close", "commit"}
    BY AfterSweepFacts
  <2>2. Continue(s, AfterSweep(s)) \/ Continue(s, "take")
    BY DEF ReadLiens, SweepDone
  <2>3. QED BY <2>1, <2>2
<1>2. next \notin Unlocked /\ next \notin SuspenseLeg /\ next \notin UserLeg
  BY DEF Unlocked
<1>3. QED
  BY <1>1, <1>2, ContinueKeys

LEMMA LockKeys ==
    ASSUME Safe, NEW s \in Sessions, Appends(s), LockForSweep(s)
    PROVE  Appends(s)'
<1> DEFINE u == op[s].user
           r == row[u]
<1>1. u \in Accounts
  BY Types, NoOpFacts, OpFields DEF Safe
<1>2. Write(s, u, r, "take") /\ r = View(s, u)
  BY DEF LockForSweep, View
<1>3. r \in Row
  BY <1>1, Types DEF Safe
<1> HIDE DEF r
<1>4. QED
  BY <1>1, <1>2, <1>3, SameTxnsKeys DEF Unlocked

LEMMA TakeTxns ==
    ASSUME NEW r \in Row, NEW u \in Retailers, NEW i \in Nat, NEW l \in Lien,
           Outstanding(l) > 0, Available(r) > 0, Good(r),
           NEW q, q = TakeFromUser(r, u, i, l)
    PROVE  /\ q \in Row /\ TakeAmount(r, l) \in Nat
           /\ q.txns = Post(r, "PRIMARY", -TakeAmount(r, l), Null, "LIEN", <<u, i>>).txns
<1> DEFINE s == TakeAmount(r, l)
           delta == -s
           left == r.lien - s
           posted == Post(r, "PRIMARY", delta, Null, "LIEN", <<u, i>>)
           thawed == SetFrozen(posted, left)
           done == [status |-> IF l.recovered + s >= l.amount THEN "RECOVERED" ELSE r.liens[i].status,
                    amount |-> l.amount, recovered |-> l.recovered + s]
<1>1. q = SetLien(thawed, i, done)
  BY DEF TakeFromUser
<1>2. l.amount \in Nat /\ l.recovered \in Nat /\ Available(r) \in Int
  BY RowFields, LienFields DEF Available
<1>3. s \in Nat /\ l.recovered + s \in Nat /\ delta \in Int /\ left \in Int
  <2>1. s \in Nat
    BY <1>2 DEF TakeAmount, Smaller, Outstanding
  <2> HIDE DEF s
  <2>2. QED BY <1>2, <2>1, RowFields
<1> HIDE DEF s, delta, left
<1>4. <<u, i>> \in Refs /\ Null \in Keyed /\ "LIEN" \in Reasons
  BY DEF Refs, Keyed, Reasons
<1>5. posted \in Row /\ posted.liens = r.liens
  BY <1>3, <1>4, PostRow
<1>6. ASSUME i \in 1..Len(r.liens) PROVE done \in Lien
  <2>1. r.liens[i].status \in {"ACTIVE", "RECOVERED", "RELEASED"}
    BY <1>6, LienAt, LienFields
  <2>2. QED
    BY <1>2, <1>3, <2>1 DEF Lien
<1> HIDE DEF posted, done
<1>7. thawed \in Row /\ thawed.txns = posted.txns /\ thawed.liens = posted.liens
  BY Z3, <1>3, <1>5, WriteFrozen
<1> HIDE DEF thawed
<1>8. i \in 1..Len(thawed.liens) => done \in Lien
  BY <1>5, <1>6, <1>7
<1>9. /\ q \in Row /\ q.held = thawed.held /\ q.bal = thawed.bal /\ q.txns = thawed.txns
  <2>1. thawed \in Row /\ q = SetLien(thawed, i, done)
    BY <1>1, <1>7
  <2>2. QED BY <1>8, <2>1, SetLienFacts
<1>10. QED
  BY <1>3, <1>7, <1>9 DEF posted, delta, s

LEMMA ExtendsNext ==
    ASSUME NEW s, row' = row,
           \A c \in Accounts, d \in Books :
              Mine(s, c)' =>
                /\ Len(row[c].txns[d]) <= Len(work'[s][c].txns[d])
                /\ \A i \in 1..Len(row[c].txns[d]) : work'[s][c].txns[d][i] = row[c].txns[d][i]
    PROVE  Extends(s)'
BY DEF Extends

(* A round of the sweep writes two copies, each with one entry more. *)
LEMMA TakeAdds ==
    ASSUME Safe, NEW s \in Sessions, Extends(s), NEW u \in Accounts \ {Suspense},
           NEW q \in Row, NEW p \in Row, NEW e \in Entry, NEW f \in Entry,
           Mine(s, u), lock' = [lock EXCEPT ![Suspense] = s], row' = row,
           work' = [work EXCEPT ![s][u] = q, ![s][Suspense] = p],
           OneMore(s, u, q, "PRIMARY", e), OneMore(s, Suspense, p, "PRIMARY", f),
           e.key = Null, f.key = Null
    PROVE  Adds(s, Null)
<1>0. Suspense \in Accounts
  BY DEF Accounts
<1>1. /\ lock \in [Accounts -> Sessions \cup {None}] /\ work \in [Sessions -> [Accounts -> Row]]
  BY TypeOKGives DEF Safe
<1>2. /\ work'[s][u] = q /\ work'[s][Suspense] = p
      /\ \A c \in Accounts \ {u, Suspense} : work'[s][c] = work[s][c]
      /\ lock'[Suspense] = s /\ \A c \in Accounts \ {Suspense} : lock'[c] = lock[c]
      /\ row' = row
  BY <1>0, <1>1
<1>3. \A d \in Books : Grown(s, u, q, "PRIMARY", e, d) /\ Grown(s, Suspense, p, "PRIMARY", f, d)
  BY <1>0, GrownBook
<1>4. Extends(s)'
  <2> SUFFICES ASSUME NEW c \in Accounts, NEW d \in Books, Mine(s, c)'
               PROVE  /\ Len(row[c].txns[d]) <= Len(work'[s][c].txns[d])
                      /\ \A i \in 1..Len(row[c].txns[d]) : work'[s][c].txns[d][i] = row[c].txns[d][i]
    BY ExtendsNext
  <2>1. CASE c = u
    <3>1. work'[s][c] = q /\ Grown(s, c, q, "PRIMARY", e, d)
      BY <1>2, <1>3, <2>1
    <3>2. QED BY <3>1 DEF Grown
  <2>2. CASE c = Suspense
    <3>1. work'[s][c] = p /\ Grown(s, c, p, "PRIMARY", f, d)
      BY <1>2, <1>3, <2>2
    <3>2. QED BY <3>1 DEF Grown
  <2>3. CASE c \notin {u, Suspense}
    <3>1. Mine(s, c) /\ work'[s][c] = work[s][c]
      BY <1>2, <2>3 DEF Mine
    <3>2. QED BY ZenonT(30), <3>1 DEF Extends
  <2>4. QED BY <2>1, <2>2, <2>3
<1>5. ASSUME NEW c \in Accounts, NEW d \in Books, NEW i \in Nat, Fresh(s, c, d, i)'
      PROVE  \/ Fresh(s, c, d, i) /\ KeyAt(s, c, d, i)' = KeyAt(s, c, d, i)
             \/ KeyAt(s, c, d, i)' = Null
  <2>1. ASSUME NEW a \in Accounts, NEW g \in Row, NEW h \in Entry, h.key = Null, c = a,
               work'[s][a] = g, Grown(s, a, g, "PRIMARY", h, d)
        PROVE  \/ Fresh(s, c, d, i) /\ KeyAt(s, c, d, i)' = KeyAt(s, c, d, i)
               \/ KeyAt(s, c, d, i)' = Null
    <3>1. i \in (Len(row[a].txns[d]) + 1)..Len(g.txns[d])
      BY <1>5, <2>1 DEF Fresh
    <3>2. CASE /\ i \in (Len(row[a].txns[d]) + 1)..Len(work[s][a].txns[d])
               /\ Mine(s, a) /\ work[s][a].txns[d][i] = g.txns[d][i]
      <4>1. Fresh(s, c, d, i)
        BY <2>1, <3>2 DEF Fresh
      <4>2. KeyAt(s, c, d, i)' = KeyAt(s, c, d, i)
        BY <2>1, <3>2 DEF KeyAt
      <4>3. QED BY <4>1, <4>2
    <3>3. CASE d = "PRIMARY" /\ g.txns["PRIMARY"][i] = h
      BY <2>1, <3>3 DEF KeyAt
    <3>4. QED BY <2>1, <3>1, <3>2, <3>3 DEF Grown
  <2>2. CASE c = u
    BY <1>2, <1>3, <2>1, <2>2
  <2>3. CASE c = Suspense
    BY <1>0, <1>2, <1>3, <2>1, <2>3
  <2>4. CASE c \notin {u, Suspense}
    <3>1. Fresh(s, c, d, i) /\ KeyAt(s, c, d, i)' = KeyAt(s, c, d, i)
      BY <1>2, <1>5, <2>4 DEF Fresh, KeyAt, Mine
    <3>2. QED BY <3>1
  <2>5. QED BY <2>2, <2>3, <2>4
<1>6. QED
  BY <1>4, <1>5 DEF Adds

(* The two copies a round writes, and the entries it appends to them. *)
Round(s, u, q, p, e, f) ==
    /\ work' = [work EXCEPT ![s][u] = q, ![s][Suspense] = p]
    /\ OneMore(s, u, q, "PRIMARY", e) /\ OneMore(s, Suspense, p, "PRIMARY", f)
    /\ e.key = Null /\ f.key = Null

(* One recovered amount, leaving one passbook and entering the other. *)
Opposite(e, f) == e.delta = -f.delta /\ e.reason = "LIEN" /\ f.reason = "LIEN" /\ e.ref = f.ref

LEMMA TakeWrites ==
    ASSUME Safe, NEW s \in Sessions, TakeFromLien(s)
    PROVE  /\ op[s].user \in Accounts \ {Suspense} /\ Suspense \in Accounts
           /\ pc[s] = "take" /\ Mine(s, op[s].user) /\ lock' = [lock EXCEPT ![Suspense] = s]
           /\ row' = row /\ pc' = pc /\ op' = op
           /\ \E q \in Row, p \in Row, e \in Entry, f \in Entry :
                Round(s, op[s].user, q, p, e, f) /\ Opposite(e, f)
<1> DEFINE u == op[s].user
           r == work[s][u]
           rs == View(s, Suspense)
<1>1. PICK x \in seen[s] :
        work' = [work EXCEPT ![s][u] = TakeFromUser(r, u, x.i, x.lien),
                             ![s][Suspense] = TakeToSuspense(rs, TakeAmount(r, x.lien), u, x.i)]
  BY DEF TakeFromLien
<1>2. /\ pc[s] = "take" /\ Mine(s, u) /\ Available(r) > 0
      /\ lock' = [lock EXCEPT ![Suspense] = s]
      /\ row' = row /\ pc' = pc /\ op' = op
  BY DEF TakeFromLien
<1>3. u \in Retailers /\ u \in Accounts \ {Suspense} /\ Suspense \in Accounts
      /\ Outstanding(x.lien) > 0
  BY <1>2 DEF Safe, ControlOK, Accounts
<1>4. x.i \in Nat /\ x.lien \in Lien
  <2>1. x \in Seen
    BY Types, <1>3 DEF Safe
  <2>2. QED BY <2>1 DEF Seen
<1>5. r \in Row /\ rs \in Row /\ Good(r) /\ r = View(s, u)
  BY <1>2, <1>3, Types, ViewGood DEF Safe, CopiesGood, View
<1> DEFINE amt == TakeAmount(r, x.lien)
           delta == -amt
           q == TakeFromUser(r, u, x.i, x.lien)
           p == TakeToSuspense(rs, amt, u, x.i)
           ref == <<u, x.i>>
           from == Post(r, "PRIMARY", delta, Null, "LIEN", ref)
<1>6. q \in Row /\ amt \in Nat /\ q.txns = from.txns
  <2>1. Available(r) > 0 /\ u \in Retailers
    BY <1>2, <1>3
  <2> HIDE DEF u, r
  <2>2. QED BY <1>3, <1>4, <1>5, <2>1, TakeTxns
<1>7. p = Post(rs, "PRIMARY", amt, Null, "LIEN", ref)
  BY DEF TakeToSuspense
<1>8. ref \in Refs /\ Null \in Keyed /\ "LIEN" \in Reasons /\ delta \in Int /\ amt \in Int
  BY <1>3, <1>4, <1>6 DEF Refs, Keyed, Reasons
<1>9. work' = [work EXCEPT ![s][u] = q, ![s][Suspense] = p] /\ from = Post(r, "PRIMARY", delta, Null, "LIEN", ref)
      /\ rs = View(s, Suspense)
  BY <1>1
<1> HIDE DEF q, p, r, rs, from, ref, delta, amt
<1>10. \E e \in Entry : /\ e.key = Null /\ e.delta = delta /\ e.reason = "LIEN" /\ e.ref = ref
                        /\ OneMore(s, u, from, "PRIMARY", e)
  BY <1>3, <1>5, <1>8, <1>9, PostIsOneMore
<1>11. PICK e \in Entry : /\ e.key = Null /\ e.delta = delta /\ e.reason = "LIEN" /\ e.ref = ref
                          /\ OneMore(s, u, q, "PRIMARY", e)
  BY <1>6, <1>10 DEF OneMore
<1>12. p \in Row /\ \E f \in Entry : /\ f.key = Null /\ f.delta = amt /\ f.reason = "LIEN" /\ f.ref = ref
                                     /\ OneMore(s, Suspense, p, "PRIMARY", f)
  BY <1>3, <1>7, <1>8, <1>9, PostIsOneMore
<1>13. PICK f \in Entry : /\ f.key = Null /\ f.delta = amt /\ f.reason = "LIEN" /\ f.ref = ref
                          /\ OneMore(s, Suspense, p, "PRIMARY", f)
  BY <1>12
<1>14. Round(s, u, q, p, e, f)
  BY <1>9, <1>11, <1>13 DEF Round
<1>15. delta = -amt
  BY DEF delta
<1>16. q \in Row /\ p \in Row /\ Opposite(e, f)
  BY <1>6, <1>11, <1>12, <1>13, <1>15 DEF Opposite
<1>17. \E q1 \in Row, p1 \in Row, e1 \in Entry, f1 \in Entry :
         Round(s, u, q1, p1, e1, f1) /\ Opposite(e1, f1)
  BY <1>14, <1>16
<1>18. QED
  BY <1>2, <1>3, <1>17

LEMMA TakeKeys ==
    ASSUME Safe, NEW s \in Sessions, Appends(s), TakeFromLien(s)
    PROVE  Appends(s)'
<1>1. /\ op[s].user \in Accounts \ {Suspense} /\ pc[s] = "take" /\ Mine(s, op[s].user)
      /\ lock' = [lock EXCEPT ![Suspense] = s] /\ row' = row /\ pc' = pc /\ op' = op
  BY TakeWrites
<1>2. PICK q \in Row, p \in Row, e \in Entry, f \in Entry : Round(s, op[s].user, q, p, e, f)
  BY TakeWrites
<1>3. Adds(s, Null)
  BY <1>1, <1>2, TakeAdds DEF Appends, Round
<1>4. NewToCopies(s, Null) /\ op'[s] = op[s] /\ pc'[s] = "take"
  BY <1>1 DEF NewToCopies
<1>5. QED
  BY <1>3, <1>4, AddsAppends DEF Unlocked

(* The legs of a reversal. *)
LEMMA LegCheckKeys ==
    ASSUME Safe, NEW s \in Sessions, Appends(s), CheckSuspenseLeg(s) \/ CheckUserLeg(s)
    PROVE  Appends(s)'
<1>1. PICK next : /\ Continue(s, next)
                  /\ \/ pc[s] = "debitSuspense" /\ next \in {"creditUser", "lockSuspense"}
                     \/ pc[s] = "creditUser" /\ next \in {"close", "lockUser"}
  BY DEF CheckSuspenseLeg, CheckUserLeg
<1>2. QED
  BY <1>1, ContinueKeys DEF Unlocked

LEMMA DebitSuspenseKeys ==
    ASSUME Safe, NEW s \in Sessions, Appends(s), ReverseDebitSuspense(s)
    PROVE  Appends(s)'
<1> DEFINE o == op[s]
           key == SuspenseKey(o.user, o.ref)
           ref == <<o.user, o.ref>>
<1>1. o.user \in Retailers /\ o.ref \in Nat /\ pc[s] = "lockSuspense"
  BY Types, NoOpFacts, OpFields DEF ReverseDebitSuspense, Safe, ControlOK
<1>2. key \in Keyed /\ ref \in Refs /\ "REVERSAL" \in Reasons
  BY <1>1, KeyIsKeyed DEF Refs, Reasons
<1>3. Suspense \in Accounts /\ "PRIMARY" \in Books
  BY NoOpFacts
<1>4. PICK x \in seen[s] :
        \/ Write(s, Suspense, Post(View(s, Suspense), "PRIMARY", -x.lien.recovered, key, "REVERSAL", ref),
                 "creditUser")
        \/ Rollback(s)
  BY DEF ReverseDebitSuspense
<1>5. -x.lien.recovered \in Int
  BY SeenFacts
<1> DEFINE delta == -x.lien.recovered
<1>6. CASE Write(s, Suspense, Post(View(s, Suspense), "PRIMARY", delta, key, "REVERSAL", ref), "creditUser")
  <2>1. delta \in Int
    BY <1>5
  <2>2. NewToCopies(s, key)
    <3>1. SUFFICES ASSUME key # Null, NEW c \in Accounts, NEW d \in Books, NEW i \in Nat, Fresh(s, c, d, i)
                   PROVE  KeyAt(s, c, d, i) # key
      BY DEF NewToCopies
    <3>2. KeyAt(s, c, d, i) = Null
      BY <1>1, <3>1 DEF Appends, KeysByStep
    <3>3. QED BY <3>1, <3>2
  <2>3. key \in {Null, SuspenseKey(op[s].user, op[s].ref)}
    OBVIOUS
  <2> HIDE DEF key, ref, delta
  <2>4. Adds(s, key) /\ op'[s] = op[s] /\ pc'[s] = "creditUser"
    BY <1>2, <1>3, <1>6, <2>1, PostKeyAdds DEF Appends
  <2>5. QED BY <1>1, <2>2, <2>3, <2>4, AddsAppends DEF Unlocked
<1>7. QED
  BY <1>4, <1>6, RollbackKeys

LEMMA CreditUserKeys ==
    ASSUME Safe, NEW s \in Sessions, Appends(s), ReverseCreditUser(s)
    PROVE  Appends(s)'
<1> DEFINE o == op[s]
           key == UserKey(o.user, o.ref)
           ref == <<o.user, o.ref>>
           next == IF View(s, o.user).lien > 0 THEN "sweep" ELSE "close"
<1>1. o.user \in Retailers /\ o.user \in Accounts /\ o.ref \in Nat /\ pc[s] = "lockUser"
  BY Types, NoOpFacts, OpFields DEF ReverseCreditUser, Safe, ControlOK, Accounts
<1>2. key \in Keyed /\ ref \in Refs /\ "REVERSAL" \in Reasons /\ "PRIMARY" \in Books
  BY <1>1, KeyIsKeyed DEF Refs, Reasons
<1>3. PICK x \in seen[s] :
        Write(s, o.user, Post(View(s, o.user), "PRIMARY", x.lien.recovered, key, "REVERSAL", ref), next)
  BY DEF ReverseCreditUser
<1>4. x.lien.recovered \in Int
  BY SeenFacts
<1>5. NewToCopies(s, key)
  <2>1. SUFFICES ASSUME key # Null, NEW c \in Accounts, NEW d \in Books, NEW i \in Nat, Fresh(s, c, d, i)
                 PROVE  KeyAt(s, c, d, i) # key
    BY DEF NewToCopies
  <2>2. KeyAt(s, c, d, i) \in {Null, SuspenseKey(o.user, o.ref)}
    BY <1>1, <2>1 DEF Appends, KeysByStep
  <2>3. key # SuspenseKey(o.user, o.ref)
    BY DEF UserKey, SuspenseKey
  <2>4. QED BY <2>1, <2>2, <2>3
<1> DEFINE delta == x.lien.recovered
<1>6. next \in {"sweep", "close"} /\ delta \in Int
  BY <1>4
<1>7. Write(s, o.user, Post(View(s, o.user), "PRIMARY", delta, key, "REVERSAL", ref), next)
  BY <1>3
<1> HIDE DEF key, ref, delta, next
<1>8. Adds(s, key) /\ op'[s] = op[s] /\ pc'[s] = next
  BY <1>1, <1>2, <1>6, <1>7, PostKeyAdds DEF Appends
<1>9. QED
  BY <1>5, <1>6, <1>8, AddsAppends DEF Unlocked

LEMMA CloseKeys ==
    ASSUME Safe, NEW s \in Sessions, Appends(s), ReverseClose(s)
    PROVE  Appends(s)'
<1> DEFINE u == op[s].user
           r == View(s, u)
           i == op[s].ref
           q == CloseLien(r, i)
<1>1. u \in Accounts /\ i \in Nat /\ Write(s, u, q, "commit")
  BY Types, NoOpFacts, OpFields DEF Safe, ReverseClose
<1>2. r \in Row
  BY <1>1, Types DEF Safe
<1>3. r = View(s, u)
  OBVIOUS
<1> HIDE DEF u, r, i
<1>4. q \in Row /\ q.txns = r.txns
  BY <1>1, <1>2, LienColumns
<1> HIDE DEF q
<1>5. q.txns = View(s, u).txns
  BY <1>3, <1>4
<1>6. QED
  BY <1>1, <1>4, <1>5, SameTxnsKeys DEF Unlocked

(* Together: a step of s keeps what s has written in order. *)
LEMMA StepKeys ==
    ASSUME Safe, NEW s \in Sessions, Appends(s), Step(s)
    PROVE  Appends(s)'
<1>1. CASE Arrive(s)
  <2>1. pc[s] \in Unlocked /\ lock' = lock
    BY <1>1 DEF Arrive, Request, DeskRequest, Start, Unlocked
  <2>2. QED BY <2>1, UnlockedKeys
<1>2. CASE Die(s) \/ Reject(s) \/ Commit(s)
  BY <1>2, EndKeys DEF Die, Reject, Commit, Rollback
<1>3. CASE CheckKey(s)
  <2>1. Rollback(s) \/ (pc[s] \in Unlocked /\ lock' = lock)
    BY <1>3 DEF CheckKey, Unlocked
  <2>2. QED BY <2>1, RollbackKeys, UnlockedKeys
<1>4. CASE CreditWallet(s) \/ DebitWallet(s) \/ HoldFunds(s) \/ ReleaseHold(s) \/ CaptureHold(s)
  BY <1>4, CreditKeys, HoldKeys, CaptureKeys
<1>5. CASE ReadLiens(s) \/ LockForSweep(s) \/ TakeFromLien(s) \/ SweepDone(s)
  BY <1>5, SweepKeys, LockKeys, TakeKeys
<1>6. CASE PlaceWalletLien(s) \/ ReleaseWalletLien(s) \/ ReverseFrozen(s)
  BY <1>6, DeskKeys
<1>7. CASE ReadLien(s)
  <2>1. Rollback(s) \/ (pc[s] \in Unlocked /\ lock' = lock)
    BY <1>7 DEF ReadLien, Unlocked, Continue
  <2>2. QED BY <2>1, RollbackKeys, UnlockedKeys
<1>8. CASE \/ CheckSuspenseLeg(s) \/ ReverseDebitSuspense(s)
           \/ CheckUserLeg(s) \/ ReverseCreditUser(s) \/ ReverseClose(s)
  BY <1>8, LegCheckKeys, DebitSuspenseKeys, CreditUserKeys, CloseKeys
<1>9. QED
  BY <1>1, <1>2, <1>3, <1>4, <1>5, <1>6, <1>7, <1>8 DEF Step, SessionStep

(* Only a commit changes the committed rows. *)
LEMMA RowChanges ==
    ASSUME NEW s \in Sessions, Step(s), ~Commit(s)
    PROVE  row' = row
<1>1. CASE Arrive(s) \/ Die(s)
  BY <1>1 DEF Arrive, Request, DeskRequest, Start, Die, Rollback
<1>2. CASE \/ CheckKey(s) \/ CreditWallet(s) \/ DebitWallet(s)
           \/ HoldFunds(s) \/ ReleaseHold(s) \/ CaptureHold(s) \/ Reject(s)
  BY <1>2 DEF CheckKey, CreditWallet, DebitWallet, HoldFunds, ReleaseHold, CaptureHold, Reject,
              Write, Rollback
<1>3. CASE ReadLiens(s) \/ LockForSweep(s) \/ TakeFromLien(s) \/ SweepDone(s)
  BY <1>3 DEF ReadLiens, LockForSweep, TakeFromLien, SweepDone, Write, Continue
<1>4. CASE \/ PlaceWalletLien(s) \/ ReadLien(s) \/ ReleaseWalletLien(s) \/ ReverseFrozen(s)
           \/ CheckSuspenseLeg(s) \/ ReverseDebitSuspense(s)
           \/ CheckUserLeg(s) \/ ReverseCreditUser(s) \/ ReverseClose(s)
  BY <1>4 DEF PlaceWalletLien, ReadLien, ReleaseWalletLien, ReverseFrozen, CheckSuspenseLeg,
              ReverseDebitSuspense, CheckUserLeg, ReverseCreditUser, ReverseClose, Write, Continue, Rollback
<1>5. QED
  BY <1>1, <1>2, <1>3, <1>4 DEF Step, SessionStep

LEMMA InKeysFrom ==
    ASSUME NEW r, NEW from, NEW b \in Books, NEW i \in (from[b] + 1)..Len(r.txns[b]),
           r.txns[b][i].key # Null
    PROVE  r.txns[b][i].key \in KeysFrom(r, from)
<1> DEFINE K(d) == {r.txns[d][j].key : j \in (from[d] + 1)..Len(r.txns[d])}
<1>1. r.txns[b][i].key \in K(b)
  OBVIOUS
<1> HIDE DEF K
<1>2. r.txns[b][i].key \in (UNION {K(d) : d \in Books}) \ {Null}
  BY <1>1
<1>3. QED
  BY <1>2 DEF K, KeysFrom

(* The keys of a passbook, position by position. *)
LEMMA KeyPlaces ==
    ASSUME Safe, NEW s \in Sessions, NEW a \in Accounts, NEW b \in Books, NEW i \in Nat
    PROVE  /\ i \in 1..Len(row[a].txns[b]) /\ row[a].txns[b][i].key # Null
                => row[a].txns[b][i].key \in UsedKeys
           /\ Fresh(s, a, b, i) /\ KeyAt(s, a, b, i) # Null => KeyAt(s, a, b, i) \in NewKeys(s)
<1>1. ASSUME i \in 1..Len(row[a].txns[b]), row[a].txns[b][i].key # Null
      PROVE  row[a].txns[b][i].key \in UsedKeys
  <2>1. row[a].txns[b][i].key \in Keys(row[a])
    <3> DEFINE from == [d \in Books |-> 0]
    <3>1. i \in (from[b] + 1)..Len(row[a].txns[b])
      BY <1>1
    <3> HIDE DEF from
    <3>2. row[a].txns[b][i].key \in KeysFrom(row[a], from)
      BY <1>1, <3>1, InKeysFrom
    <3>3. QED BY <3>2 DEF Keys, from
  <2>2. QED BY <2>1 DEF UsedKeys
<1>2. ASSUME Fresh(s, a, b, i), KeyAt(s, a, b, i) # Null
      PROVE  KeyAt(s, a, b, i) \in NewKeys(s)
  <2>1. Mine(s, a) /\ i \in (Len(row[a].txns[b]) + 1)..Len(work[s][a].txns[b])
    BY <1>2 DEF Fresh
  <2> DEFINE from == [d \in Books |-> Len(row[a].txns[d])]
  <2>2. i \in (from[b] + 1)..Len(work[s][a].txns[b])
    BY <2>1
  <2> HIDE DEF from
  <2>3. KeyAt(s, a, b, i) \in KeysFrom(work[s][a], from)
    BY <1>2, <2>2, InKeysFrom DEF KeyAt
  <2>4. a \in {x \in Accounts : Mine(s, x)}
    BY <2>1
  <2>5. QED BY <2>3, <2>4 DEF NewKeys, from
<1>3. QED
  BY <1>1, <1>2

LEMMA CommitOnce ==
    ASSUME Safe, NEW s \in Sessions, KeyAppliedOnce, Appends(s), Commit(s)
    PROVE  KeyAppliedOnce'
<1> DEFINE Old(a, b, i) == i \in 1..Len(row[a].txns[b]) /\ row'[a].txns[b][i] = row[a].txns[b][i]
           New(a, b, i) == Fresh(s, a, b, i) /\ row'[a].txns[b][i].key = KeyAt(s, a, b, i)
<1>1. ASSUME NEW a \in Accounts, NEW b \in Books, NEW i \in 1..Len(row'[a].txns[b])
      PROVE  Old(a, b, i) \/ New(a, b, i)
  <2>1. row'[a] = View(s, a)
    BY DEF Commit
  <2>2. CASE Mine(s, a)
    <3>1. row'[a] = work[s][a] /\ Len(row[a].txns[b]) \in Nat /\ Len(work[s][a].txns[b]) \in Nat
      BY <2>1, <2>2, Txns DEF View, Safe
    <3>2. CASE i \in 1..Len(row[a].txns[b])
      BY <2>2, <3>1, <3>2 DEF Appends, Extends
    <3>3. CASE i \in (Len(row[a].txns[b]) + 1)..Len(work[s][a].txns[b])
      BY <2>2, <3>1, <3>3 DEF Fresh, KeyAt
    <3>4. QED BY <3>1, <3>2, <3>3
  <2>3. CASE ~Mine(s, a)
    BY <2>1, <2>3 DEF View
  <2>4. QED BY <2>2, <2>3
<1>2. NewKeys(s) \cap UsedKeys = {}
  BY DEF Commit, Accepted
<1>3. ASSUME NEW a1 \in Accounts, NEW a2 \in Accounts, NEW b1 \in Books, NEW b2 \in Books,
             NEW i \in 1..Len(row'[a1].txns[b1]), NEW j \in 1..Len(row'[a2].txns[b2]),
             row'[a1].txns[b1][i].key # Null,
             row'[a1].txns[b1][i].key = row'[a2].txns[b2][j].key
      PROVE  a1 = a2 /\ b1 = b2 /\ i = j
  <2>0. i \in Nat /\ j \in Nat
    OBVIOUS
  <2>1. Old(a1, b1, i) \/ New(a1, b1, i)
    BY <1>1
  <2>2. Old(a2, b2, j) \/ New(a2, b2, j)
    BY <1>1
  <2>3. CASE Old(a1, b1, i) /\ Old(a2, b2, j)
    BY <1>3, <2>3 DEF KeyAppliedOnce
  <2>4. CASE New(a1, b1, i) /\ New(a2, b2, j)
    BY <1>3, <2>0, <2>4 DEF Appends, KeysApart
  <2>5. CASE Old(a1, b1, i) /\ New(a2, b2, j)
    BY <1>2, <1>3, <2>0, <2>5, KeyPlaces
  <2>6. CASE New(a1, b1, i) /\ Old(a2, b2, j)
    BY <1>2, <1>3, <2>0, <2>6, KeyPlaces
  <2>7. QED BY <2>1, <2>2, <2>3, <2>4, <2>5, <2>6
<1>4. QED
  BY <1>3 DEF KeyAppliedOnce

LEMMA NextKeys == Safe /\ KeysInv /\ [Next]_vars => KeysInv'
<1> SUFFICES ASSUME Safe, KeysInv, [Next]_vars PROVE KeysInv'
  OBVIOUS
<1>1. ASSUME NEW s \in Sessions, Step(s) PROVE KeysInv'
  <2>1. \A t \in Sessions : Appends(t)'
    <3> TAKE t \in Sessions
    <3>1. CASE t = s
      BY <1>1, <3>1, StepKeys DEF KeysInv
    <3>2. CASE t # s
      <4>1. Apart(t)
        BY <1>1, <3>2, Frame
      <4>2. QED BY <4>1, OthersAppend DEF KeysInv
    <3>3. QED BY <3>1, <3>2
  <2>2. KeyAppliedOnce'
    <3>1. CASE Commit(s)
      BY <3>1, CommitOnce DEF KeysInv
    <3>2. CASE row' = row
      BY <3>2 DEF KeysInv, KeyAppliedOnce
    <3>3. QED BY <1>1, <3>1, <3>2, RowChanges
  <2>3. QED BY <2>1, <2>2 DEF KeysInv
<1>2. CASE UNCHANGED vars
  <2>1. \A t \in Sessions : Apart(t)
    BY <1>2 DEF vars, Apart
  <2>2. \A t \in Sessions : Appends(t)'
    BY <2>1, OthersAppend DEF KeysInv
  <2>3. KeyAppliedOnce'
    BY <1>2 DEF vars, KeysInv, KeyAppliedOnce
  <2>4. QED BY <2>2, <2>3 DEF KeysInv
<1>3. QED
  BY <1>1, <1>2 DEF Next, Step

LEMMA InitKeys == Init => KeysInv
<1> SUFFICES ASSUME Init PROVE KeysInv
  OBVIOUS
<1>1. \A s \in Sessions, a \in Accounts : ~Mine(s, a)
  BY DEF Init, Mine
<1>2. \A s \in Sessions : Appends(s)
  BY <1>1 DEF Appends, Extends, KeysApart, KeysByStep, Fresh
<1>3. \A a \in Accounts, b \in Books : Len(row[a].txns[b]) = 0
  BY DEF Init, EmptyRow
<1>4. KeyAppliedOnce
  BY <1>3 DEF KeyAppliedOnce
<1>5. QED
  BY <1>2, <1>4 DEF KeysInv

(* A keyed movement is in the passbooks at most once, whatever retries,    *)
(* duplicate deliveries and races between the key check and the lock there *)
(* are: two sessions may write the same key, but only one commits it.      *)
THEOREM KeysAppliedOnce == Spec => []KeyAppliedOnce
<1>1. Init => KeysInv
  BY InitKeys
<1>2. KeysInv => KeyAppliedOnce
  BY DEF KeysInv
<1>3. QED
  BY <1>1, <1>2, NextKeys, Safety, PTL DEF Spec
-----------------------------------------------------------------------------
(* Sums: what MCLedger adds up, step by step.  Induction over the natural  *)
(* numbers is used in the form of a set that contains 0 and successors.    *)

LEMMA LeastNumber ==
    ASSUME NEW T \in SUBSET Nat, T # {}
    PROVE  \E x \in T : \A y \in T : x <= y
<1> DEFINE R == OpToRel(<, Nat)
<1>1. \E x \in T : \A y \in T : ~ (<<y, x>> \in R)
  <2>1. IsWellFoundedOn(R, Nat)
    BY NatLessThanWellFounded
  <2> HIDE DEF R
  <2>2. QED BY <2>1, WFMin
<1>2. ASSUME NEW x \in Nat, NEW y \in Nat, y < x PROVE <<y, x>> \in R
  <2>1. <<y, x>> \in Nat \X Nat /\ <<y, x>>[1] = y /\ <<y, x>>[2] = x
    OBVIOUS
  <2>2. QED BY <1>2, <2>1 DEF OpToRel
<1> HIDE DEF R
<1>3. PICK x \in T : \A y \in T : ~ (<<y, x>> \in R)
  BY <1>1
<1>4. ASSUME NEW y \in T PROVE x <= y
  <2>1. x \in Nat /\ y \in Nat
    OBVIOUS
  <2>2. ~(y < x)
    BY <1>2, <1>3, <2>1
  <2>3. QED BY <2>1, <2>2
<1>5. QED
  BY <1>4

LEMMA Induct ==
    ASSUME NEW S \in SUBSET Nat, 0 \in S, \A n \in S : n + 1 \in S
    PROVE  S = Nat
<1> SUFFICES ASSUME Nat \ S # {} PROVE FALSE
  OBVIOUS
<1>1. PICK x \in Nat \ S : \A y \in Nat \ S : x <= y
  BY LeastNumber
<1>2. x # 0 /\ x - 1 \in Nat
  OBVIOUS
<1>3. x - 1 \in S
  BY <1>1, <1>2
<1>4. QED
  BY <1>3

(* The partial sums of f up to n, as TotalOver builds them. *)
Partial(f, n, u) == u = [i \in 0..n |-> IF i = 0 THEN 0 ELSE u[i - 1] + f[i]]

LEMMA PartialExists == ASSUME NEW f PROVE \A n \in Nat : \E u : Partial(f, n, u)
<1> DEFINE S == {n \in Nat : \E u : Partial(f, n, u)}
<1>1. 0 \in S
  <2> DEFINE u == [i \in {0} |-> 0]
  <2>1. Partial(f, 0, u)
    BY 0..0 = {0} DEF Partial
  <2>2. QED BY <2>1
<1>2. ASSUME NEW n \in S PROVE n + 1 \in S
  <2>1. PICK u : Partial(f, n, u)
    OBVIOUS
  <2>2. n \in Nat /\ n + 1 \in Nat
    OBVIOUS
  <2> DEFINE v == [i \in 0..(n + 1) |-> IF i = n + 1 THEN u[n] + f[n + 1] ELSE u[i]]
  <2>3. ASSUME NEW i \in 0..(n + 1) PROVE v[i] = IF i = 0 THEN 0 ELSE v[i - 1] + f[i]
    <3>1. CASE i = n + 1
      BY <2>2, <3>1
    <3>2. CASE i = 0
      BY <2>1, <2>2, <3>2 DEF Partial
    <3>3. CASE i # 0 /\ i # n + 1
      <4>1. i \in 0..n /\ i - 1 \in 0..n /\ i \in 0..(n + 1) /\ i - 1 \in 0..(n + 1) /\ i - 1 # n + 1
        BY <2>2, <3>3
      <4>2. u[i] = u[i - 1] + f[i]
        BY <2>1, <4>1, <3>3 DEF Partial
      <4>3. QED BY <3>3, <4>1, <4>2
    <3>4. QED BY <3>1, <3>2, <3>3
  <2>4. v = [i \in 0..(n + 1) |-> IF i = 0 THEN 0 ELSE v[i - 1] + f[i]]
    BY <2>3
  <2> HIDE DEF v
  <2>5. Partial(f, n + 1, v)
    BY <2>4 DEF Partial
  <2>6. QED BY <2>2, <2>5
<1>3. S \in SUBSET Nat
  OBVIOUS
<1> HIDE DEF S
<1>4. S = Nat
  BY <1>1, <1>2, <1>3, Induct
<1>5. QED
  BY <1>4 DEF S

LEMMA PartialIsTotal ==
    ASSUME NEW f, NEW n \in Nat, NEW u, Partial(f, n, u)
    PROVE  \A i \in 0..n : u[i] = TotalOver(f, i)
<1> DEFINE S == {i \in Nat : i <= n => \A m \in Nat : \A v, w : m >= i /\ Partial(f, m, v) /\ Partial(f, n, w) => v[i] = w[i]}
<1>1. 0 \in S
  BY DEF Partial
<1>2. ASSUME NEW i \in S PROVE i + 1 \in S
  <2>1. i \in Nat /\ i + 1 \in Nat
    OBVIOUS
  <2>2. ASSUME i + 1 <= n, NEW m \in Nat, NEW v, NEW w, m >= i + 1, Partial(f, m, v), Partial(f, n, w)
        PROVE  v[i + 1] = w[i + 1]
    <3>1. i <= n /\ m >= i
      BY <2>1, <2>2
    <3>2. v[i] = w[i]
      BY <2>2, <3>1
    <3>3. i + 1 \in 0..m /\ i + 1 \in 0..n /\ (i + 1) - 1 = i /\ i + 1 # 0
      BY <2>1, <2>2
    <3>4. v[i + 1] = v[i] + f[i + 1] /\ w[i + 1] = w[i] + f[i + 1]
      BY <2>2, <3>3 DEF Partial
    <3>5. QED BY <3>2, <3>4
  <2>3. QED BY <2>1, <2>2
<1>3. S \in SUBSET Nat
  OBVIOUS
<1>4. S = Nat
  <2> HIDE DEF S
  <2>1. QED BY <1>1, <1>2, <1>3, Induct
<1>5. ASSUME NEW i \in 0..n PROVE u[i] = TotalOver(f, i)
  <2>1. i \in Nat /\ i <= n /\ i >= i
    OBVIOUS
  <2> DEFINE v == CHOOSE v : Partial(f, i, v)
  <2>2. Partial(f, i, v)
    BY <2>1, PartialExists
  <2>3. TotalOver(f, i) = v[i]
    BY DEF TotalOver, Partial
  <2> HIDE DEF v
  <2>4. v[i] = u[i]
    BY <1>4, <2>1, <2>2
  <2>5. QED BY <2>3, <2>4
<1>6. QED
  BY <1>5

(* The recursion of TotalOver. *)
LEMMA TotalStep ==
    ASSUME NEW f
    PROVE  /\ TotalOver(f, 0) = 0
           /\ \A n \in Nat : TotalOver(f, n + 1) = TotalOver(f, n) + f[n + 1]
<1>1. TotalOver(f, 0) = 0
  <2>1. PICK u : Partial(f, 0, u)
    BY PartialExists
  <2>2. u[0] = 0 /\ u[0] = TotalOver(f, 0)
    <3>1. 0 \in 0..0
      OBVIOUS
    <3>2. u[0] = TotalOver(f, 0)
      BY <2>1, <3>1, PartialIsTotal
    <3>3. QED BY <2>1, <3>1, <3>2 DEF Partial
  <2>3. QED BY <2>2
<1>2. ASSUME NEW n \in Nat PROVE TotalOver(f, n + 1) = TotalOver(f, n) + f[n + 1]
  <2>1. PICK u : Partial(f, n + 1, u)
    BY PartialExists
  <2>2. n + 1 \in Nat /\ n \in 0..(n + 1) /\ n + 1 \in 0..(n + 1) /\ n + 1 # 0 /\ (n + 1) - 1 = n
    OBVIOUS
  <2>3. u[n + 1] = TotalOver(f, n + 1) /\ u[n] = TotalOver(f, n)
    BY <2>1, <2>2, PartialIsTotal
  <2>4. u[n + 1] = u[n] + f[n + 1]
    BY <2>1, <2>2 DEF Partial
  <2>5. QED BY <2>3, <2>4
<1>3. QED
  BY <1>1, <1>2

LEMMA InductTo ==
    ASSUME NEW n \in Nat, NEW S \in SUBSET (0..n), 0 \in S, \A i \in S : i < n => i + 1 \in S
    PROVE  S = 0..n
<1> DEFINE T == {i \in Nat : i <= n => i \in S}
<1>1. T \in SUBSET Nat /\ 0 \in T
  OBVIOUS
<1>2. \A i \in T : i + 1 \in T
  OBVIOUS
<1> HIDE DEF T
<1>3. T = Nat
  BY <1>1, <1>2, Induct
<1>4. ASSUME NEW i \in 0..n PROVE i \in S
  <2>1. i \in Nat /\ i <= n
    OBVIOUS
  <2>2. i \in T
    BY <1>3, <2>1
  <2>3. QED BY <2>1, <2>2 DEF T
<1>5. QED
  BY <1>4

LEMMA TotalInt ==
    ASSUME NEW f, NEW n \in Nat, \A i \in 1..n : f[i] \in Int
    PROVE  \A i \in 0..n : TotalOver(f, i) \in Int
<1> DEFINE S == {i \in 0..n : TotalOver(f, i) \in Int}
<1>1. S \in SUBSET (0..n) /\ 0 \in S
  BY TotalStep
<1>2. ASSUME NEW i \in S, i < n PROVE i + 1 \in S
  <2>1. i \in Nat /\ i + 1 \in 1..n /\ i + 1 \in 0..n /\ TotalOver(f, i) \in Int
    BY <1>2
  <2>2. TotalOver(f, i + 1) = TotalOver(f, i) + f[i + 1]
    BY <2>1, TotalStep
  <2>3. TotalOver(f, i) + f[i + 1] \in Int
    BY <2>1
  <2>4. QED BY <2>1, <2>2, <2>3
<1> HIDE DEF S
<1>3. S = 0..n
  BY <1>1, <1>2, InductTo
<1>4. QED
  BY <1>3 DEF S

(* A sum in which at most entry k changes. *)
LEMMA TotalChange ==
    ASSUME NEW f, NEW g, NEW n \in Nat, \A i \in 1..n : f[i] \in Int /\ g[i] \in Int,
           NEW k \in Nat, \A i \in 1..n : i # k => g[i] = f[i]
    PROVE  TotalOver(g, n) = TotalOver(f, n) + (IF k \in 1..n THEN g[k] - f[k] ELSE 0)
<1> DEFINE S == {j \in 0..n : TotalOver(g, j) = TotalOver(f, j) + (IF k \in 1..j THEN g[k] - f[k] ELSE 0)}
<1>1. S \in SUBSET (0..n) /\ 0 \in S
  BY TotalStep
<1>2. ASSUME NEW j \in S, j < n PROVE j + 1 \in S
  <2>1. j \in Nat /\ j + 1 \in 1..n /\ j + 1 \in 0..n /\ j \in 0..n
    BY <1>2
  <2>2. /\ TotalOver(g, j + 1) = TotalOver(g, j) + g[j + 1]
        /\ TotalOver(f, j + 1) = TotalOver(f, j) + f[j + 1]
    BY <2>1, TotalStep
  <2>3. TotalOver(g, j) = TotalOver(f, j) + (IF k \in 1..j THEN g[k] - f[k] ELSE 0)
    OBVIOUS
  <2>4. TotalOver(f, j) \in Int /\ f[j + 1] \in Int /\ g[j + 1] \in Int
    BY <2>1, TotalInt
  <2> DEFINE F == TotalOver(f, j)
             F1 == TotalOver(f, j + 1)
             G == TotalOver(g, j)
             G1 == TotalOver(g, j + 1)
  <2>5. G1 = G + g[j + 1] /\ F1 = F + f[j + 1] /\ F \in Int /\ f[j + 1] \in Int /\ g[j + 1] \in Int
        /\ G = F + (IF k \in 1..j THEN g[k] - f[k] ELSE 0)
    BY <2>2, <2>3, <2>4
  <2> HIDE DEF F, F1, G, G1
  <2>6. G1 = F1 + (IF k \in 1..(j + 1) THEN g[k] - f[k] ELSE 0)
    <3>1. CASE k = j + 1
      BY <2>1, <2>5, <3>1
    <3>2. CASE k # j + 1 /\ k \in 1..j
      <4>1. g[j + 1] = f[j + 1] /\ k \in 1..(j + 1) /\ f[k] \in Int /\ g[k] \in Int
        BY <2>1, <3>2
      <4>2. QED BY <2>5, <3>2, <4>1
    <3>3. CASE k # j + 1 /\ k \notin 1..j
      <4>1. g[j + 1] = f[j + 1] /\ k \notin 1..(j + 1)
        BY <2>1, <3>3
      <4>2. QED BY <2>5, <3>3, <4>1
    <3>4. QED BY <3>1, <3>2, <3>3
  <2>7. QED BY <2>1, <2>6 DEF G1, F1
<1>3. S = 0..n
  <2> HIDE DEF S
  <2>1. QED BY <1>1, <1>2, InductTo
<1>4. n \in S
  BY <1>3
<1>5. QED
  BY <1>4

LEMMA TotalSame ==
    ASSUME NEW f, NEW g, NEW n \in Nat, \A i \in 1..n : f[i] \in Int /\ g[i] = f[i]
    PROVE  TotalOver(g, n) = TotalOver(f, n)
<1>1. TotalOver(g, n) = TotalOver(f, n) + (IF 0 \in 1..n THEN g[0] - f[0] ELSE 0)
  BY TotalChange
<1>2. TotalOver(f, n) \in Int
  BY TotalInt
<1>3. QED
  BY <1>1, <1>2

(* A sum of nonnegative terms is at least each of them. *)
LEMMA TotalBounds ==
    ASSUME NEW f, NEW n \in Nat, \A i \in 1..n : f[i] \in Nat
    PROVE  TotalOver(f, n) \in Nat /\ \A i \in 1..n : f[i] <= TotalOver(f, n)
<1> DEFINE S == {j \in 0..n : TotalOver(f, j) \in Nat /\ \A i \in 1..j : f[i] <= TotalOver(f, j)}
<1>1. S \in SUBSET (0..n) /\ 0 \in S
  BY TotalStep
<1>2. ASSUME NEW j \in S, j < n PROVE j + 1 \in S
  <2>1. j \in Nat /\ j + 1 \in 1..n /\ j + 1 \in 0..n /\ f[j + 1] \in Nat
    BY <1>2
  <2>2. TotalOver(f, j + 1) = TotalOver(f, j) + f[j + 1]
    BY <2>1, TotalStep
  <2>3. TotalOver(f, j) \in Nat /\ \A i \in 1..j : f[i] <= TotalOver(f, j) /\ f[i] \in Nat
    BY <2>1
  <2> DEFINE F == TotalOver(f, j)
             F1 == TotalOver(f, j + 1)
  <2>4. F1 = F + f[j + 1] /\ F \in Nat /\ \A i \in 1..j : f[i] <= F /\ f[i] \in Nat
    BY <2>2, <2>3
  <2> HIDE DEF F, F1
  <2>5. F1 \in Nat /\ F <= F1
    BY <2>1, <2>4
  <2>6. ASSUME NEW i \in 1..(j + 1) PROVE f[i] <= F1
    <3>1. CASE i = j + 1
      BY <2>1, <2>4, <3>1
    <3>2. CASE i \in 1..j
      <4>1. f[i] <= F /\ f[i] \in Nat
        BY <2>4, <3>2
      <4>2. QED BY <2>4, <2>5, <4>1
    <3>3. QED BY <2>1, <3>1, <3>2
  <2>7. QED BY <2>1, <2>5, <2>6 DEF F1
<1>3. S = 0..n
  <2> HIDE DEF S
  <2>1. QED BY <1>1, <1>2, InductTo
<1>4. n \in S
  BY <1>3
<1>5. QED
  BY <1>4

-----------------------------------------------------------------------------
(* Sums over a finite set of accounts, as SetTotal takes them. *)

USE DEF AtDesk, SuspenseLeg, UserLeg

Picked(S) == CHOOSE x \in S : TRUE

LEMMA PickedIn == ASSUME NEW S, S # {} PROVE Picked(S) \in S
BY DEF Picked

(* u gives the sum of f over every subset of its domain. *)
Sums(f, u) ==
    u = [S \in SUBSET DOMAIN f |-> IF S = {} THEN 0 ELSE f[Picked(S)] + u[S \ {Picked(S)}]]

(* The same for the subsets of at most n elements. *)
SumsTo(f, n, u) ==
    u = [S \in SUBSET DOMAIN f |->
           IF S = {} \/ Cardinality(S) > n THEN 0 ELSE f[Picked(S)] + u[S \ {Picked(S)}]]

LEMMA SmallerByOne ==
    ASSUME NEW D, IsFiniteSet(D), NEW S \in SUBSET D, S # {}
    PROVE  /\ Picked(S) \in S /\ S \ {Picked(S)} \in SUBSET D
           /\ Cardinality(S) \in Nat /\ Cardinality(S) # 0
           /\ Cardinality(S \ {Picked(S)}) = Cardinality(S) - 1
<1>1. Picked(S) \in S
  BY PickedIn
<1>2. IsFiniteSet(S)
  BY FS_Subset
<1>3. Cardinality(S) \in Nat /\ Cardinality(S) # 0
  BY <1>2, FS_CardinalityType, FS_EmptySet
<1>4. Cardinality(S \ {Picked(S)}) = Cardinality(S) - 1
  BY <1>1, <1>2, FS_RemoveElement
<1>5. QED
  BY <1>1, <1>3, <1>4

LEMMA SumsExist == ASSUME NEW f, IsFiniteSet(DOMAIN f) PROVE \E u : Sums(f, u)
<1> DEFINE D == DOMAIN f
           N == {n \in Nat : \E u : SumsTo(f, n, u)}
<1>1. 0 \in N
  <2> DEFINE u == [S \in SUBSET D |-> 0]
  <2>1. ASSUME NEW S \in SUBSET D PROVE S = {} \/ Cardinality(S) > 0
    <3>1. S # {} => Cardinality(S) \in Nat /\ Cardinality(S) # 0
      BY SmallerByOne
    <3>2. QED BY <3>1
  <2>2. u = [S \in SUBSET D |->
               IF S = {} \/ Cardinality(S) > 0 THEN 0 ELSE f[Picked(S)] + u[S \ {Picked(S)}]]
    BY <2>1
  <2>3. SumsTo(f, 0, u)
    BY <2>2 DEF SumsTo
  <2>4. QED BY <2>3
<1>2. ASSUME NEW n \in N PROVE n + 1 \in N
  <2>1. n \in Nat /\ n + 1 \in Nat
    OBVIOUS
  <2>2. PICK u : SumsTo(f, n, u)
    OBVIOUS
  <2> DEFINE v == [S \in SUBSET D |->
                     IF S = {} \/ Cardinality(S) > n + 1 THEN 0 ELSE f[Picked(S)] + u[S \ {Picked(S)}]]
  <2>3. ASSUME NEW S \in SUBSET D, S # {}, ~ Cardinality(S) > n + 1
        PROVE  v[S \ {Picked(S)}] = u[S \ {Picked(S)}]
    <3> DEFINE T == S \ {Picked(S)}
    <3>1. T \in SUBSET D /\ (T # {} => Cardinality(T) \in Nat) /\ ~ Cardinality(T) > n
      <4>1. /\ T \in SUBSET D /\ Cardinality(S) \in Nat /\ Cardinality(T) = Cardinality(S) - 1
        BY <2>3, SmallerByOne
      <4>2. T # {} => Cardinality(T) \in Nat
        BY <4>1, SmallerByOne
      <4>3. ~ Cardinality(T) > n
        BY <2>1, <2>3, <4>1
      <4>4. QED BY <4>1, <4>2, <4>3
    <3> HIDE DEF T
    <3>2. u[T] = IF T = {} THEN 0 ELSE f[Picked(T)] + u[T \ {Picked(T)}]
      BY <2>2, <3>1 DEF SumsTo
    <3>3. v[T] = IF T = {} THEN 0 ELSE f[Picked(T)] + u[T \ {Picked(T)}]
      <4>1. T # {} => ~ Cardinality(T) > n + 1
        BY <2>1, <3>1
      <4>2. QED BY <3>1, <4>1
    <3>4. QED BY <3>2, <3>3 DEF T
  <2>4. ASSUME NEW S \in SUBSET D
        PROVE  v[S] = IF S = {} \/ Cardinality(S) > n + 1 THEN 0
                      ELSE f[Picked(S)] + v[S \ {Picked(S)}]
    BY <2>3
  <2>5. v = [S \in SUBSET D |-> IF S = {} \/ Cardinality(S) > n + 1 THEN 0
                                ELSE f[Picked(S)] + v[S \ {Picked(S)}]]
    BY <2>4
  <2> HIDE DEF v
  <2>6. SumsTo(f, n + 1, v)
    BY <2>5 DEF SumsTo
  <2>7. QED BY <2>1, <2>6
<1>3. N \in SUBSET Nat
  OBVIOUS
<1> HIDE DEF N
<1>4. N = Nat
  BY <1>1, <1>2, <1>3, Induct
<1>5. Cardinality(D) \in Nat
  BY FS_CardinalityType
<1>6. PICK u : SumsTo(f, Cardinality(D), u)
  BY <1>4, <1>5 DEF N
<1>7. ASSUME NEW S \in SUBSET D PROVE ~ Cardinality(S) > Cardinality(D)
  <2>1. IsFiniteSet(S) /\ Cardinality(S) <= Cardinality(D)
    BY FS_Subset
  <2>2. Cardinality(S) \in Nat
    BY <2>1, FS_CardinalityType
  <2>3. QED BY <1>5, <2>1, <2>2
<1>8. Sums(f, u)
  BY <1>6, <1>7 DEF Sums, SumsTo
<1>9. QED
  BY <1>8

(* The sums of f and g add up to those of h. *)
LEMMA SumsAdd ==
    ASSUME NEW D, IsFiniteSet(D), NEW f \in [D -> Int], NEW g \in [D -> Int], NEW h \in [D -> Int],
           \A a \in D : h[a] = f[a] + g[a],
           NEW u, NEW v, NEW w, Sums(f, u), Sums(g, v), Sums(h, w)
    PROVE  /\ u[D] \in Int /\ v[D] \in Int /\ w[D] \in Int
           /\ w[D] = u[D] + v[D]
<1> DEFINE Ok(S) == u[S] \in Int /\ v[S] \in Int /\ w[S] \in Int /\ w[S] = u[S] + v[S]
           N == {n \in Nat : \A S \in SUBSET D : Cardinality(S) = n => Ok(S)}
<1>0. ASSUME NEW S \in SUBSET D
      PROVE  /\ u[S] = IF S = {} THEN 0 ELSE f[Picked(S)] + u[S \ {Picked(S)}]
             /\ v[S] = IF S = {} THEN 0 ELSE g[Picked(S)] + v[S \ {Picked(S)}]
             /\ w[S] = IF S = {} THEN 0 ELSE h[Picked(S)] + w[S \ {Picked(S)}]
  BY DEF Sums
<1>1. 0 \in N
  <2>1. ASSUME NEW S \in SUBSET D, Cardinality(S) = 0 PROVE Ok(S)
    <3>1. S = {}
      BY <2>1, FS_Subset, FS_EmptySet
    <3>2. u[S] = 0 /\ v[S] = 0 /\ w[S] = 0
      BY <1>0, <3>1
    <3>3. QED BY <3>2
  <2>2. QED BY <2>1
<1>2. ASSUME NEW n \in N PROVE n + 1 \in N
  <2>1. ASSUME NEW S \in SUBSET D, Cardinality(S) = n + 1 PROVE Ok(S)
    <3> DEFINE x == Picked(S)
               T == S \ {x}
    <3>1. n \in Nat /\ S # {}
      <4>1. n \in Nat
        OBVIOUS
      <4>2. S = {} => Cardinality(S) = 0
        BY FS_EmptySet
      <4>3. QED BY <2>1, <4>1, <4>2
    <3>2. x \in S /\ T \in SUBSET D /\ Cardinality(T) = Cardinality(S) - 1
      BY <3>1, SmallerByOne
    <3>3. Cardinality(T) = n
      BY <2>1, <3>1, <3>2
    <3>4. Ok(T)
      BY <3>2, <3>3
    <3>5. f[x] \in Int /\ g[x] \in Int /\ h[x] = f[x] + g[x]
      BY <3>2
    <3>6. u[S] = f[x] + u[T] /\ v[S] = g[x] + v[T] /\ w[S] = h[x] + w[T]
      BY <1>0, <3>1
    <3> HIDE DEF x, T
    <3>7. QED BY <3>4, <3>5, <3>6
  <2>2. QED BY <2>1
<1>3. N \in SUBSET Nat
  OBVIOUS
<1>4. N = Nat
  <2> HIDE DEF N
  <2>1. QED BY <1>1, <1>2, <1>3, Induct
<1>5. Cardinality(D) \in Nat /\ D \in SUBSET D
  BY FS_CardinalityType
<1>6. Ok(D)
  BY <1>4, <1>5
<1>7. QED
  BY <1>6

LEMMA SetTotalIs ==
    ASSUME NEW f, IsFiniteSet(DOMAIN f)
    PROVE  \E u : Sums(f, u) /\ SetTotal(f) = u[DOMAIN f]
<1> DEFINE u == CHOOSE u : Sums(f, u)
<1>1. Sums(f, u)
  BY SumsExist
<1>2. SetTotal(f) = u[DOMAIN f]
  BY DEF SetTotal, Sums, Picked
<1> HIDE DEF u
<1>3. QED
  BY <1>1, <1>2

LEMMA SetTotalAdd ==
    ASSUME NEW D, IsFiniteSet(D), NEW f \in [D -> Int], NEW g \in [D -> Int], NEW h \in [D -> Int],
           \A a \in D : h[a] = f[a] + g[a]
    PROVE  /\ SetTotal(f) \in Int /\ SetTotal(g) \in Int /\ SetTotal(h) \in Int
           /\ SetTotal(h) = SetTotal(f) + SetTotal(g)
<1>1. DOMAIN f = D /\ DOMAIN g = D /\ DOMAIN h = D
  OBVIOUS
<1>2. PICK u : Sums(f, u) /\ SetTotal(f) = u[D]
  BY <1>1, SetTotalIs
<1>3. PICK v : Sums(g, v) /\ SetTotal(g) = v[D]
  BY <1>1, SetTotalIs
<1>4. PICK w : Sums(h, w) /\ SetTotal(h) = w[D]
  BY <1>1, SetTotalIs
<1>5. /\ u[D] \in Int /\ v[D] \in Int /\ w[D] \in Int
      /\ w[D] = u[D] + v[D]
  BY <1>2, <1>3, <1>4, SumsAdd
<1>6. QED
  BY <1>2, <1>3, <1>4, <1>5

(* One account's share, and what it adds up to. *)
Spike(D, c, d) == [a \in D |-> IF a = c THEN d ELSE 0]

LEMMA SetTotalSpike ==
    ASSUME NEW D, IsFiniteSet(D), NEW c \in D, NEW d \in Int
    PROVE  SetTotal(Spike(D, c, d)) = d
<1> DEFINE f == Spike(D, c, d)
<1>1. DOMAIN f = D /\ \A a \in D : f[a] = IF a = c THEN d ELSE 0
  BY DEF Spike
<1> HIDE DEF f
<1>2. PICK u : Sums(f, u) /\ SetTotal(f) = u[D]
  BY <1>1, SetTotalIs
<1> DEFINE Ok(S) == u[S] = IF c \in S THEN d ELSE 0
           N == {n \in Nat : \A S \in SUBSET D : Cardinality(S) = n => Ok(S)}
<1>3. ASSUME NEW S \in SUBSET D
      PROVE  u[S] = IF S = {} THEN 0 ELSE f[Picked(S)] + u[S \ {Picked(S)}]
  BY <1>1, <1>2 DEF Sums
<1>4. 0 \in N
  <2>1. ASSUME NEW S \in SUBSET D, Cardinality(S) = 0 PROVE Ok(S)
    <3>1. S = {}
      BY <2>1, FS_Subset, FS_EmptySet
    <3>2. u[S] = 0
      BY <1>3, <3>1
    <3>3. QED BY <3>1, <3>2
  <2>2. QED BY <2>1
<1>5. ASSUME NEW n \in N PROVE n + 1 \in N
  <2>1. ASSUME NEW S \in SUBSET D, Cardinality(S) = n + 1 PROVE Ok(S)
    <3> DEFINE x == Picked(S)
               T == S \ {x}
    <3>1. n \in Nat /\ S # {}
      <4>1. n \in Nat
        OBVIOUS
      <4>2. S = {} => Cardinality(S) = 0
        BY FS_EmptySet
      <4>3. QED BY <2>1, <4>1, <4>2
    <3>2. x \in S /\ T \in SUBSET D /\ Cardinality(T) = Cardinality(S) - 1
      BY <3>1, SmallerByOne
    <3>3. Cardinality(T) = n
      BY <2>1, <3>1, <3>2
    <3>4. Ok(T)
      BY <3>2, <3>3
    <3>5. f[x] = IF x = c THEN d ELSE 0
      BY <1>1, <3>2
    <3>6. u[S] = f[x] + u[T]
      BY <1>3, <3>1
    <3>7. c \in T <=> c \in S /\ c # x
      OBVIOUS
    <3> HIDE DEF x, T
    <3>8. QED BY <3>2, <3>4, <3>5, <3>6, <3>7
  <2>2. QED BY <2>1
<1>6. N \in SUBSET Nat
  OBVIOUS
<1>7. N = Nat
  <2> HIDE DEF N
  <2>1. QED BY <1>4, <1>5, <1>6, Induct
<1>8. Cardinality(D) \in Nat /\ D \in SUBSET D
  BY FS_CardinalityType
<1>9. Ok(D)
  BY <1>7, <1>8
<1>10. QED
  BY <1>2, <1>9 DEF f

(* A sum in which one account's share grows by d. *)
ShareGrows(D, f, g, c, d) ==
    /\ f \in [D -> Int] /\ g \in [D -> Int]
    /\ \A a \in D : g[a] = f[a] + (IF a = c THEN d ELSE 0)

LEMMA SetTotalOne ==
    ASSUME NEW D, IsFiniteSet(D), NEW f, NEW g, NEW c \in D, NEW d \in Int, ShareGrows(D, f, g, c, d)
    PROVE  SetTotal(f) \in Int /\ SetTotal(g) = SetTotal(f) + d
<1> DEFINE e == Spike(D, c, d)
<1>1. /\ f \in [D -> Int] /\ g \in [D -> Int] /\ e \in [D -> Int]
      /\ \A a \in D : g[a] = f[a] + e[a]
  BY DEF Spike, ShareGrows
<1>2. SetTotal(e) = d
  BY SetTotalSpike
<1> HIDE DEF e
<1>3. SetTotal(f) \in Int /\ SetTotal(g) = SetTotal(f) + SetTotal(e)
  BY <1>1, SetTotalAdd
<1>4. QED
  BY <1>2, <1>3

LEMMA SetTotalZero ==
    ASSUME NEW D, IsFiniteSet(D), NEW f \in [D -> Int], \A a \in D : f[a] = 0
    PROVE  SetTotal(f) = 0
<1> DEFINE t == SetTotal(f)
<1>1. \A a \in D : f[a] = f[a] + f[a]
  OBVIOUS
<1>2. t \in Int /\ t = t + t
  BY <1>1, SetTotalAdd
<1> HIDE DEF t
<1>3. t = 0
  BY <1>2
<1>4. QED
  BY <1>3 DEF t

-----------------------------------------------------------------------------
(* Recoveries and reversals balance. *)

(* An entry is labelled by its reason and its reference. *)
Labels == {"LIEN", "REVERSAL"} \X Refs

(* What an entry with a label of W moves between accounts. *)
Transfer(e, W) == IF e.reason # "MOVE" /\ <<e.reason, e.ref>> \in W THEN e.delta ELSE 0

Transfers(t, W) == TotalOver([i \in 1..Len(t) |-> Transfer(t[i], W)], Len(t))

LEMMA TransferEmpty == ASSUME NEW W, NEW t, t = <<>> PROVE Transfers(t, W) = 0
<1>1. Len(t) = 0
  OBVIOUS
<1>2. QED
  BY <1>1, TotalStep DEF Transfers

LEMMA TransferAppend ==
    ASSUME NEW W, NEW t \in Seq(Entry), NEW e \in Entry
    PROVE  /\ Transfers(t, W) \in Int
           /\ Transfers(Append(t, e), W) = Transfers(t, W) + Transfer(e, W)
<1> DEFINE n == Len(t)
           p == Append(t, e)
           f == [i \in 1..Len(t) |-> Transfer(t[i], W)]
           g == [i \in 1..Len(p) |-> Transfer(p[i], W)]
<1>1. n \in Nat /\ \A i \in 1..n : t[i] \in Entry
  OBVIOUS
<1>2. Len(p) = n + 1 /\ p[n + 1] = e /\ \A i \in 1..n : p[i] = t[i]
  OBVIOUS
<1>3. \A d \in Entry : Transfer(d, W) \in Int
  BY EntryFields DEF Transfer
<1>4. Transfers(t, W) = TotalOver(f, n) /\ Transfers(p, W) = TotalOver(g, n + 1)
  BY <1>2 DEF Transfers, Transfer
<1> HIDE DEF n, p
<1>5. \A i \in 1..n : f[i] \in Int /\ g[i] = f[i]
  BY <1>1, <1>2, <1>3 DEF n
<1>6. g[n + 1] = Transfer(e, W)
  BY <1>1, <1>2
<1> HIDE DEF f, g
<1>7. TotalOver(g, n + 1) = TotalOver(g, n) + g[n + 1]
  BY <1>1, TotalStep
<1>8. TotalOver(g, n) = TotalOver(f, n)
  BY <1>1, <1>5, TotalSame
<1>9. TotalOver(f, n) \in Int
  <2>1. n \in 0..n
    BY <1>1
  <2>2. QED BY <1>1, <1>5, <2>1, TotalInt
<1>10. QED
  BY <1>4, <1>6, <1>7, <1>8, <1>9 DEF p

(* Key k is in a committed passbook, or among what s has written. *)
Committed(k) == \E a \in Accounts, b \in Books : \E i \in 1..Len(row[a].txns[b]) : row[a].txns[b][i].key = k

Beyond(old, t, k) == \E i \in (Len(old) + 1)..Len(t) : t[i].key = k

Carried(s, k) == \E a \in Accounts, b \in Books : Beyond(row[a].txns[b], View(s, a).txns[b], k)

(* What s has moved between accounts and not committed. *)
Net(s, a, W) == Transfers(View(s, a).txns["PRIMARY"], W) - Transfers(row[a].txns["PRIMARY"], W)
Flow(s, W)   == SetTotal([a \in Accounts |-> Net(s, a, W)])

Held(W) == [a \in Accounts |-> Transfers(row[a].txns["PRIMARY"], W)]

LEMMA AccountsFinite == IsFiniteSet(Accounts)
BY RetailersAssumption, FS_AddElement DEF Accounts

LEMMA NetInt ==
    ASSUME NEW W, TypeOK, NEW s \in Sessions
    PROVE  /\ \A a \in Accounts : Net(s, a, W) \in Int
           /\ Held(W) \in [Accounts -> Int] /\ [a \in Accounts |-> Net(s, a, W)] \in [Accounts -> Int]
<1>1. ASSUME NEW t \in Seq(Entry) PROVE Transfers(t, W) \in Int
  <2>1. PICK e : e \in Entry
    <3> DEFINE x == [delta |-> 0, after |-> 0, key |-> Null, reason |-> "MOVE", ref |-> Null]
    <3>1. x \in Entry
      BY DEF Entry, Keyed, Refs
    <3>2. QED BY <3>1
  <2>2. QED BY <2>1, TransferAppend
<1>2. ASSUME NEW a \in Accounts
      PROVE  Transfers(View(s, a).txns["PRIMARY"], W) \in Int
             /\ Transfers(row[a].txns["PRIMARY"], W) \in Int
  BY <1>1, Txns
<1>3. \A x, y \in Int : x - y \in Int
  OBVIOUS
<1>4. \A a \in Accounts : Net(s, a, W) \in Int
  BY <1>2, <1>3 DEF Net
<1>5. Held(W) \in [Accounts -> Int]
  BY <1>2 DEF Held
<1>6. QED
  BY <1>4, <1>5

(* A session without copies has written and moved nothing. *)
LEMMA NothingWritten ==
    ASSUME NEW W, TypeOK, NEW s \in Sessions, \A a \in Accounts : View(s, a).txns = row[a].txns
    PROVE  Flow(s, W) = 0 /\ \A k : ~Carried(s, k)
<1>1. \A a \in Accounts : Net(s, a, W) = 0
  <2>1. \A x \in Int : x - x = 0
    OBVIOUS
  <2>2. \A a \in Accounts : Transfers(row[a].txns["PRIMARY"], W) \in Int
    BY NetInt DEF Held
  <2>3. QED BY <2>1, <2>2 DEF Net
<1>2. Flow(s, W) = 0
  BY <1>1, NetInt, AccountsFinite, SetTotalZero DEF Flow
<1>3. ASSUME NEW a \in Accounts, NEW b \in Books, NEW k
      PROVE  ~Beyond(row[a].txns[b], View(s, a).txns[b], k)
  <2>1. Len(row[a].txns[b]) \in Nat
    BY Txns
  <2> DEFINE n == Len(row[a].txns[b])
  <2>2. n \in Nat
    BY <2>1
  <2> HIDE DEF n
  <2>3. (n + 1)..n = {}
    BY <2>2
  <2>4. QED BY <2>3 DEF Beyond, n
<1>4. QED
  BY <1>2, <1>3 DEF Carried

(* A step of s moves d and writes key k. *)
Effect(s, W, d, k) ==
    /\ row' = row
    /\ Flow(s, W) \in Int /\ Flow(s, W)' = Flow(s, W) + d
    /\ \A j \in ReversalKeys : Carried(s, j)' <=> Carried(s, j) \/ j = k

LEMMA WriteView ==
    ASSUME TypeOK, NEW s \in Sessions, NEW a \in Accounts, NEW r, NEW next, Write(s, a, r, next)
    PROVE  /\ row' = row /\ op' = op /\ seen' = seen /\ pc'[s] = next
           /\ View(s, a)' = r
           /\ \A c \in Accounts : c # a => View(s, c)' = View(s, c)
<1>1. /\ lock \in [Accounts -> Sessions \cup {None}]
      /\ pc \in [Sessions -> Pcs] /\ work \in [Sessions -> [Accounts -> Row]]
  BY TypeOKGives
<1>2. QED
  BY <1>1 DEF Write, View, Mine

LEMMA FlowInt == ASSUME NEW W, TypeOK, NEW s \in Sessions PROVE Flow(s, W) \in Int
<1> DEFINE f == [a \in Accounts |-> Net(s, a, W)]
<1>1. f \in [Accounts -> Int]
  BY NetInt
<1>2. Spike(Accounts, Suspense, 0) \in [Accounts -> Int] /\ \A a \in Accounts : f[a] = f[a] + Spike(Accounts, Suspense, 0)[a]
  BY <1>1 DEF Spike
<1> HIDE DEF f
<1>3. SetTotal(f) \in Int
  BY <1>1, <1>2, AccountsFinite, SetTotalAdd
<1>4. QED
  BY <1>3 DEF Flow, f

LEMMA StillEffect ==
    ASSUME NEW W, TypeOK, NEW s \in Sessions, row' = row,
           \A a \in Accounts : (View(s, a)').txns = View(s, a).txns
    PROVE  Effect(s, W, 0, Null)
<1>1. \A a \in Accounts : Net(s, a, W)' = Net(s, a, W)
  BY DEF Net
<1>2. Flow(s, W)' = Flow(s, W)
  BY <1>1 DEF Flow
<1>3. Flow(s, W) \in Int /\ Flow(s, W)' = Flow(s, W) + 0
  BY <1>2, FlowInt
<1>4. \A j : Carried(s, j)' <=> Carried(s, j)
  BY DEF Carried, Beyond
<1>5. \A j \in ReversalKeys : j # Null
  BY ReversalKeysAreOwn
<1>6. QED
  BY <1>3, <1>4, <1>5 DEF Effect

LEMMA BeyondAppend ==
    ASSUME NEW W, NEW old \in Seq(Entry), NEW t \in Seq(Entry), Len(old) <= Len(t),
           NEW e, NEW q, q = Append(t, e), NEW k
    PROVE  Beyond(old, q, k) <=> Beyond(old, t, k) \/ e.key = k
<1> DEFINE m == Len(old)
           n == Len(t)
<1>1. m \in Nat /\ n \in Nat /\ m <= n
  OBVIOUS
<1>2. Len(q) = n + 1 /\ q[n + 1] = e /\ \A i \in 1..n : q[i] = t[i]
  OBVIOUS
<1>3. Beyond(old, q, k) <=> \E i \in (m + 1)..(n + 1) : q[i].key = k
  BY <1>2 DEF Beyond
<1>4. Beyond(old, t, k) <=> \E i \in (m + 1)..n : t[i].key = k
  BY DEF Beyond
<1> HIDE DEF m, n
<1>5. ASSUME Beyond(old, q, k) PROVE Beyond(old, t, k) \/ e.key = k
  <2>1. PICK i \in (m + 1)..(n + 1) : q[i].key = k
    BY <1>3, <1>5
  <2>2. CASE i = n + 1
    BY <1>2, <2>1, <2>2
  <2>3. CASE i # n + 1
    <3>1. i \in (m + 1)..n /\ i \in 1..n
      BY <1>1, <2>3
    <3>2. QED BY <1>2, <1>4, <2>1, <3>1
  <2>4. QED BY <2>2, <2>3
<1>6. ASSUME Beyond(old, t, k) PROVE Beyond(old, q, k)
  <2>1. PICK i \in (m + 1)..n : t[i].key = k
    BY <1>4, <1>6
  <2>2. i \in (m + 1)..(n + 1) /\ i \in 1..n
    BY <1>1
  <2>3. QED BY <1>2, <1>3, <2>1, <2>2
<1>7. ASSUME e.key = k PROVE Beyond(old, q, k)
  <2>1. n + 1 \in (m + 1)..(n + 1)
    BY <1>1
  <2>2. QED BY <1>2, <1>3, <1>7, <2>1
<1>8. QED
  BY <1>5, <1>6, <1>7

(* What the passbook of one account gains by entry e. *)
Gains(s, a, q, b, e, W) ==
    /\ \A k : Beyond(row[a].txns[b], q.txns[b], k) <=> Beyond(row[a].txns[b], View(s, a).txns[b], k) \/ e.key = k
    /\ \A d \in Books : d # b => q.txns[d] = View(s, a).txns[d]
    /\ Transfers(q.txns["PRIMARY"], W) =
          Transfers(View(s, a).txns["PRIMARY"], W) + (IF b = "PRIMARY" THEN Transfer(e, W) ELSE 0)

LEMMA OneMoreGains ==
    ASSUME NEW W, TypeOK, NEW s \in Sessions, NEW a \in Accounts, NEW q, NEW b \in Books, NEW e \in Entry,
           OneMore(s, a, q, b, e), Extends(s)
    PROVE  Gains(s, a, q, b, e, W)
<1>1. View(s, a).txns \in Passbooks
  BY Types, RowFields
<1>2. /\ \A c \in Books : c # b => q.txns[c] = View(s, a).txns[c]
      /\ q.txns[b] = Append(View(s, a).txns[b], e)
  BY <1>1 DEF Passbooks, OneMore
<1>3. /\ row[a].txns[b] \in Seq(Entry) /\ View(s, a).txns[b] \in Seq(Entry)
      /\ View(s, a).txns["PRIMARY"] \in Seq(Entry)
      /\ Len(row[a].txns[b]) <= Len(View(s, a).txns[b])
  <2>1. /\ row[a].txns[b] \in Seq(Entry) /\ View(s, a).txns[b] \in Seq(Entry)
        /\ View(s, a).txns["PRIMARY"] \in Seq(Entry) /\ Len(row[a].txns[b]) \in Nat
    BY Txns
  <2>2. CASE Mine(s, a)
    BY <2>1, <2>2 DEF View, Extends
  <2>3. CASE ~Mine(s, a)
    BY <2>1, <2>3 DEF View
  <2>4. QED BY <2>1, <2>2, <2>3
<1>4. \A k : Beyond(row[a].txns[b], q.txns[b], k) <=> Beyond(row[a].txns[b], View(s, a).txns[b], k) \/ e.key = k
  BY ZenonT(30), <1>2, <1>3, BeyondAppend
<1>5. Transfers(q.txns["PRIMARY"], W) =
          Transfers(View(s, a).txns["PRIMARY"], W) + (IF b = "PRIMARY" THEN Transfer(e, W) ELSE 0)
  <2>1. CASE b = "PRIMARY"
    BY <1>2, <1>3, <2>1, TransferAppend
  <2>2. CASE b # "PRIMARY"
    <3>1. q.txns["PRIMARY"] = View(s, a).txns["PRIMARY"]
      BY <1>2, <2>2
    <3>2. Transfers(View(s, a).txns["PRIMARY"], W) \in Int
      BY <1>3, TransferAppend
    <3>3. QED BY <2>2, <3>1, <3>2
  <2>3. QED BY <2>1, <2>2
<1>6. QED
  BY <1>2, <1>4, <1>5 DEF Gains

(* A step writes key j into the passbooks of a, as s sees them. *)
WritesKey(s, a, j) ==
    \A k : (\E c \in Books : Beyond(row[a].txns[c], View(s, a).txns[c], k)')
             <=> (\E c \in Books : Beyond(row[a].txns[c], View(s, a).txns[c], k)) \/ k = j

LEMMA NetGains ==
    ASSUME NEW W, TypeOK, NEW s \in Sessions, NEW a \in Accounts, NEW q, NEW b \in Books, NEW e \in Entry,
           Gains(s, a, q, b, e, W), row' = row, View(s, a)' = q,
           NEW d, d = IF b = "PRIMARY" THEN Transfer(e, W) ELSE 0
    PROVE  /\ d \in Int /\ Net(s, a, W)' = Net(s, a, W) + d
           /\ WritesKey(s, a, e.key)
<1>1. d \in Int
  BY EntryFields DEF Transfer
<1>2. Net(s, a, W)' = Net(s, a, W) + d
  <2> DEFINE x == Transfers(View(s, a).txns["PRIMARY"], W)
             y == Transfers(row[a].txns["PRIMARY"], W)
             z == Transfers(q.txns["PRIMARY"], W)
  <2>1. z = x + d
    BY DEF Gains
  <2>2. Net(s, a, W)' = z - y /\ Net(s, a, W) = x - y
    BY DEF Net
  <2>3. x \in Int /\ y \in Int
    <3>1. View(s, a).txns["PRIMARY"] \in Seq(Entry) /\ row[a].txns["PRIMARY"] \in Seq(Entry)
      BY Txns
    <3>2. QED BY <3>1, TransferAppend
  <2> HIDE DEF x, y, z
  <2>4. QED BY <1>1, <2>1, <2>2, <2>3
<1>3. ASSUME NEW k
      PROVE  (\E c \in Books : Beyond(row[a].txns[c], View(s, a).txns[c], k)')
               <=> (\E c \in Books : Beyond(row[a].txns[c], View(s, a).txns[c], k)) \/ k = e.key
  <2>1. \A c \in Books : Beyond(row[a].txns[c], View(s, a).txns[c], k)'
                           <=> Beyond(row[a].txns[c], q.txns[c], k)
    BY DEF Beyond
  <2>2. /\ Beyond(row[a].txns[b], q.txns[b], k) <=> Beyond(row[a].txns[b], View(s, a).txns[b], k) \/ e.key = k
        /\ \A c \in Books : c # b => q.txns[c] = View(s, a).txns[c]
    BY DEF Gains
  <2>3. QED BY <2>1, <2>2
<1>4. QED
  BY <1>1, <1>2, <1>3 DEF WritesKey

LEMMA PostEffect ==
    ASSUME NEW W, TypeOK, NEW s \in Sessions, NEW a \in Accounts, NEW q, NEW b \in Books, NEW e \in Entry,
           NEW next, Write(s, a, q, next), OneMore(s, a, q, b, e), Extends(s)
    PROVE  Effect(s, W, IF b = "PRIMARY" THEN Transfer(e, W) ELSE 0, e.key)
<1> DEFINE d == IF b = "PRIMARY" THEN Transfer(e, W) ELSE 0
<1>1. /\ row' = row /\ View(s, a)' = q
      /\ \A c \in Accounts : c # a => View(s, c)' = View(s, c)
  BY WriteView
<1>2. Gains(s, a, q, b, e, W)
  BY OneMoreGains
<1>3. d \in Int /\ Net(s, a, W)' = Net(s, a, W) + d /\ WritesKey(s, a, e.key)
  BY <1>1, <1>2, NetGains
<1> HIDE DEF d
<1> DEFINE f == [c \in Accounts |-> Net(s, c, W)]
           g == [c \in Accounts |-> Net(s, c, W)']
<1>4. \A c \in Accounts : Net(s, c, W)' = Net(s, c, W) + (IF c = a THEN d ELSE 0)
  <2> TAKE c \in Accounts
  <2>1. CASE c = a
    BY <1>3, <2>1
  <2>2. CASE c # a
    <3>1. Net(s, c, W)' = Net(s, c, W)
      BY <1>1, <2>2 DEF Net
    <3>2. Net(s, c, W) \in Int
      BY NetInt
    <3>3. QED BY <2>2, <3>1, <3>2
  <2>3. QED BY <2>1, <2>2
<1>5. ShareGrows(Accounts, f, g, a, d)
  <2>1. d \in Int /\ \A c \in Accounts : Net(s, c, W) \in Int
    BY <1>3, NetInt
  <2>2. \A c \in Accounts : Net(s, c, W)' \in Int
    BY <1>4, <2>1
  <2>3. QED BY <1>4, <2>1, <2>2 DEF ShareGrows
<1>6. Flow(s, W) = SetTotal(f) /\ Flow(s, W)' = SetTotal(g)
  BY DEF Flow
<1> HIDE DEF f, g
<1>7. d \in Int
  BY <1>3
<1>8. SetTotal(f) \in Int /\ SetTotal(g) = SetTotal(f) + d
  BY <1>5, <1>7, AccountsFinite, SetTotalOne
<1>9. ASSUME NEW k PROVE Carried(s, k)' <=> Carried(s, k) \/ k = e.key
  <2>1. Carried(s, k)' <=> \E x \in Accounts : \E c \in Books : Beyond(row[x].txns[c], View(s, x).txns[c], k)'
    BY DEF Carried
  <2>2. Carried(s, k) <=> \E x \in Accounts : \E c \in Books : Beyond(row[x].txns[c], View(s, x).txns[c], k)
    BY DEF Carried
  <2>3. ASSUME NEW x \in Accounts, x # a, NEW c \in Books
        PROVE  Beyond(row[x].txns[c], View(s, x).txns[c], k)' <=> Beyond(row[x].txns[c], View(s, x).txns[c], k)
    BY <1>1, <2>3 DEF Beyond
  <2>4. QED BY <1>3, <2>1, <2>2, <2>3 DEF WritesKey
<1>10. QED
  BY <1>1, <1>6, <1>8, <1>9 DEF Effect, d

(* A round of the sweep moves what it takes from the user to suspense. *)
SeesRound(s, u, q, p, e, f, W) ==
    /\ u \in Accounts \ {Suspense} /\ Suspense \in Accounts
    /\ row' = row /\ View(s, u)' = q /\ View(s, Suspense)' = p
    /\ \A c \in Accounts \ {u, Suspense} : View(s, c)' = View(s, c)
    /\ OneMore(s, u, q, "PRIMARY", e) /\ OneMore(s, Suspense, p, "PRIMARY", f)
    /\ e.key = Null /\ f.key = Null /\ Transfer(e, W) = -Transfer(f, W)

LEMMA TakeEffect ==
    ASSUME NEW W, TypeOK, NEW s \in Sessions, Extends(s), NEW u, NEW q, NEW p,
           NEW e \in Entry, NEW f \in Entry, SeesRound(s, u, q, p, e, f, W)
    PROVE  Effect(s, W, 0, Null)
<1>1. /\ u \in Accounts \ {Suspense} /\ Suspense \in Accounts
      /\ row' = row /\ View(s, u)' = q /\ View(s, Suspense)' = p
      /\ \A c \in Accounts \ {u, Suspense} : View(s, c)' = View(s, c)
      /\ OneMore(s, u, q, "PRIMARY", e) /\ OneMore(s, Suspense, p, "PRIMARY", f)
      /\ e.key = Null /\ f.key = Null /\ Transfer(e, W) = -Transfer(f, W)
  BY DEF SeesRound
<1> DEFINE d == Transfer(e, W)
           m == Transfer(f, W)
           b == "PRIMARY"
<1>2. Gains(s, u, q, b, e, W) /\ Gains(s, Suspense, p, b, f, W)
  BY <1>1, OneMoreGains
<1>3. d = (IF b = "PRIMARY" THEN Transfer(e, W) ELSE 0) /\ m = (IF b = "PRIMARY" THEN Transfer(f, W) ELSE 0)
      /\ d = -m /\ b \in Books /\ u \in Accounts
  BY <1>1
<1> HIDE DEF d, m, b
<1>4. d \in Int /\ Net(s, u, W)' = Net(s, u, W) + d /\ WritesKey(s, u, e.key)
  BY <1>1, <1>2, <1>3, NetGains
<1>5. m \in Int /\ Net(s, Suspense, W)' = Net(s, Suspense, W) + m /\ WritesKey(s, Suspense, f.key)
  BY <1>1, <1>2, <1>3, NetGains
<1> DEFINE n == [c \in Accounts |-> Net(s, c, W)]
           g == [c \in Accounts |-> Net(s, c, W) + (IF c = u THEN d ELSE 0)]
           h == [c \in Accounts |-> Net(s, c, W)']
<1>6. \A c \in Accounts : Net(s, c, W) \in Int
  BY NetInt
<1>7. \A c \in Accounts : h[c] = g[c] + (IF c = Suspense THEN m ELSE 0)
  <2> TAKE c \in Accounts
  <2>1. CASE c = u
    BY <1>3, <1>4, <1>5, <1>6, <2>1
  <2>2. CASE c = Suspense
    BY <1>1, <1>3, <1>5, <1>6, <2>2
  <2>3. CASE c \notin {u, Suspense}
    <3>1. Net(s, c, W)' = Net(s, c, W)
      BY <1>1, <2>3 DEF Net
    <3>2. QED BY <1>6, <2>3, <3>1
  <2>4. QED BY <2>1, <2>2, <2>3
<1>8. d \in Int /\ m \in Int
  BY <1>4, <1>5
<1>9. ShareGrows(Accounts, n, g, u, d)
  BY <1>6, <1>8 DEF ShareGrows
<1>10. u \in Accounts /\ Suspense \in Accounts
  BY <1>1
<1>11. ShareGrows(Accounts, g, h, Suspense, m)
  <2>1. g \in [Accounts -> Int]
    BY <1>6, <1>8
  <2>2. \A c \in Accounts : h[c] \in Int
    <3> HIDE DEF h, g
    <3>1. QED BY <1>7, <1>8, <2>1
  <2>3. h \in [Accounts -> Int]
    BY <2>2
  <2> HIDE DEF h, g
  <2>4. QED BY <1>7, <2>1, <2>3 DEF ShareGrows
<1>12. Flow(s, W) = SetTotal(n) /\ Flow(s, W)' = SetTotal(h)
  BY DEF Flow
<1> HIDE DEF n, g, h
<1>13. SetTotal(n) \in Int /\ SetTotal(g) = SetTotal(n) + d
  BY <1>8, <1>9, <1>10, AccountsFinite, SetTotalOne
<1>14. SetTotal(g) \in Int /\ SetTotal(h) = SetTotal(g) + m
  BY <1>8, <1>11, <1>10, AccountsFinite, SetTotalOne
<1>15. Flow(s, W) \in Int /\ Flow(s, W)' = Flow(s, W) + 0
  BY <1>3, <1>8, <1>12, <1>13, <1>14
<1>16. ASSUME NEW k, k # Null PROVE Carried(s, k)' <=> Carried(s, k)
  <2>1. Carried(s, k)' <=> \E x \in Accounts : \E c \in Books : Beyond(row[x].txns[c], View(s, x).txns[c], k)'
    BY DEF Carried
  <2>2. Carried(s, k) <=> \E x \in Accounts : \E c \in Books : Beyond(row[x].txns[c], View(s, x).txns[c], k)
    BY DEF Carried
  <2>3. ASSUME NEW x \in Accounts \ {u, Suspense}, NEW c \in Books
        PROVE  Beyond(row[x].txns[c], View(s, x).txns[c], k)' <=> Beyond(row[x].txns[c], View(s, x).txns[c], k)
    BY <1>1, <2>3 DEF Beyond
  <2>4. QED BY <1>1, <1>4, <1>5, <1>16, <2>1, <2>2, <2>3 DEF WritesKey
<1>17. \A k \in ReversalKeys : k # Null
  BY ReversalKeysAreOwn
<1>18. QED
  BY <1>1, <1>15, <1>16, <1>17 DEF Effect

(* What a Post on the row as s sees it does. *)
LEMMA PostingEffect ==
    ASSUME NEW W, Safe, NEW s \in Sessions, Extends(s), NEW a \in Accounts, NEW b \in Books, NEW delta \in Int,
           NEW key \in Keyed, NEW reason \in Reasons, NEW ref \in Refs, NEW next,
           NEW p, p = Post(View(s, a), b, delta, key, reason, ref), Write(s, a, p, next)
    PROVE  Effect(s, W, IF b = "PRIMARY" /\ reason # "MOVE" /\ <<reason, ref>> \in W THEN delta ELSE 0, key)
<1> DEFINE r == View(s, a)
<1>1. r = View(s, a) /\ p = Post(r, b, delta, key, reason, ref)
  OBVIOUS
<1> HIDE DEF r
<1>2. PICK e \in Entry : e.key = key /\ e.delta = delta /\ e.reason = reason /\ e.ref = ref /\ OneMore(s, a, p, b, e)
  BY <1>1, PostIsOneMore
<1>3. Effect(s, W, IF b = "PRIMARY" THEN Transfer(e, W) ELSE 0, e.key)
  BY <1>2, PostEffect DEF Safe
<1>4. (IF b = "PRIMARY" THEN Transfer(e, W) ELSE 0) = IF b = "PRIMARY" /\ reason # "MOVE" /\ <<reason, ref>> \in W THEN delta ELSE 0
  BY <1>2 DEF Transfer
<1>5. QED
  BY <1>2, <1>3, <1>4

(* A key is committed or written where the unique index would find it. *)
LEMMA CommittedIsUsed == ASSUME Safe, Sessions # {}, NEW k, k # Null PROVE Committed(k) <=> k \in UsedKeys
<1>1. PICK s : s \in Sessions
  OBVIOUS
<1>2. ASSUME Committed(k) PROVE k \in UsedKeys
  <2>1. PICK a \in Accounts, b \in Books : \E i \in 1..Len(row[a].txns[b]) : row[a].txns[b][i].key = k
    BY <1>2 DEF Committed
  <2>2. PICK i \in 1..Len(row[a].txns[b]) : row[a].txns[b][i].key = k
    BY <2>1
  <2>3. i \in Nat
    OBVIOUS
  <2>4. QED BY <1>1, <2>2, <2>3, KeyPlaces
<1>3. ASSUME k \in UsedKeys PROVE Committed(k)
  <2>1. PICK a \in Accounts : k \in Keys(row[a])
    BY <1>3 DEF UsedKeys
  <2>2. PICK b \in Books : k \in {row[a].txns[b][i].key : i \in ([d \in Books |-> 0][b] + 1)..Len(row[a].txns[b])}
    BY <2>1 DEF Keys, KeysFrom
  <2>3. [d \in Books |-> 0][b] + 1 = 1
    OBVIOUS
  <2>4. PICK i \in 1..Len(row[a].txns[b]) : k = row[a].txns[b][i].key
    BY <2>2, <2>3
  <2>5. QED BY <2>4 DEF Committed
<1>4. QED
  BY <1>2, <1>3

LEMMA WrittenIsFresh ==
    ASSUME TypeOK, NEW s \in Sessions, NEW k, Carried(s, k)
    PROVE  \E a \in Accounts, b \in Books, i \in Nat : Fresh(s, a, b, i) /\ KeyAt(s, a, b, i) = k
<1>1. PICK a \in Accounts, b \in Books : Beyond(row[a].txns[b], View(s, a).txns[b], k)
  BY DEF Carried
<1>2. PICK i \in (Len(row[a].txns[b]) + 1)..Len(View(s, a).txns[b]) : View(s, a).txns[b][i].key = k
  BY <1>1 DEF Beyond
<1>3. Len(row[a].txns[b]) \in Nat /\ Len(View(s, a).txns[b]) \in Nat
  BY Txns
<1>4. Mine(s, a)
  <2>1. Len(row[a].txns[b]) # Len(View(s, a).txns[b])
    BY <1>2, <1>3
  <2>2. QED BY <2>1 DEF View
<1>5. View(s, a) = work[s][a]
  BY <1>4 DEF View
<1>6. Fresh(s, a, b, i) /\ KeyAt(s, a, b, i) = k
  BY <1>2, <1>4, <1>5 DEF Fresh, KeyAt
<1>7. i \in Nat
  BY <1>2, <1>3
<1>8. QED
  BY <1>6, <1>7

LEMMA WrittenIsNew ==
    ASSUME Safe, NEW s \in Sessions, NEW k, k # Null, Carried(s, k)
    PROVE  k \in NewKeys(s)
<1>1. PICK a \in Accounts, b \in Books, i \in Nat : Fresh(s, a, b, i) /\ KeyAt(s, a, b, i) = k
  BY WrittenIsFresh DEF Safe
<1>2. QED
  BY <1>1, KeyPlaces

LEMMA OwnKeys == \A k \in ReversalKeys : k # Null
BY ReversalKeysAreOwn

(* Both legs of a reversal are committed, or neither. *)
PairedKeys == \A u \in Retailers, i \in Nat : Committed(SuspenseKey(u, i)) <=> Committed(UserKey(u, i))

OneSeen(s) == \A x, y \in seen[s] : x = y

Out(s)  == SuspenseKey(op[s].user, op[s].ref)
Back(s) == UserKey(op[s].user, op[s].ref)
Label(s) == <<"REVERSAL", <<op[s].user, op[s].ref>>>>

(* Nothing of a reversal is written: before its legs, or after another's. *)
Quiet(s, W) ==
    /\ Flow(s, W) = 0 /\ \A k \in ReversalKeys : ~Carried(s, k)
    /\ pc[s] # "lockUser" /\ (pc[s] = "creditUser" => Committed(Out(s)))

(* The first leg is written, the second to come. *)
Halfway(s, W) ==
    /\ pc[s] \in UserLeg
    /\ \A k \in ReversalKeys : Carried(s, k) <=> k = Out(s)
    /\ \A x \in seen[s] : Flow(s, W) = IF Label(s) \in W THEN -x.lien.recovered ELSE 0

Returned(s, W) ==
    /\ Flow(s, W) = 0 /\ \A k \in ReversalKeys : Carried(s, k) <=> k \in {Out(s), Back(s)}
    /\ pc[s] \notin SuspenseLeg \cup UserLeg

(* Another session committed the leg this one has written: it cannot commit. *)
Doomed(s) == \E k \in ReversalKeys : Carried(s, k) /\ Committed(k)

Even(s, W) ==
    /\ op[s].key \notin ReversalKeys
    /\ pc[s] \in Unlocked \cup SuspenseLeg \cup UserLeg => OneSeen(s)
    /\ Quiet(s, W) \/ Halfway(s, W) \/ Returned(s, W) \/ Doomed(s)

(* Over all passbooks, the labels of W move nothing. *)
BalancedIn(W) == SetTotal(Held(W)) = 0

BalanceInv == PairedKeys /\ \A W \in SUBSET Labels : BalancedIn(W) /\ \A s \in Sessions : Even(s, W)

(* A session whose sight is the committed table. *)
Untouched(s) == TypeOK /\ \A a \in Accounts : View(s, a).txns = row[a].txns

UntouchedIsEmpty == \A W \in SUBSET Labels : \A s \in Sessions : Untouched(s) => Flow(s, W) = 0 /\ \A k : ~Carried(s, k)

LEMMA UntouchedFacts == UntouchedIsEmpty
BY NothingWritten DEF Untouched, UntouchedIsEmpty

LEMMA UntouchedNext == UntouchedIsEmpty'
BY UntouchedFacts, PTL

LEMMA UntouchedEven ==
    ASSUME NEW W \in SUBSET Labels, NEW s \in Sessions, Untouched(s)', op'[s].key \notin ReversalKeys,
           pc'[s] \notin UserLeg, \A x, y \in seen'[s] : x = y
    PROVE  Even(s, W)'
<1>1. Flow(s, W)' = 0 /\ \A k : ~Carried(s, k)'
  BY UntouchedNext DEF UntouchedIsEmpty
<1>2. Quiet(s, W)'
  BY <1>1 DEF Quiet
<1>3. OneSeen(s)'
  BY DEF OneSeen
<1>4. QED
  BY <1>2, <1>3 DEF Even

LEMMA EndEven ==
    ASSUME NEW W \in SUBSET Labels, Safe, Safe', NEW s \in Sessions, End(s)
    PROVE  Even(s, W)'
<1>1. op'[s] = NoOp /\ pc'[s] = "idle" /\ seen'[s] = {} /\ \A a \in Accounts : lock'[a] # s
  BY TypeOKGives DEF Safe, End, Mine
<1>2. Untouched(s)'
  BY <1>1 DEF Untouched, View, Mine, Safe
<1>3. op'[s].key \notin ReversalKeys
  BY <1>1, ReversalKeysAreOwn DEF NoOp
<1>4. QED
  BY <1>1, <1>2, <1>3, UntouchedEven

(* Before the first lock, and by the write that takes it. *)
LEMMA UnlockedEven ==
    ASSUME NEW W \in SUBSET Labels, Safe, Safe', NEW s \in Sessions, Appends(s), pc[s] \in Unlocked, row' = row, lock' = lock,
           op'[s].key \notin ReversalKeys, pc'[s] \notin UserLeg, \A x, y \in seen'[s] : x = y
    PROVE  Even(s, W)'
<1>1. \A a \in Accounts : ~Mine(s, a)'
  BY FreeOfCopies DEF Mine
<1>2. Untouched(s)'
  BY <1>1 DEF Untouched, View, Safe
<1>3. QED
  BY <1>2, UntouchedEven

LEMMA FirstWriteEven ==
    ASSUME NEW W \in SUBSET Labels, Safe, Safe', NEW s \in Sessions, Appends(s), Even(s, W), pc[s] \in Unlocked,
           NEW a \in Accounts, NEW q \in Row, q.txns = row[a].txns,
           NEW next, next \notin UserLeg, Write(s, a, q, next)
    PROVE  Even(s, W)'
<1>1. /\ row' = row /\ op' = op /\ seen' = seen /\ pc'[s] = next
      /\ View(s, a)' = q
      /\ \A c \in Accounts : c # a => View(s, c)' = View(s, c)
  BY WriteView DEF Safe
<1>2. \A c \in Accounts : View(s, c) = row[c]
  BY FreeOfCopies
<1>3. \A c \in Accounts : (View(s, c)').txns = row'[c].txns
  BY <1>1, <1>2
<1>4. Untouched(s)'
  BY <1>3 DEF Untouched, Safe
<1>5. op'[s].key \notin ReversalKeys /\ \A x, y \in seen'[s] : x = y
  BY <1>1 DEF Even, OneSeen
<1>6. QED
  BY <1>1, <1>4, <1>5, UntouchedEven

(* A step that moves nothing between accounts, after the first lock. *)
LEMMA QuietStep ==
    ASSUME NEW W, NEW s \in Sessions, Even(s, W), NEW key, key \notin ReversalKeys, Effect(s, W, 0, key),
           op'[s] = op[s], pc[s] \notin UserLeg, pc'[s] \in {"sweep", "take", "close", "commit"}
    PROVE  Even(s, W)'
<1>1. /\ row' = row /\ Flow(s, W)' = Flow(s, W) + 0 /\ Flow(s, W) \in Int
      /\ \A j \in ReversalKeys : Carried(s, j)' <=> Carried(s, j)
  BY DEF Effect
<1>2. Flow(s, W)' = Flow(s, W)
  BY <1>1
<1>3. Out(s)' = Out(s) /\ Back(s)' = Back(s) /\ \A k : Committed(k)' <=> Committed(k)
  BY <1>1 DEF Out, Back, Committed
<1>4. ~Halfway(s, W)
  BY DEF Halfway
<1>5. CASE Quiet(s, W)
  <2>1. Quiet(s, W)'
    BY <1>1, <1>2, <1>5 DEF Quiet
  <2>2. QED BY <2>1 DEF Even, Unlocked
<1>6. CASE Returned(s, W)
  <2>1. Returned(s, W)'
    BY <1>1, <1>2, <1>3, <1>6 DEF Returned
  <2>2. QED BY <2>1 DEF Even, Unlocked
<1>7. CASE Doomed(s)
  <2>1. Doomed(s)'
    BY <1>1, <1>3, <1>7 DEF Doomed
  <2>2. QED BY <2>1 DEF Even, Unlocked
<1>8. QED
  BY <1>4, <1>5, <1>6, <1>7 DEF Even

LEMMA ArriveEven ==
    ASSUME NEW W \in SUBSET Labels, Safe, Safe', NEW s \in Sessions, Appends(s), Even(s, W), Arrive(s)
    PROVE  Even(s, W)'
<1>1. PICK o, at : Start(s, o, at) /\ o.key \notin ReversalKeys /\ at \in {"check", "lock", "read"}
  <2>1. ASSUME NEW m \in Movements, Request(s, m)
        PROVE  \E o, at : Start(s, o, at) /\ o.key \notin ReversalKeys /\ at \in {"check", "lock", "read"}
    <3> DEFINE o == [kind |-> m.kind, user |-> m.user, book |-> m.book, amt |-> m.amt, key |-> m.key, ref |-> 0]
    <3>1. Start(s, o, IF m.key = Null THEN "lock" ELSE "check")
      BY <2>1 DEF Request
    <3>2. o.key \notin ReversalKeys
      BY ReversalKeysAreOwn
    <3> HIDE DEF o
    <3>3. QED BY <3>1, <3>2
  <2>2. ASSUME NEW k, NEW u, NEW i, NEW amt, DeskRequest(s, k, u, i, amt)
        PROVE  \E o, at : Start(s, o, at) /\ o.key \notin ReversalKeys /\ at \in {"check", "lock", "read"}
    <3> DEFINE o == [kind |-> k, user |-> u, book |-> "PRIMARY", amt |-> amt, key |-> Null, ref |-> i]
    <3>1. Start(s, o, IF k = "place" THEN "lock" ELSE "read")
      BY <2>2 DEF DeskRequest
    <3>2. o.key \notin ReversalKeys
      BY ReversalKeysAreOwn
    <3> HIDE DEF o
    <3>3. QED BY <3>1, <3>2
  <2>3. QED BY <2>1, <2>2 DEF Arrive
<1>2. pc[s] = "idle" /\ row' = row /\ lock' = lock /\ seen' = seen
      /\ op'[s] = o /\ pc'[s] = at
  BY <1>1, TypeOKGives DEF Start, Safe
<1>3. \A x, y \in seen'[s] : x = y
  BY <1>2 DEF Even, OneSeen, Unlocked
<1>4. pc[s] \in Unlocked
  BY <1>2 DEF Unlocked
<1>5. QED
  BY <1>1, <1>2, <1>3, <1>4, UnlockedEven

LEMMA ReadEven ==
    ASSUME NEW W \in SUBSET Labels, Safe, Safe', NEW s \in Sessions, Appends(s), Even(s, W), CheckKey(s) \/ ReadLien(s)
    PROVE  Even(s, W)'
<1>1. CASE Rollback(s)
  BY <1>1, EndEven DEF Rollback
<1>2. CASE CheckKey(s) /\ ~Rollback(s)
  <2>1. pc[s] = "check" /\ pc'[s] = "lock" /\ row' = row /\ lock' = lock /\ op' = op /\ seen' = seen
    BY <1>2, TypeOKGives DEF CheckKey, Safe
  <2>2. pc[s] \in Unlocked /\ op'[s].key \notin ReversalKeys /\ \A x, y \in seen'[s] : x = y
    BY <2>1 DEF Even, OneSeen, Unlocked
  <2>3. QED BY <2>1, <2>2, UnlockedEven
<1>3. CASE ReadLien(s) /\ ~Rollback(s)
  <2>1. PICK x, next : /\ pc[s] = "read" /\ seen' = [seen EXCEPT ![s] = {x}]
                       /\ Continue(s, next) /\ next \in {"sweep", "lock", "debitSuspense"}
    BY <1>3 DEF ReadLien
  <2>2. pc'[s] = next /\ row' = row /\ lock' = lock /\ op' = op /\ seen'[s] = {x}
    BY <2>1, TypeOKGives DEF Continue, Safe
  <2>3. pc[s] \in Unlocked /\ op'[s].key \notin ReversalKeys /\ \A y, z \in seen'[s] : y = z
    BY <2>1, <2>2 DEF Even, Unlocked
  <2>4. QED BY <2>1, <2>2, <2>3, UnlockedEven
<1>4. QED
  BY <1>1, <1>2, <1>3

LEMMA FirstEven ==
    ASSUME NEW W \in SUBSET Labels, Safe, Safe', NEW s \in Sessions, Appends(s), Even(s, W),
           \/ HoldFunds(s) \/ ReleaseHold(s)
           \/ PlaceWalletLien(s) \/ ReleaseWalletLien(s) \/ ReverseFrozen(s)
    PROVE  Even(s, W)'
<1>1. op[s].user \in Accounts
  BY Types, NoOpFacts, OpFields DEF Safe
<1>2. pc[s] \in Unlocked
  BY DEF HoldFunds, ReleaseHold, PlaceWalletLien, ReleaseWalletLien, ReverseFrozen, At, Unlocked
<1>3. ASSUME NEW q \in Row, NEW next \in {"sweep", "commit", "debitSuspense", "close"},
             Write(s, op[s].user, q, next), q.txns = row[op[s].user].txns
      PROVE  Even(s, W)'
  <2>1. next \notin UserLeg
    OBVIOUS
  <2>2. QED BY <1>1, <1>2, <1>3, <2>1, FirstWriteEven
<1>4. Rollback(s) => Even(s, W)'
  BY EndEven DEF Rollback
<1>5. QED
  BY <1>3, <1>4, HoldWrites, DeskWrites

LEMMA MoveEven ==
    ASSUME NEW W \in SUBSET Labels, Safe, Safe', NEW s \in Sessions, Appends(s), Even(s, W),
           CreditWallet(s) \/ DebitWallet(s) \/ CaptureHold(s)
    PROVE  Even(s, W)'
<1> DEFINE o == op[s]
           r == row[o.user]
           next == IF o.book = "PRIMARY" /\ r.lien > 0 THEN "sweep" ELSE "commit"
           plus == Post(r, o.book, o.amt, o.key, "MOVE", Null)
           minus == Post(r, o.book, -o.amt, o.key, "MOVE", Null)
           captured == Capture(r, o.amt, o.key)
<1>1. o.user \in Accounts /\ o.book \in Books /\ o.amt \in Nat /\ o.amt \in Int /\ -o.amt \in Int /\ o.key \in Keyed
  <2>1. o \in Ops
    BY Types, NoOpFacts DEF Safe
  <2>2. o.user \in Accounts /\ o.book \in Books /\ o.amt \in Nat /\ o.key \in Keyed
    BY <2>1, OpFields
  <2>3. QED BY <2>2
<1>2. pc[s] = "lock" /\ "MOVE" \in Reasons /\ Null \in Refs
  BY DEF CreditWallet, DebitWallet, CaptureHold, At, Reasons, Refs
<1>3. \/ Write(s, o.user, plus, next)
      \/ Write(s, o.user, minus, "commit")
      \/ Write(s, o.user, captured, "commit")
      \/ Rollback(s)
  BY DEF CreditWallet, DebitWallet, CaptureHold
<1>4. next \in {"sweep", "commit"}
  OBVIOUS
<1>5. r = View(s, o.user)
  BY <1>1, <1>2, FreeOfCopies DEF Unlocked
<1>6. Extends(s) /\ o.key \notin ReversalKeys
  BY DEF Appends, Even
<1> HIDE DEF next, r
<1>7. ASSUME NEW q, NEW at \in {"sweep", "commit"}, Write(s, o.user, q, at), Effect(s, W, 0, o.key) PROVE Even(s, W)'
  <2>1. pc'[s] = at /\ op' = op
    BY <1>1, <1>7, WriteView DEF Safe
  <2>2. QED BY <1>2, <1>6, <1>7, <2>1, QuietStep
<1>8. ASSUME NEW d \in Int, NEW at \in {"sweep", "commit"}, NEW p,
             p = Post(r, o.book, d, o.key, "MOVE", Null), Write(s, o.user, p, at)
      PROVE  Even(s, W)'
  <2>1. p = Post(View(s, o.user), o.book, d, o.key, "MOVE", Null)
    BY <1>5, <1>8
  <2>2. Effect(s, W, IF o.book = "PRIMARY" /\ "MOVE" # "MOVE" /\ <<"MOVE", Null>> \in W THEN d ELSE 0, o.key)
    <3> HIDE DEF o
    <3>1. QED BY <1>1, <1>2, <1>6, <1>8, <2>1, PostingEffect
  <2>3. Effect(s, W, 0, o.key)
    BY <2>2
  <2>4. QED BY <1>7, <1>8, <2>3
<1>9. CASE Write(s, o.user, captured, "commit")
  <2>1. PICK e \in Entry : e.key = o.key /\ e.reason = "MOVE" /\ OneMore(s, o.user, captured, "PRIMARY", e)
    <3> HIDE DEF o
    <3>1. QED BY <1>1, <1>5, CaptureTxns
  <2> HIDE DEF captured
  <2>2. Effect(s, W, Transfer(e, W), e.key)
    BY <1>1, <1>6, <1>9, <2>1, PostEffect DEF Safe
  <2>3. Effect(s, W, 0, o.key)
    BY <2>1, <2>2 DEF Transfer
  <2>4. QED BY <1>7, <1>9, <2>3
<1>10. QED
  BY <1>1, <1>3, <1>4, <1>8, <1>9, EndEven DEF Rollback

LEMMA ContinueEffect ==
    ASSUME NEW W, TypeOK, NEW s \in Sessions, NEW next, Continue(s, next)
    PROVE  /\ Effect(s, W, 0, Null) /\ op' = op /\ pc'[s] = next /\ row' = row
           /\ Out(s)' = Out(s) /\ Back(s)' = Back(s) /\ Flow(s, W)' = Flow(s, W)
           /\ \A k : Carried(s, k)' <=> Carried(s, k)
           /\ \A k : Committed(k)' <=> Committed(k)
<1>1. row' = row /\ lock' = lock /\ op' = op /\ work' = work /\ pc'[s] = next
  BY TypeOKGives DEF Continue
<1>2. \A a \in Accounts : View(s, a)' = View(s, a)
  BY <1>1 DEF View, Mine
<1>3. Effect(s, W, 0, Null)
  BY <1>1, <1>2, StillEffect
<1>4. \A a \in Accounts : Net(s, a, W)' = Net(s, a, W)
  BY <1>1, <1>2 DEF Net
<1>5. Flow(s, W)' = Flow(s, W)
  BY <1>4 DEF Flow
<1>6. \A k : Carried(s, k)' <=> Carried(s, k)
  BY <1>1, <1>2 DEF Carried, Beyond
<1>7. QED
  BY <1>1, <1>3, <1>5, <1>6 DEF Out, Back, Committed

LEMMA NullIsNoOwnKey == Null \notin ReversalKeys
BY OwnKeys

LEMMA SweepEven ==
    ASSUME NEW W, Safe, NEW s \in Sessions, Even(s, W), ReadLiens(s) \/ SweepDone(s)
    PROVE  Even(s, W)'
<1>1. PICK next \in {"take", "close", "commit"} : Continue(s, next)
  <2>1. AfterSweep(s) \in {"close", "commit"}
    BY AfterSweepFacts
  <2>2. Continue(s, AfterSweep(s)) \/ Continue(s, "take")
    BY DEF ReadLiens, SweepDone
  <2>3. QED BY <2>1, <2>2
<1>2. Effect(s, W, 0, Null) /\ op' = op /\ pc'[s] = next
  BY <1>1, ContinueEffect DEF Safe
<1>3. pc[s] \notin UserLeg
  BY DEF ReadLiens, SweepDone
<1>4. QED
  BY <1>2, <1>3, NullIsNoOwnKey, QuietStep

LEMMA SameTxnsEven ==
    ASSUME NEW W, Safe, NEW s \in Sessions, Even(s, W), NEW a \in Accounts, NEW q,
           NEW next \in {"take", "commit"}, Write(s, a, q, next), q.txns = View(s, a).txns,
           pc[s] \notin UserLeg
    PROVE  Even(s, W)'
<1>1. /\ row' = row /\ op' = op /\ pc'[s] = next
      /\ View(s, a)' = q
      /\ \A c \in Accounts : c # a => View(s, c)' = View(s, c)
  BY WriteView DEF Safe
<1>2. \A c \in Accounts : (View(s, c)').txns = View(s, c).txns
  BY <1>1
<1>3. Effect(s, W, 0, Null)
  BY <1>1, <1>2, StillEffect DEF Safe
<1>4. QED
  BY <1>1, <1>3, NullIsNoOwnKey, QuietStep

LEMMA LockEven ==
    ASSUME NEW W, Safe, NEW s \in Sessions, Even(s, W), LockForSweep(s)
    PROVE  Even(s, W)'
<1> DEFINE u == op[s].user
           r == row[u]
<1>1. u \in Accounts
  BY Types, NoOpFacts, OpFields DEF Safe
<1>2. pc[s] = "take" /\ Write(s, u, r, "take") /\ r = View(s, u)
  BY DEF LockForSweep, View
<1> HIDE DEF r
<1>3. QED
  BY <1>1, <1>2, SameTxnsEven

LEMMA CloseEven ==
    ASSUME NEW W, Safe, NEW s \in Sessions, Even(s, W), ReverseClose(s)
    PROVE  Even(s, W)'
<1> DEFINE u == op[s].user
           r == View(s, u)
           i == op[s].ref
           q == CloseLien(r, i)
<1>1. u \in Accounts /\ i \in Nat /\ Write(s, u, q, "commit") /\ pc[s] = "close"
  BY Types, NoOpFacts, OpFields DEF Safe, ReverseClose
<1>2. r \in Row
  BY <1>1, Types DEF Safe
<1>3. r = View(s, u)
  OBVIOUS
<1> HIDE DEF u, r, i
<1>4. q.txns = r.txns
  BY <1>1, <1>2, LienColumns
<1> HIDE DEF q
<1>5. QED
  BY <1>1, <1>3, <1>4, SameTxnsEven

LEMMA TakeEven ==
    ASSUME NEW W, Safe, NEW s \in Sessions, Appends(s), Even(s, W), TakeFromLien(s)
    PROVE  Even(s, W)'
<1>0. PICK u : u = op[s].user
  OBVIOUS
<1>1. /\ u \in Accounts \ {Suspense} /\ Suspense \in Accounts
      /\ pc[s] = "take" /\ Mine(s, u) /\ lock' = [lock EXCEPT ![Suspense] = s]
      /\ row' = row /\ pc' = pc /\ op' = op
  BY <1>0, TakeWrites
<1>2. PICK q \in Row, p \in Row, e \in Entry, f \in Entry :
        Round(s, u, q, p, e, f) /\ Opposite(e, f)
  BY <1>0, TakeWrites
<1>3. work' = [work EXCEPT ![s][u] = q, ![s][Suspense] = p]
  BY <1>2 DEF Round
<1>4. lock \in [Accounts -> Sessions \cup {None}] /\ work \in [Sessions -> [Accounts -> Row]]
  BY TypeOKGives DEF Safe
<1>5. /\ work'[s][u] = q /\ work'[s][Suspense] = p
      /\ \A c \in Accounts \ {u, Suspense} : work'[s][c] = work[s][c]
      /\ lock'[Suspense] = s /\ \A c \in Accounts \ {Suspense} : lock'[c] = lock[c]
  BY <1>1, <1>3, <1>4
<1>6. View(s, u)' = q /\ View(s, Suspense)' = p /\ \A c \in Accounts \ {u, Suspense} : View(s, c)' = View(s, c)
  <2>1. Mine(s, u)' /\ Mine(s, Suspense)'
    BY <1>1, <1>5 DEF Mine
  <2>2. \A c \in Accounts \ {u, Suspense} : View(s, c)' = View(s, c)
    BY <1>1, <1>5 DEF View, Mine
  <2>3. QED BY <1>5, <2>1, <2>2 DEF View
<1>7. Transfer(e, W) = -Transfer(f, W)
  BY <1>2, EntryFields DEF Transfer, Opposite
<1>8. Extends(s) /\ TypeOK
  BY DEF Appends, Safe
<1>9. OneMore(s, u, q, "PRIMARY", e) /\ OneMore(s, Suspense, p, "PRIMARY", f) /\ e.key = Null /\ f.key = Null
  BY <1>2 DEF Round
<1>10. SeesRound(s, u, q, p, e, f, W)
  BY <1>1, <1>6, <1>7, <1>9 DEF SeesRound
<1>11. Effect(s, W, 0, Null)
  BY <1>8, <1>10, TakeEffect
<1>12. QED
  BY <1>1, <1>11, NullIsNoOwnKey, QuietStep

(* The legs of a reversal. *)
LEMMA NoLegWritten ==
    ASSUME NEW W, Safe, NEW s \in Sessions, Appends(s), Even(s, W), pc[s] \in SuspenseLeg
    PROVE  Quiet(s, W)
<1>1. ASSUME NEW k \in ReversalKeys PROVE ~Carried(s, k)
  <2>1. SUFFICES ASSUME Carried(s, k) PROVE FALSE
    OBVIOUS
  <2>2. PICK a \in Accounts, b \in Books, i \in Nat : Fresh(s, a, b, i) /\ KeyAt(s, a, b, i) = k
    BY <2>1, WrittenIsFresh DEF Safe
  <2>3. KeyAt(s, a, b, i) = Null
    BY <2>2 DEF Appends, KeysByStep
  <2>4. QED BY <2>2, <2>3, NullIsNoOwnKey
<1>2. ~Halfway(s, W) /\ ~Returned(s, W) /\ ~Doomed(s)
  BY <1>1 DEF Halfway, Returned, Doomed
<1>3. QED
  BY <1>2 DEF Even

LEMMA LegKeys ==
    ASSUME Safe, NEW s \in Sessions, pc[s] \in SuspenseLeg \cup UserLeg
    PROVE  /\ op[s].user \in Retailers /\ op[s].ref \in Nat
           /\ Out(s) \in ReversalKeys /\ Back(s) \in ReversalKeys /\ Out(s) # Back(s)
           /\ Out(s) \in Keyed /\ Back(s) \in Keyed
<1>1. op[s].user \in Retailers /\ op[s].ref \in Nat
  BY Types, NoOpFacts, OpFields DEF Safe, ControlOK
<1>2. Out(s) \in ReversalKeys /\ Back(s) \in ReversalKeys /\ Out(s) # Back(s)
  BY <1>1 DEF Out, Back, SuspenseKey, UserKey, ReversalKeys
<1>3. QED
  BY <1>1, <1>2 DEF Keyed

LEMMA CheckSuspenseEven ==
    ASSUME NEW W, Safe, NEW s \in Sessions, Appends(s), Even(s, W), CheckSuspenseLeg(s)
    PROVE  Even(s, W)'
<1> DEFINE next == IF Out(s) \in UsedKeys THEN "creditUser" ELSE "lockSuspense"
<1>1. pc[s] = "debitSuspense" /\ Continue(s, next) /\ seen' = seen
  BY DEF CheckSuspenseLeg, Out
<1>2. /\ op' = op /\ pc'[s] = next /\ Out(s)' = Out(s) /\ Flow(s, W)' = Flow(s, W)
      /\ \A k : Carried(s, k)' <=> Carried(s, k)
      /\ \A k : Committed(k)' <=> Committed(k)
  BY <1>1, ContinueEffect DEF Safe
<1>3. Quiet(s, W) /\ OneSeen(s) /\ op[s].key \notin ReversalKeys
  BY <1>1, NoLegWritten DEF Even
<1>4. Out(s) \in ReversalKeys /\ Sessions # {}
  BY <1>1, LegKeys
<1>5. next = "creditUser" => Committed(Out(s))
  BY <1>4, CommittedIsUsed, OwnKeys
<1>6. next \in {"creditUser", "lockSuspense"}
  OBVIOUS
<1> HIDE DEF next
<1>7. Quiet(s, W)'
  BY <1>2, <1>3, <1>5, <1>6 DEF Quiet
<1>8. QED
  BY <1>1, <1>2, <1>3, <1>7 DEF Even, OneSeen

LEMMA DebitSuspenseEven ==
    ASSUME NEW W \in SUBSET Labels, Safe, Safe', NEW s \in Sessions, Appends(s), Even(s, W), ReverseDebitSuspense(s)
    PROVE  Even(s, W)'
<1>1. pc[s] = "lockSuspense" /\ Suspense \in Accounts /\ "PRIMARY" \in Books
  BY NoOpFacts DEF ReverseDebitSuspense
<1>2. /\ op[s].user \in Retailers /\ op[s].ref \in Nat
      /\ Out(s) \in ReversalKeys /\ Back(s) \in ReversalKeys /\ Out(s) # Back(s) /\ Out(s) \in Keyed
  BY <1>1, LegKeys
<1>3. Quiet(s, W) /\ OneSeen(s) /\ op[s].key \notin ReversalKeys /\ Extends(s)
  BY <1>1, NoLegWritten DEF Even, Appends
<1>4. PICK key, ref : key = Out(s) /\ ref = <<op[s].user, op[s].ref>>
  OBVIOUS
<1>5. PICK x \in seen[s] :
        \/ Write(s, Suspense, Post(View(s, Suspense), "PRIMARY", -x.lien.recovered, key, "REVERSAL", ref),
                 "creditUser")
        \/ Rollback(s)
  BY <1>4 DEF ReverseDebitSuspense, Out
<1>6. x.lien.recovered \in Int
  BY SeenFacts
<1>7. PICK d \in Int : d = -x.lien.recovered
  BY <1>6
<1>8. CASE Write(s, Suspense, Post(View(s, Suspense), "PRIMARY", d, key, "REVERSAL", ref), "creditUser")
  <2>1. key \in Keyed /\ ref \in Refs /\ "REVERSAL" \in Reasons
    BY <1>2, <1>4 DEF Refs, Reasons
  <2>2. Effect(s, W, IF "PRIMARY" = "PRIMARY" /\ "REVERSAL" # "MOVE" /\ <<"REVERSAL", ref>> \in W THEN d ELSE 0, key)
    BY <1>1, <1>3, <1>8, <2>1, PostingEffect
  <2> DEFINE m == IF <<"REVERSAL", ref>> \in W THEN d ELSE 0
  <2>3. Effect(s, W, m, key) /\ m \in Int
    BY <2>2
  <2>0. PICK n \in Int : n = m
    BY <2>3
  <2>4. /\ Flow(s, W)' = Flow(s, W) + n
        /\ \A j \in ReversalKeys : Carried(s, j)' <=> Carried(s, j) \/ j = key
    BY <2>0, <2>3 DEF Effect
  <2>5. pc'[s] = "creditUser" /\ op' = op /\ seen' = seen
    BY <1>1, <1>8, WriteView DEF Safe
  <2>6. Out(s)' = key /\ \A j \in ReversalKeys : Carried(s, j)' <=> j = key
    BY <1>3, <1>4, <2>4, <2>5 DEF Out, Quiet
  <2>7. Flow(s, W)' = n
    BY <1>3, <2>4 DEF Quiet
  <2>8. \A y \in seen'[s] : Flow(s, W)' = IF Label(s)' \in W THEN -y.lien.recovered ELSE 0
    <3>1. Label(s)' = <<"REVERSAL", ref>>
      BY <1>4, <2>5 DEF Label
    <3>2. QED BY <1>3, <1>7, <2>0, <2>5, <2>7, <3>1 DEF OneSeen
  <2>9. Halfway(s, W)'
    BY <2>5, <2>6, <2>8 DEF Halfway
  <2>10. QED BY <1>3, <2>5, <2>9 DEF Even, OneSeen
<1>9. QED
  BY <1>5, <1>7, <1>8, EndEven DEF Rollback

LEMMA CheckUserEven ==
    ASSUME NEW W, Safe, PairedKeys, NEW s \in Sessions, Even(s, W), CheckUserLeg(s)
    PROVE  Even(s, W)'
<1> DEFINE next == IF Back(s) \in UsedKeys THEN "close" ELSE "lockUser"
<1>1. pc[s] = "creditUser" /\ Continue(s, next) /\ seen' = seen
  BY DEF CheckUserLeg, Back
<1>2. /\ op' = op /\ pc'[s] = next /\ Out(s)' = Out(s) /\ Back(s)' = Back(s) /\ Flow(s, W)' = Flow(s, W)
      /\ \A k : Carried(s, k)' <=> Carried(s, k)
      /\ \A k : Committed(k)' <=> Committed(k)
  BY <1>1, ContinueEffect DEF Safe
<1>3. /\ op[s].user \in Retailers /\ op[s].ref \in Nat /\ Sessions # {}
      /\ Out(s) \in ReversalKeys /\ Back(s) \in ReversalKeys
  BY <1>1, LegKeys
<1>4. next = "close" <=> Committed(Out(s))
  <2>1. Committed(Out(s)) <=> Committed(Back(s))
    BY <1>3 DEF PairedKeys, Out, Back
  <2>2. Committed(Back(s)) <=> Back(s) \in UsedKeys
    BY <1>3, CommittedIsUsed, OwnKeys
  <2>3. QED BY <2>1, <2>2
<1>5. next \in {"close", "lockUser"}
  OBVIOUS
<1> HIDE DEF next
<1>6. op'[s].key \notin ReversalKeys /\ OneSeen(s)'
  BY <1>1, <1>2 DEF Even, OneSeen
<1>7. CASE Quiet(s, W)
  <2>1. next = "close"
    BY <1>1, <1>4, <1>7 DEF Quiet
  <2>2. Quiet(s, W)'
    BY <1>2, <1>7, <2>1 DEF Quiet
  <2>3. QED BY <1>6, <2>2 DEF Even
<1>8. CASE Halfway(s, W) /\ next = "close"
  <2>1. Doomed(s)'
    BY <1>2, <1>3, <1>4, <1>8 DEF Halfway, Doomed
  <2>2. QED BY <1>6, <2>1 DEF Even
<1>9. CASE Halfway(s, W) /\ next = "lockUser"
  <2>1. Halfway(s, W)'
    BY <1>1, <1>2, <1>9 DEF Halfway, Label
  <2>2. QED BY <1>6, <2>1 DEF Even
<1>10. CASE Doomed(s)
  <2>1. Doomed(s)'
    BY <1>2, <1>10 DEF Doomed
  <2>2. QED BY <1>6, <2>1 DEF Even
<1>11. ~Returned(s, W)
  BY <1>1 DEF Returned
<1>12. QED
  BY <1>5, <1>7, <1>8, <1>9, <1>10, <1>11 DEF Even

LEMMA CreditUserEven ==
    ASSUME NEW W, Safe, NEW s \in Sessions, Appends(s), Even(s, W), ReverseCreditUser(s)
    PROVE  Even(s, W)'
<1>1. pc[s] = "lockUser" /\ "PRIMARY" \in Books
  BY NoOpFacts DEF ReverseCreditUser
<1>2. /\ op[s].user \in Retailers /\ op[s].ref \in Nat
      /\ Out(s) \in ReversalKeys /\ Back(s) \in ReversalKeys /\ Out(s) # Back(s) /\ Back(s) \in Keyed
  BY <1>1, LegKeys
<1>3. /\ op[s].key \notin ReversalKeys /\ OneSeen(s) /\ Extends(s)
      /\ Halfway(s, W) \/ Doomed(s)
  BY <1>1 DEF Even, Appends, Quiet, Returned
<1>4. PICK key, ref, u : key = Back(s) /\ ref = <<op[s].user, op[s].ref>> /\ u = op[s].user
  OBVIOUS
<1>5. PICK next \in {"sweep", "close"} : \E x \in seen[s] :
        Write(s, u, Post(View(s, u), "PRIMARY", x.lien.recovered, key, "REVERSAL", ref), next)
  BY <1>4 DEF ReverseCreditUser, Back
<1>6. PICK x \in seen[s] :
        Write(s, u, Post(View(s, u), "PRIMARY", x.lien.recovered, key, "REVERSAL", ref), next)
  BY <1>5
<1>7. PICK d \in Int : d = x.lien.recovered
  BY SeenFacts
<1>8. u \in Accounts /\ key \in Keyed /\ ref \in Refs /\ "REVERSAL" \in Reasons
  BY <1>2, <1>4 DEF Refs, Reasons, Accounts
<1>9. Write(s, u, Post(View(s, u), "PRIMARY", d, key, "REVERSAL", ref), next)
  BY <1>6, <1>7
<1>10. Effect(s, W, IF "PRIMARY" = "PRIMARY" /\ "REVERSAL" # "MOVE" /\ <<"REVERSAL", ref>> \in W THEN d ELSE 0, key)
  BY <1>1, <1>3, <1>8, <1>9, PostingEffect
<1>11. PICK m \in Int : m = (IF <<"REVERSAL", ref>> \in W THEN d ELSE 0) /\ Effect(s, W, m, key)
  BY <1>10
<1>12. /\ Flow(s, W)' = Flow(s, W) + m /\ row' = row
       /\ \A j \in ReversalKeys : Carried(s, j)' <=> Carried(s, j) \/ j = key
  BY <1>11 DEF Effect
<1>13. pc'[s] = next /\ op' = op
  BY <1>8, <1>9, WriteView DEF Safe
<1>14. CASE Halfway(s, W)
  <2>1. Flow(s, W) = -m
    BY <1>4, <1>7, <1>11, <1>14 DEF Halfway, Label
  <2>2. Flow(s, W)' = 0
    BY <1>11, <1>12, <2>1
  <2>3. Out(s)' = Out(s) /\ Back(s)' = key
    BY <1>4, <1>13 DEF Out, Back
  <2>4. \A j \in ReversalKeys : Carried(s, j)' <=> j \in {Out(s), key}
    BY <1>12, <1>14 DEF Halfway
  <2>5. Returned(s, W)'
    BY <1>13, <2>2, <2>3, <2>4 DEF Returned
  <2>6. QED BY <1>3, <1>13, <2>5 DEF Even, Unlocked
<1>15. CASE Doomed(s)
  <2>1. Doomed(s)'
    BY <1>12, <1>15 DEF Doomed, Committed
  <2>2. QED BY <1>3, <1>13, <2>1 DEF Even, Unlocked
<1>16. QED
  BY <1>3, <1>14, <1>15

(* A commit: the rows become what the session saw. *)
LEMMA CommitKeys ==
    ASSUME Safe, NEW s \in Sessions, Appends(s), Commit(s), NEW k
    PROVE  Committed(k)' <=> Committed(k) \/ Carried(s, k)
<1>1. ASSUME NEW a \in Accounts, NEW b \in Books
      PROVE  (\E i \in 1..Len(row'[a].txns[b]) : row'[a].txns[b][i].key = k)
               <=> \/ \E i \in 1..Len(row[a].txns[b]) : row[a].txns[b][i].key = k
                   \/ Beyond(row[a].txns[b], View(s, a).txns[b], k)
  <2> DEFINE old == row[a].txns[b]
             t == View(s, a).txns[b]
             m == Len(old)
             n == Len(t)
  <2>1. row'[a].txns[b] = t
    BY DEF Commit
  <2>2. m \in Nat /\ n \in Nat
    BY Txns DEF Safe
  <2>3. m <= n /\ \A i \in 1..m : t[i] = old[i]
    <3>1. CASE Mine(s, a)
      BY <3>1 DEF View, Appends, Extends
    <3>2. CASE ~Mine(s, a)
      BY <2>2, <3>2 DEF View
    <3>3. QED BY <3>1, <3>2
  <2>4. Beyond(old, t, k) <=> \E i \in (m + 1)..n : t[i].key = k
    BY DEF Beyond
  <2>5. (\E i \in 1..Len(row'[a].txns[b]) : row'[a].txns[b][i].key = k) <=> \E i \in 1..n : t[i].key = k
    BY <2>1
  <2>6. (\E i \in 1..Len(row[a].txns[b]) : row[a].txns[b][i].key = k) <=> \E i \in 1..m : old[i].key = k
    OBVIOUS
  <2> HIDE DEF old, t, m, n
  <2>7. (\E i \in 1..n : t[i].key = k) <=> (\E i \in 1..m : old[i].key = k) \/ \E i \in (m + 1)..n : t[i].key = k
    <3>1. \A i \in 1..n : i \in 1..m \/ i \in (m + 1)..n
      BY <2>2
    <3>2. \A i \in 1..m : i \in 1..n
      BY <2>2, <2>3
    <3>3. \A i \in (m + 1)..n : i \in 1..n
      BY <2>2
    <3>4. QED BY <2>3, <3>1, <3>2, <3>3
  <2>8. QED BY <2>4, <2>5, <2>6, <2>7 DEF old, t
<1>2. Committed(k)' <=> \E a \in Accounts, b \in Books : \E i \in 1..Len(row'[a].txns[b]) : row'[a].txns[b][i].key = k
  BY DEF Committed
<1>3. QED
  BY <1>1, <1>2 DEF Committed, Carried

LEMMA CommitTotal ==
    ASSUME NEW W, Safe, NEW s \in Sessions, Commit(s), Flow(s, W) = 0, BalancedIn(W)
    PROVE  BalancedIn(W)'
<1> DEFINE f == Held(W)
           g == [a \in Accounts |-> Net(s, a, W)]
           h == [a \in Accounts |-> Transfers(View(s, a).txns["PRIMARY"], W)]
<1>1. f \in [Accounts -> Int] /\ g \in [Accounts -> Int] /\ \A a \in Accounts : h[a] \in Int
  <2>1. \A a \in Accounts : Transfers(View(s, a).txns["PRIMARY"], W) \in Int
    <3> TAKE a \in Accounts
    <3>1. View(s, a).txns["PRIMARY"] \in Seq(Entry)
      BY Txns DEF Safe
    <3>2. PICK e : e \in Entry
      <4> DEFINE x == [delta |-> 0, after |-> 0, key |-> Null, reason |-> "MOVE", ref |-> Null]
      <4>1. x \in Entry
        BY DEF Entry, Keyed, Refs
      <4>2. QED BY <4>1
    <3>3. QED BY <3>1, <3>2, TransferAppend
  <2>2. QED BY <2>1, NetInt DEF Safe
<1>2. \A a \in Accounts : h[a] = f[a] + g[a]
  <2> TAKE a \in Accounts
  <2>1. g[a] = h[a] - f[a]
    BY DEF Net, Held
  <2>2. f[a] \in Int /\ h[a] \in Int
    BY <1>1
  <2> HIDE DEF f, g, h
  <2>3. QED BY <2>1, <2>2
<1>3. h \in [Accounts -> Int]
  BY <1>1
<1>4. Held(W)' = h
  BY DEF Commit, Held
<1>5. Flow(s, W) = SetTotal(g)
  BY DEF Flow
<1>6. SetTotal(f) = 0
  BY DEF BalancedIn
<1>7. BalancedIn(W)' <=> SetTotal(h) = 0
  BY <1>4 DEF BalancedIn
<1> HIDE DEF f, g, h
<1>8. SetTotal(h) = SetTotal(f) + SetTotal(g)
  BY <1>1, <1>2, <1>3, AccountsFinite, SetTotalAdd
<1>9. QED
  BY <1>5, <1>6, <1>7, <1>8

(* Only a session whose two legs are both or neither there commits. *)
LEMMA CommitBalanced ==
    ASSUME NEW W, Safe, NEW s \in Sessions, Commit(s), Even(s, W)
    PROVE  Quiet(s, W) \/ Returned(s, W)
<1>1. ~Halfway(s, W)
  BY DEF Commit, Halfway
<1>2. ~Doomed(s)
  <2>1. SUFFICES ASSUME NEW k \in ReversalKeys, Carried(s, k), Committed(k) PROVE FALSE
    BY DEF Doomed
  <2>2. k # Null
    BY OwnKeys
  <2>3. k \in NewKeys(s) /\ k \in UsedKeys
    BY <2>1, <2>2, WrittenIsNew, CommittedIsUsed
  <2>4. QED BY <2>3 DEF Commit, Accepted
<1>3. QED
  BY <1>1, <1>2 DEF Even

LEMMA CommitPairs ==
    ASSUME NEW W, Safe, NEW s \in Sessions, Appends(s), Commit(s), Even(s, W), PairedKeys
    PROVE  PairedKeys'
<1> SUFFICES ASSUME NEW u \in Retailers, NEW i \in Nat
             PROVE  Committed(SuspenseKey(u, i))' <=> Committed(UserKey(u, i))'
  BY DEF PairedKeys
<1> DEFINE out == SuspenseKey(u, i)
           back == UserKey(u, i)
<1>1. out \in ReversalKeys /\ back \in ReversalKeys
  BY DEF SuspenseKey, UserKey, ReversalKeys
<1>2. /\ out = Out(s) <=> back = Back(s)
      /\ out # Back(s) /\ back # Out(s)
  BY DEF SuspenseKey, UserKey, Out, Back
<1>3. Committed(out) <=> Committed(back)
  BY DEF PairedKeys
<1>4. Committed(SuspenseKey(u, i))' <=> Committed(out) \/ Carried(s, out)
  BY CommitKeys
<1>5. Committed(UserKey(u, i))' <=> Committed(back) \/ Carried(s, back)
  BY CommitKeys
<1>6. Carried(s, out) <=> Carried(s, back)
  <2> HIDE DEF out, back
  <2>1. CASE Quiet(s, W)
    BY <1>1, <2>1 DEF Quiet
  <2>2. CASE Returned(s, W)
    BY <1>1, <1>2, <2>2 DEF Returned
  <2>3. QED BY <2>1, <2>2, CommitBalanced
<1>7. QED
  BY <1>3, <1>4, <1>5, <1>6

(* The sessions that do not move. *)
IntTransfers == \A W \in SUBSET Labels : TypeOK => \A a \in Accounts : Transfers(row[a].txns["PRIMARY"], W) \in Int

LEMMA IntTransfersFacts == IntTransfers
<1>1. ASSUME NEW W \in SUBSET Labels, TypeOK, NEW a \in Accounts PROVE Transfers(row[a].txns["PRIMARY"], W) \in Int
  <2>1. row[a].txns["PRIMARY"] \in Seq(Entry)
    <3>1. row[a] \in Row
      BY <1>1 DEF TypeOK
    <3>2. QED BY <3>1, RowFields
  <2>2. PICK e : e \in Entry
    <3> DEFINE x == [delta |-> 0, after |-> 0, key |-> Null, reason |-> "MOVE", ref |-> Null]
    <3>1. x \in Entry
      BY DEF Entry, Keyed, Refs
    <3>2. QED BY <3>1
  <2>3. QED BY <2>1, <2>2, TransferAppend
<1>2. QED
  BY <1>1 DEF IntTransfers

LEMMA IntTransfersNext == IntTransfers'
BY IntTransfersFacts, PTL

LEMMA OtherEven ==
    ASSUME NEW W \in SUBSET Labels, Safe, Safe', NEW t \in Sessions, Apart(t), Even(t, W), \A k : Committed(k) => Committed(k)'
    PROVE  Even(t, W)'
<1>1. /\ pc'[t] = pc[t] /\ op'[t] = op[t] /\ seen'[t] = seen[t] /\ work'[t] = work[t]
      /\ \A a \in Accounts : /\ Mine(t, a)' <=> Mine(t, a)
                             /\ Mine(t, a) => row'[a] = row[a]
  BY DEF Apart, Mine
<1>2. ASSUME NEW a \in Accounts, Mine(t, a)
      PROVE  row'[a] = row[a] /\ View(t, a)' = View(t, a)
  BY <1>1, <1>2 DEF View
<1>3. ASSUME NEW a \in Accounts, ~Mine(t, a)
      PROVE  View(t, a) = row[a] /\ View(t, a)' = row'[a]
  BY <1>1, <1>3 DEF View
<1>4. \A a \in Accounts : Net(t, a, W)' = Net(t, a, W)
  <2> TAKE a \in Accounts
  <2>1. CASE Mine(t, a)
    BY <1>2, <2>1 DEF Net
  <2>2. CASE ~Mine(t, a)
    <3>1. \A x \in Int : x - x = 0
      OBVIOUS
    <3>2. Transfers(row[a].txns["PRIMARY"], W) \in Int
      BY IntTransfersFacts DEF IntTransfers, Safe
    <3>3. Transfers(row'[a].txns["PRIMARY"], W) \in Int
      BY IntTransfersNext DEF IntTransfers, Safe
    <3>4. Net(t, a, W) = 0
      BY <1>3, <2>2, <3>1, <3>2 DEF Net
    <3>5. Net(t, a, W)' = 0
      BY <1>3, <2>2, <3>1, <3>3 DEF Net
    <3>6. QED BY <3>4, <3>5
  <2>3. QED BY <2>1, <2>2
<1>5. Flow(t, W)' = Flow(t, W)
  BY <1>4 DEF Flow
<1>6. ASSUME NEW k PROVE Carried(t, k)' <=> Carried(t, k)
  <2>1. ASSUME NEW a \in Accounts, NEW b \in Books
        PROVE  Beyond(row[a].txns[b], View(t, a).txns[b], k)' <=> Beyond(row[a].txns[b], View(t, a).txns[b], k)
    <3>1. CASE Mine(t, a)
      BY <1>2, <3>1 DEF Beyond
    <3>2. CASE ~Mine(t, a)
      <4>1. \A n \in Nat : (n + 1)..n = {}
        OBVIOUS
      <4>2. Len(row[a].txns[b]) \in Nat
        BY Txns DEF Safe
      <4>3. ~Beyond(row[a].txns[b], View(t, a).txns[b], k)
        BY <1>3, <3>2, <4>1, <4>2 DEF Beyond
      <4>4. Len(row'[a].txns[b]) \in Nat
        <5>1. row'[a] \in Row
          BY DEF Safe, TypeOK
        <5>2. row'[a].txns[b] \in Seq(Entry)
          BY <5>1, RowFields
        <5>3. \A q \in Seq(Entry) : Len(q) \in Nat
          OBVIOUS
        <5>4. QED BY <5>2, <5>3
      <4>5. ~Beyond(row[a].txns[b], View(t, a).txns[b], k)'
        BY <1>3, <3>2, <4>1, <4>4 DEF Beyond
      <4>6. QED BY <4>3, <4>5
    <3>3. QED BY <3>1, <3>2
  <2>2. QED BY <2>1 DEF Carried
<1>7. Out(t)' = Out(t) /\ Back(t)' = Back(t)
  BY <1>1 DEF Out, Back
<1>8. op'[t].key \notin ReversalKeys
      /\ (pc'[t] \in Unlocked \cup SuspenseLeg \cup UserLeg => OneSeen(t)')
  BY <1>1 DEF Even, OneSeen
<1>9. CASE Quiet(t, W)
  <2>1. Quiet(t, W)'
    BY <1>1, <1>5, <1>6, <1>7, <1>9 DEF Quiet
  <2>2. QED BY <1>8, <2>1 DEF Even
<1>10. CASE Halfway(t, W)
  <2>1. Label(t)' = Label(t)
    BY <1>1 DEF Label
  <2>2. Halfway(t, W)'
    BY <1>1, <1>5, <1>6, <1>7, <1>10, <2>1 DEF Halfway
  <2>3. QED BY <1>8, <2>2 DEF Even
<1>11. CASE Returned(t, W)
  <2>1. Returned(t, W)'
    BY <1>1, <1>5, <1>6, <1>7, <1>11 DEF Returned
  <2>2. QED BY <1>8, <2>1 DEF Even
<1>12. CASE Doomed(t)
  <2>1. Doomed(t)'
    BY <1>6, <1>12 DEF Doomed
  <2>2. QED BY <1>8, <2>1 DEF Even
<1>13. QED
  BY <1>9, <1>10, <1>11, <1>12 DEF Even

LEMMA StepEven ==
    ASSUME NEW W \in SUBSET Labels, Safe, Safe', PairedKeys, NEW s \in Sessions, Appends(s), Even(s, W), Step(s)
    PROVE  Even(s, W)'
<1>1. CASE Arrive(s)
  BY <1>1, ArriveEven
<1>2. CASE Die(s) \/ Reject(s) \/ Commit(s)
  BY <1>2, EndEven DEF Die, Reject, Commit, Rollback
<1>3. CASE CheckKey(s) \/ ReadLien(s)
  BY <1>3, ReadEven
<1>4. CASE CreditWallet(s) \/ DebitWallet(s) \/ CaptureHold(s)
  BY <1>4, MoveEven
<1>5. CASE \/ HoldFunds(s) \/ ReleaseHold(s)
           \/ PlaceWalletLien(s) \/ ReleaseWalletLien(s) \/ ReverseFrozen(s)
  BY <1>5, FirstEven
<1>6. CASE ReadLiens(s) \/ LockForSweep(s) \/ TakeFromLien(s) \/ SweepDone(s) \/ ReverseClose(s)
  BY <1>6, SweepEven, LockEven, TakeEven, CloseEven
<1>7. CASE \/ CheckSuspenseLeg(s) \/ ReverseDebitSuspense(s)
           \/ CheckUserLeg(s) \/ ReverseCreditUser(s)
  BY <1>7, CheckSuspenseEven, DebitSuspenseEven, CheckUserEven, CreditUserEven
<1>8. QED
  BY <1>1, <1>2, <1>3, <1>4, <1>5, <1>6, <1>7 DEF Step, SessionStep

LEMMA NextBalance == Safe /\ Safe' /\ KeysInv /\ BalanceInv /\ [Next]_vars => BalanceInv'
<1> SUFFICES ASSUME Safe, Safe', KeysInv, BalanceInv, [Next]_vars PROVE BalanceInv'
  OBVIOUS
<1>1. ASSUME NEW s \in Sessions, Step(s) PROVE BalanceInv'
  <2>1. Appends(s) /\ PairedKeys /\ \A W \in SUBSET Labels : BalancedIn(W) /\ \A t \in Sessions : Even(t, W)
    BY DEF KeysInv, BalanceInv
  <2>2. PairedKeys' /\ \A k : Committed(k) => Committed(k)'
    <3>1. CASE Commit(s)
      <4>1. {} \in SUBSET Labels
        OBVIOUS
      <4>2. QED BY <2>1, <3>1, <4>1, CommitPairs, CommitKeys
    <3>2. CASE row' = row
      BY <2>1, <3>2 DEF PairedKeys, Committed
    <3>3. QED BY <1>1, <3>1, <3>2, RowChanges
  <2>3. ASSUME NEW W \in SUBSET Labels PROVE BalancedIn(W)'
    <3>1. CASE Commit(s)
      <4>1. Flow(s, W) = 0
        BY <2>1, <3>1, CommitBalanced DEF Quiet, Returned
      <4>2. QED BY <2>1, <3>1, <4>1, CommitTotal
    <3>2. CASE row' = row
      BY <2>1, <3>2 DEF BalancedIn, Held
    <3>3. QED BY <1>1, <3>1, <3>2, RowChanges
  <2>4. ASSUME NEW W \in SUBSET Labels, NEW t \in Sessions PROVE Even(t, W)'
    <3>1. CASE t = s
      BY <1>1, <2>1, <3>1, StepEven
    <3>2. CASE t # s
      <4>1. Apart(t)
        BY <1>1, <3>2, Frame
      <4>2. QED BY <2>1, <2>2, <4>1, OtherEven
    <3>3. QED BY <3>1, <3>2
  <2>5. QED BY <2>2, <2>3, <2>4 DEF BalanceInv
<1>2. CASE UNCHANGED vars
  <2>1. PairedKeys /\ \A W \in SUBSET Labels : BalancedIn(W) /\ \A t \in Sessions : Even(t, W)
    BY DEF BalanceInv
  <2>2. \A t \in Sessions : Apart(t)
    BY <1>2 DEF vars, Apart
  <2>3. row' = row
    BY <1>2 DEF vars
  <2>4. PairedKeys' /\ \A k : Committed(k) => Committed(k)'
    BY <2>1, <2>3 DEF PairedKeys, Committed
  <2>5. ASSUME NEW W \in SUBSET Labels PROVE BalancedIn(W)' /\ \A t \in Sessions : Even(t, W)'
    <3>1. BalancedIn(W)'
      BY <2>1, <2>3 DEF BalancedIn, Held
    <3>2. \A t \in Sessions : Even(t, W)'
      BY <2>1, <2>2, <2>4, OtherEven
    <3>3. QED BY <3>1, <3>2
  <2>6. QED BY <2>4, <2>5 DEF BalanceInv
<1>3. QED
  BY <1>1, <1>2 DEF Next, Step

LEMMA InitBalance == Init => BalanceInv
<1> SUFFICES ASSUME Init PROVE BalanceInv
  OBVIOUS
<1>1. Safe
  BY InitSafe
<1>2. \A a \in Accounts, b \in Books : row[a].txns[b] = <<>>
  BY DEF Init, EmptyRow
<1>3. ASSUME NEW W \in SUBSET Labels PROVE BalancedIn(W)
  <2> DEFINE f == Held(W)
  <2>1. \A a \in Accounts : f[a] = 0
    BY <1>2, TransferEmpty DEF Held
  <2>2. f \in [Accounts -> Int]
    BY <2>1 DEF Held
  <2> HIDE DEF f
  <2>3. SetTotal(f) = 0
    BY <2>1, <2>2, AccountsFinite, SetTotalZero
  <2>4. QED BY <2>3 DEF BalancedIn, f
<1>4. \A k : ~Committed(k)
  <2>1. \A a \in Accounts, b \in Books : Len(row[a].txns[b]) = 0
    BY <1>2
  <2>2. QED BY <2>1 DEF Committed
<1>5. PairedKeys
  BY <1>4 DEF PairedKeys
<1>6. ASSUME NEW W \in SUBSET Labels, NEW s \in Sessions PROVE Even(s, W)
  <2>1. pc[s] = "idle" /\ op[s] = NoOp /\ seen[s] = {} /\ \A a \in Accounts : ~Mine(s, a)
    BY <1>1 DEF Init, Mine
  <2>2. Untouched(s)
    BY <1>1, <2>1 DEF Untouched, View, Safe
  <2>3. Flow(s, W) = 0 /\ \A k : ~Carried(s, k)
    BY <2>2, UntouchedFacts DEF UntouchedIsEmpty
  <2>4. Quiet(s, W) /\ OneSeen(s)
    BY <2>1, <2>3 DEF Quiet, OneSeen
  <2>5. op[s].key \notin ReversalKeys
    BY <2>1, ReversalKeysAreOwn DEF NoOp
  <2>6. QED BY <2>4, <2>5 DEF Even
<1>7. QED
  BY <1>3, <1>5, <1>6 DEF BalanceInv

(* What one lien has moved, seen through its label. *)
LEMMA MovedIsLabelled ==
    ASSUME NEW a \in Accounts, NEW u \in Retailers, NEW i \in Nat, NEW reason \in {"LIEN", "REVERSAL"},
           NEW W, W = {<<reason, <<u, i>>>>}
    PROVE  W \in SUBSET Labels /\ Moved(a, reason, <<u, i>>) = Held(W)[a]
<1> DEFINE t == row[a].txns["PRIMARY"]
           ref == <<u, i>>
<1>1. W \in SUBSET Labels
  BY DEF Labels, Refs
<1>2. \A e : Transfer(e, W) = IF e.reason = reason THEN IF e.ref = ref THEN e.delta ELSE 0 ELSE 0
  <2> TAKE e
  <2>1. e.reason = reason => e.reason # "MOVE"
    OBVIOUS
  <2>2. <<e.reason, e.ref>> \in W <=> e.reason = reason /\ e.ref = ref
    OBVIOUS
  <2>3. QED BY <2>1, <2>2 DEF Transfer
<1> HIDE DEF ref
<1>3. [j \in 1..Len(t) |-> IF t[j].reason = reason THEN IF t[j].ref = ref THEN t[j].delta ELSE 0 ELSE 0]
        = [j \in 1..Len(t) |-> Transfer(t[j], W)]
  BY <1>2
<1>4. Moved(a, reason, ref) = Transfers(t, W)
  BY <1>3 DEF Moved, Transfers
<1>5. QED
  BY <1>1, <1>4 DEF Held, ref

LEMMA EachLienBalanced == BalanceInv => EachLienBalances
<1> SUFFICES ASSUME BalanceInv, NEW u \in Retailers, NEW i \in 1..MaxLiens, NEW reason \in {"LIEN", "REVERSAL"}
             PROVE  SetTotal([a \in Accounts |-> Moved(a, reason, <<u, i>>)]) = 0
  BY DEF EachLienBalances
<1>1. PICK W : W = {<<reason, <<u, i>>>>}
  OBVIOUS
<1>2. i \in Nat
  OBVIOUS
<1>3. W \in SUBSET Labels
  BY <1>1, <1>2 DEF Labels, Refs
<1>4. \A a \in Accounts : Moved(a, reason, <<u, i>>) = Held(W)[a]
  BY <1>1, <1>2, MovedIsLabelled
<1>5. [a \in Accounts |-> Moved(a, reason, <<u, i>>)] = Held(W)
  BY <1>4 DEF Held
<1>6. SetTotal(Held(W)) = 0
  BY <1>3 DEF BalanceInv, BalancedIn
<1>7. QED
  BY <1>5, <1>6

(* A continuous passbook ends at what was requested and what was moved. *)
LEMMA BalanceParts ==
    ASSUME NEW t \in Seq(Entry), NEW bal, Continuous(t, bal)
    PROVE  /\ Requested(t) \in Int /\ Transfers(t, Labels) \in Int
           /\ bal = Requested(t) + Transfers(t, Labels)
<1> DEFINE n == Len(t)
           f == [i \in 1..n |-> IF t[i].reason = "MOVE" THEN t[i].delta ELSE 0]
           g == [i \in 1..n |-> Transfer(t[i], Labels)]
           Ends(j) == IF j = 0 THEN 0 ELSE t[j].after
           S == {j \in 0..n : Ends(j) = TotalOver(f, j) + TotalOver(g, j)}
<1>1. n \in Nat /\ \A i \in 1..n : t[i] \in Entry
  OBVIOUS
<1>2. ASSUME NEW i \in 1..n PROVE f[i] \in Int /\ g[i] \in Int /\ t[i].delta = f[i] + g[i]
  <2>1. t[i] \in Entry /\ t[i].delta \in Int
    BY <1>1, EntryFields
  <2>2. t[i].reason # "MOVE" => <<t[i].reason, t[i].ref>> \in Labels
    BY <2>1 DEF Entry, Labels
  <2>3. f[i] = (IF t[i].reason = "MOVE" THEN t[i].delta ELSE 0)
        /\ g[i] = (IF t[i].reason = "MOVE" THEN 0 ELSE t[i].delta)
    BY <2>2 DEF Transfer
  <2> HIDE DEF f, g
  <2>4. QED BY <2>1, <2>3
<1>3. /\ \A i \in 1..n : t[i].after = Ends(i - 1) + t[i].delta
      /\ bal = Ends(n)
  <2>1. \A i \in 1..n : i - 1 = 0 <=> i = 1
    OBVIOUS
  <2>2. QED BY <2>1 DEF Continuous
<1>4. Requested(t) = TotalOver(f, n) /\ Transfers(t, Labels) = TotalOver(g, n)
  BY DEF Requested, Transfers
<1> HIDE DEF n, f, g
<1>5. \A j \in 0..n : TotalOver(f, j) \in Int /\ TotalOver(g, j) \in Int
  BY <1>1, <1>2, TotalInt
<1>6. S \in SUBSET (0..n) /\ 0 \in S
  BY <1>1, TotalStep
<1>7. ASSUME NEW j \in S, j < n PROVE j + 1 \in S
  <2>1. j \in 0..n /\ j \in Nat /\ j + 1 \in 1..n /\ j + 1 \in 0..n /\ (j + 1) - 1 = j /\ j + 1 # 0
    BY <1>1, <1>7
  <2>2. /\ TotalOver(f, j + 1) = TotalOver(f, j) + f[j + 1]
        /\ TotalOver(g, j + 1) = TotalOver(g, j) + g[j + 1]
    BY <2>1, TotalStep
  <2>3. t[j + 1].after = Ends(j) + t[j + 1].delta
    BY <1>3, <2>1
  <2>4. Ends(j + 1) = Ends(j) + t[j + 1].delta
    BY <2>1, <2>3
  <2>5. Ends(j) = TotalOver(f, j) + TotalOver(g, j)
    BY <1>7
  <2>6. f[j + 1] \in Int /\ g[j + 1] \in Int /\ t[j + 1].delta = f[j + 1] + g[j + 1]
    BY <1>2, <2>1
  <2>7. TotalOver(f, j) \in Int /\ TotalOver(g, j) \in Int
    BY <1>5, <2>1
  <2> HIDE DEF Ends
  <2>8. Ends(j + 1) = TotalOver(f, j + 1) + TotalOver(g, j + 1)
    BY <2>2, <2>4, <2>5, <2>6, <2>7
  <2>9. QED BY <2>1, <2>8
<1>8. S = 0..n
  <2> HIDE DEF S
  <2>1. QED BY <1>1, <1>6, <1>7, InductTo
<1>9. n \in S /\ n \in 0..n
  BY <1>1, <1>8
<1>10. QED
  BY <1>3, <1>4, <1>5, <1>9

LEMMA BalancesConserved == ASSUME Safe, BalanceInv PROVE MoneyConserved
<1> DEFINE f == [a \in Accounts |-> Requested(row[a].txns["PRIMARY"])]
           g == Held(Labels)
           h == [a \in Accounts |-> row[a].bal["PRIMARY"]]
<1>1. ASSUME NEW a \in Accounts PROVE f[a] \in Int /\ g[a] \in Int /\ h[a] = f[a] + g[a]
  <2>1. row[a] \in Row /\ Continuous(row[a].txns["PRIMARY"], row[a].bal["PRIMARY"])
    BY PrimaryIsABook DEF Safe, TypeOK, RowsGood, Good
  <2>2. row[a].txns["PRIMARY"] \in Seq(Entry)
    BY <2>1, RowFields
  <2>3. QED BY <2>1, <2>2, BalanceParts DEF Held
<1>2. f \in [Accounts -> Int] /\ g \in [Accounts -> Int]
  BY <1>1 DEF Held
<1>3. \A a \in Accounts : h[a] \in Int
  <2> HIDE DEF f, g, h
  <2>1. QED BY <1>1
<1>4. h \in [Accounts -> Int]
  BY <1>3
<1>5. SetTotal(g) = 0
  BY DEF BalanceInv, BalancedIn
<1>6. MoneyConserved <=> SetTotal(h) = SetTotal(f)
  BY DEF MoneyConserved
<1> HIDE DEF f, g, h
<1>7. SetTotal(f) \in Int /\ SetTotal(h) = SetTotal(f) + SetTotal(g)
  BY <1>1, <1>2, <1>4, AccountsFinite, SetTotalAdd
<1>8. QED
  BY <1>5, <1>6, <1>7

(* Each lien's recoveries, and each lien's reversal, add up to nothing     *)
(* over all passbooks, with every desk operation racing: the legs of a     *)
(* reversal are committed both or neither, and what the suspense account   *)
(* gives back is what one of them takes.                                   *)
THEOREM EachLienAddsUp == Spec => []EachLienBalances
<1>1. Init => KeysInv /\ BalanceInv
  BY InitKeys, InitBalance
<1>2. QED
  BY <1>1, NextKeys, NextBalance, EachLienBalanced, Safety, PTL DEF Spec

(* Liens create no money and lose none: the balances of the users and of   *)
(* the suspense account add up to what callers paid in and took out.       *)
THEOREM MoneyIsConserved == Spec => []MoneyConserved
<1>1. Init => KeysInv /\ BalanceInv
  BY InitKeys, InitBalance
<1>2. Safe /\ BalanceInv => MoneyConserved
  BY BalancesConserved
<1>3. QED
  BY <1>1, <1>2, NextKeys, NextBalance, Safety, PTL DEF Spec
=============================================================================
