------------------------- MODULE LedgerAtomicProofs -------------------------
(***************************************************************************)
(* Proofs that Ledger implements AtomicLedger when the desk only places    *)
(* liens, and what follows for liens, recoveries and frozen money.         *)
(*                                                                         *)
(* TableOK says what a committed table is like: the freeze of a user is    *)
(* what the open liens claim, and every recovery is in both passbooks and  *)
(* on the lien row.  Path(s) says where session s is: until its commit it  *)
(* holds the row its request asks for, and while it sweeps its copies are  *)
(* what the atomic sweep has reached after some number of liens.  The      *)
(* steps of others cannot move it from there (Frame), its own steps take   *)
(* it one round on, and a commit publishes the whole atomic step.          *)
(*                                                                         *)
(* Sums and sweeps are recursive functions; the facts about them are       *)
(* proved by induction over sets of numbers (LedgerBooksProofs, Induct).   *)
(***************************************************************************)
EXTENDS LedgerBooksProofs

USE PrimaryIsABook, SuspenseIsNoRetailer, NoneIsNoSession

-----------------------------------------------------------------------------
(* The atomic ledger's operators on rows are the concurrent one's. *)
LEMMA SameOperators ==
    /\ \A r, b, delta, key, reason, ref : Atomic!Post(r, b, delta, key, reason, ref) = Post(r, b, delta, key, reason, ref)
    /\ \A r, amt : /\ Atomic!Hold(r, amt) = Hold(r, amt) /\ Atomic!Unhold(r, amt) = Unhold(r, amt)
                   /\ Atomic!PlaceLien(r, amt) = PlaceLien(r, amt)
    /\ \A r, amt, key : Atomic!Capture(r, amt, key) = Capture(r, amt, key)
    /\ \A r : Atomic!Spendable(r) = Spendable(r) /\ Atomic!Available(r) = Available(r)
    /\ \A r, b, amt : Atomic!CanDebit(r, b, amt) <=> CanDebit(r, b, amt)
    /\ \A r, l : Atomic!TakeAmount(r, l) = TakeAmount(r, l)
    /\ \A r, u, i, l : Atomic!TakeFromUser(r, u, i, l) = TakeFromUser(r, u, i, l)
    /\ \A r, s, u, i : Atomic!TakeToSuspense(r, s, u, i) = TakeToSuspense(r, s, u, i)
    /\ Atomic!EmptyRow = EmptyRow
    /\ Atomic!UsedKeys = UsedKeys
    /\ Atomic!Accounts = Accounts
<1>1. \A r, b, delta, key, reason, ref : Atomic!Post(r, b, delta, key, reason, ref) = Post(r, b, delta, key, reason, ref)
  BY DEF Atomic!Post, Post, Atomic!Booked, Booked
<1>2. \A r, amt : /\ Atomic!Hold(r, amt) = Hold(r, amt) /\ Atomic!Unhold(r, amt) = Unhold(r, amt)
                   /\ Atomic!PlaceLien(r, amt) = PlaceLien(r, amt)
  BY DEF Atomic!Hold, Hold, Atomic!Unhold, Unhold, Atomic!PlaceLien, PlaceLien, Atomic!SetFrozen, SetFrozen,
         Atomic!AddLien, AddLien
<1>3. \A r, amt, key : Atomic!Capture(r, amt, key) = Capture(r, amt, key)
  BY <1>1, <1>2 DEF Atomic!Capture, Capture
<1>4. \A r : Atomic!Spendable(r) = Spendable(r) /\ Atomic!Available(r) = Available(r)
  BY DEF Atomic!Spendable, Spendable, Atomic!Available, Available, Atomic!Floor0, Floor0
<1>5. \A r, b, amt : Atomic!CanDebit(r, b, amt) <=> CanDebit(r, b, amt)
  BY <1>4 DEF Atomic!CanDebit, CanDebit
<1>6. \A r, l : Atomic!TakeAmount(r, l) = TakeAmount(r, l)
  BY <1>4 DEF Atomic!TakeAmount, TakeAmount, Atomic!Smaller, Smaller, Atomic!Outstanding, Outstanding
<1>7. \A r, u, i, l : Atomic!TakeFromUser(r, u, i, l) = TakeFromUser(r, u, i, l)
  <2>1. \A r, v : Atomic!SetFrozen(r, v) = SetFrozen(r, v)
    BY DEF Atomic!SetFrozen, SetFrozen
  <2>2. \A r, i, l : Atomic!SetLien(r, i, l) = SetLien(r, i, l)
    BY DEF Atomic!SetLien, SetLien
  <2>3. QED BY <1>1, <1>6, <2>1, <2>2 DEF Atomic!TakeFromUser, TakeFromUser
<1>8. \A r, s, u, i : Atomic!TakeToSuspense(r, s, u, i) = TakeToSuspense(r, s, u, i)
  BY <1>1 DEF Atomic!TakeToSuspense, TakeToSuspense
<1>9. Atomic!EmptyRow = EmptyRow /\ Atomic!Accounts = Accounts
  BY DEF Atomic!EmptyRow, EmptyRow, Atomic!Accounts, Accounts
<1>10. Atomic!UsedKeys = UsedKeys
  <2>1. \A r : Atomic!Keys(r) = Keys(r)
    BY DEF Atomic!Keys, Keys, Atomic!KeysFrom, KeysFrom
  <2>2. QED BY <1>9, <2>1 DEF Atomic!UsedKeys, UsedKeys
<1>11. QED
  BY <1>1, <1>2, <1>3, <1>4, <1>5, <1>6, <1>7, <1>8, <1>9, <1>10
-----------------------------------------------------------------------------
(* What one round of the sweep does to the user's row and to the company's. *)

Lien0(l, s) == [status |-> IF l.recovered + s >= l.amount THEN "RECOVERED" ELSE l.status,
                amount |-> l.amount, recovered |-> l.recovered + s]

(* Round i of the sweep takes s from row r of u and leaves row q. *)
Took(r, u, i, s, q) ==
    /\ s \in Nat /\ s > 0 /\ s <= Outstanding(r.liens[i]) /\ s <= Available(r)
    /\ s = Outstanding(r.liens[i]) \/ s = Available(r)
    /\ q \in Row /\ Good(q) /\ q.held = r.held /\ q.lien = r.lien - s
    /\ q.bal = [r.bal EXCEPT !["PRIMARY"] = r.bal["PRIMARY"] - s]
    /\ q.txns = [r.txns EXCEPT !["PRIMARY"] =
                   Append(r.txns["PRIMARY"], TxnOf(r, "PRIMARY", -s, Null, "LIEN", <<u, i>>))]
    /\ q.liens = [r.liens EXCEPT ![i] = Lien0(r.liens[i], s)] /\ Lien0(r.liens[i], s) \in Lien

LEMMA TakeRow ==
    ASSUME NEW r \in Row, NEW u \in Retailers, NEW i \in 1..Len(r.liens), Good(r),
           NEW l, l = r.liens[i], Outstanding(l) > 0, Available(r) > 0,
           NEW s, s = TakeAmount(r, l), NEW q, q = TakeFromUser(r, u, i, l)
    PROVE  Took(r, u, i, s, q)
<1> DEFINE delta == -s
           left == r.lien - s
           ref == <<u, i>>
           posted == Post(r, "PRIMARY", delta, Null, "LIEN", ref)
           thawed == SetFrozen(posted, left)
<1>1. l \in Lien /\ i \in Nat
  BY LienAt
<1>2. l.amount \in Nat /\ l.recovered \in Nat /\ Available(r) \in Int /\ l.status \in {"ACTIVE", "RECOVERED", "RELEASED"}
  BY <1>1, RowFields, LienFields DEF Available
<1>3. /\ s \in Nat /\ s > 0 /\ s <= Outstanding(l) /\ s <= Available(r)
      /\ s = Outstanding(l) \/ s = Available(r)
  BY <1>2 DEF TakeAmount, Smaller, Outstanding
<1>4. Lien0(l, s) \in Lien
  BY <1>2, <1>3 DEF Lien0, Lien
<1>5. q = SetLien(thawed, i, Lien0(l, s))
  BY DEF TakeFromUser, Lien0
<1>6. ref \in Refs /\ Null \in Keyed /\ "LIEN" \in Reasons /\ delta \in Int /\ left \in Int
  BY <1>1, <1>3, RowFields DEF Refs, Keyed, Reasons
<1>7. r.bal["PRIMARY"] + delta = r.bal["PRIMARY"] - s /\ left = r.lien - s /\ delta = -s
  BY <1>3, RowFields
<1>8. 0 <= r.bal["PRIMARY"] + delta /\ r.held <= r.bal["PRIMARY"] + delta
  BY <1>3, RowFields DEF Available, Good, Solvent
<1> HIDE DEF delta, left, ref
<1>9. posted \in Row /\ posted.held = r.held /\ posted.liens = r.liens /\ posted.lien = r.lien
  BY <1>6, PostRow
<1>10. posted.bal = [r.bal EXCEPT !["PRIMARY"] = r.bal["PRIMARY"] + delta]
  BY <1>6, PostBal
<1>11. posted.txns = [r.txns EXCEPT !["PRIMARY"] =
                        Append(r.txns["PRIMARY"], TxnOf(r, "PRIMARY", delta, Null, "LIEN", ref))]
  BY <1>6, PostTxns
<1>12. Good(posted)
  BY <1>6, <1>8, PostGood
<1> HIDE DEF posted
<1>13. /\ thawed \in Row /\ thawed.held = posted.held /\ thawed.bal = posted.bal /\ thawed.lien = left
       /\ thawed.txns = posted.txns /\ thawed.liens = posted.liens
  <2>1. posted \in Row /\ left \in Int /\ thawed = SetFrozen(posted, left)
    BY <1>6, <1>9
  <2> HIDE DEF thawed
  <2>2. QED BY <2>1 DEF Row, SetFrozen
<1> HIDE DEF thawed
<1> DEFINE done == Lien0(l, s)
<1>14. q = SetLien(thawed, i, done) /\ done \in Lien
  BY <1>4, <1>5
<1> HIDE DEF done
<1>15. /\ q \in Row /\ q.held = thawed.held /\ q.bal = thawed.bal /\ q.txns = thawed.txns
       /\ q.lien = thawed.lien
  <2>1. thawed \in Row /\ i \in Nat /\ (i \in 1..Len(thawed.liens) => done \in Lien)
    BY <1>1, <1>13, <1>14
  <2>2. QED BY <1>14, <2>1, SetLienFacts
<1>16. q.liens = [thawed.liens EXCEPT ![i] = done]
  <2> DEFINE ls == [thawed.liens EXCEPT ![i] = done]
  <2>1. q = [thawed EXCEPT !.liens = ls]
    BY <1>14 DEF SetLien
  <2>2. ls \in Liens
    <3>1. thawed.liens \in Seq(Lien) /\ i \in 1..Len(thawed.liens)
      BY <1>9, <1>13, RowFields DEF Liens
    <3>2. QED BY <1>14, <3>1, ExceptSeq DEF Liens
  <2> HIDE DEF ls
  <2>3. q.liens = ls
    BY <1>13, <2>1, <2>2, WriteLiens
  <2>4. QED BY <2>3 DEF ls
<1>17. Good(q)
  BY <1>12, <1>13, <1>15, GoodOf
<1>18. q.bal = [r.bal EXCEPT !["PRIMARY"] = r.bal["PRIMARY"] - s]
  BY <1>7, <1>10, <1>13, <1>15
<1>19. q.txns = [r.txns EXCEPT !["PRIMARY"] =
                          Append(r.txns["PRIMARY"], TxnOf(r, "PRIMARY", -s, Null, "LIEN", <<u, i>>))]
  BY <1>7, <1>11, <1>13, <1>15 DEF ref
<1>20. q.liens = [r.liens EXCEPT ![i] = Lien0(l, s)] /\ q.held = r.held /\ q.lien = r.lien - s
  BY <1>7, <1>9, <1>13, <1>15, <1>16 DEF done
<1>21. QED
  BY <1>3, <1>4, <1>15, <1>17, <1>18, <1>19, <1>20 DEF Took

(* The ints a passbook or a list of liens contributes to a sum. *)
MovedOf(t, ref) ==
    TotalOver([i \in 1..Len(t) |->
                 IF t[i].reason = "LIEN" THEN IF t[i].ref = ref THEN t[i].delta ELSE 0 ELSE 0], Len(t))

OwedOf(ls) ==
    TotalOver([i \in 1..Len(ls) |-> IF ls[i].status = "ACTIVE" THEN Outstanding(ls[i]) ELSE 0], Len(ls))

LEMMA MovedAppend ==
    ASSUME NEW t \in Seq(Entry), NEW e \in Entry, NEW ref
    PROVE  /\ MovedOf(t, ref) \in Int
           /\ MovedOf(Append(t, e), ref) =
                MovedOf(t, ref) + (IF e.reason = "LIEN" THEN IF e.ref = ref THEN e.delta ELSE 0 ELSE 0)
<1> DEFINE n == Len(t)
           p == Append(t, e)
           amount(d) == IF d.reason = "LIEN" THEN IF d.ref = ref THEN d.delta ELSE 0 ELSE 0
           f == [i \in 1..Len(t) |-> amount(t[i])]
           g == [i \in 1..Len(p) |-> amount(p[i])]
<1>1. n \in Nat /\ \A i \in 1..n : t[i] \in Entry
  OBVIOUS
<1>2. Len(p) = n + 1 /\ p[n + 1] = e /\ \A i \in 1..n : p[i] = t[i]
  OBVIOUS
<1>3. \A d \in Entry : amount(d) \in Int
  BY EntryFields
<1>4. MovedOf(t, ref) = TotalOver(f, n) /\ MovedOf(p, ref) = TotalOver(g, n + 1)
  BY <1>2 DEF MovedOf
<1> HIDE DEF n, p
<1> HIDE DEF amount
<1>5. \A i \in 1..n : f[i] \in Int /\ g[i] = f[i]
  BY <1>1, <1>2, <1>3 DEF n
<1>6. g[n + 1] = amount(e)
  BY <1>1, <1>2
<1> HIDE DEF f, g
<1>7. TotalOver(g, n + 1) = TotalOver(g, n) + g[n + 1]
  BY <1>1, TotalStep
<1>8. TotalOver(g, n) = TotalOver(f, n)
  BY <1>1, <1>5, TotalSame
<1>9. TotalOver(f, n) \in Int
  <2>1. n \in 0..n
    BY <1>1
  <2>2. QED BY <1>1, <1>5, <2>1, TotalInt
<1>10. QED
  BY <1>4, <1>6, <1>7, <1>8, <1>9 DEF amount, p

Owed(l) == IF l.status = "ACTIVE" THEN Outstanding(l) ELSE 0

LEMMA OwedFacts ==
    ASSUME NEW ls \in Seq(Lien)
    PROVE  /\ OwedOf(ls) \in Int
           /\ \A i \in 1..Len(ls), l \in Lien :
                OwedOf([ls EXCEPT ![i] = l]) = OwedOf(ls) + (Owed(l) - Owed(ls[i]))
           /\ \A l \in Lien : OwedOf(Append(ls, l)) = OwedOf(ls) + Owed(l)
           /\ (\A i \in 1..Len(ls) : Owed(ls[i]) \in Nat) =>
                OwedOf(ls) \in Nat /\ \A i \in 1..Len(ls) : Owed(ls[i]) <= OwedOf(ls)
<1> DEFINE n == Len(ls)
           f == [i \in 1..n |-> Owed(ls[i])]
<1>1. n \in Nat /\ \A i \in 1..n : ls[i] \in Lien
  OBVIOUS
<1>2. \A l \in Lien : Owed(l) \in Int
  BY LienFields DEF Owed, Outstanding
<1>3. OwedOf(ls) = TotalOver(f, n)
  BY DEF OwedOf, Owed
<1>4. \A i \in 1..n : f[i] = Owed(ls[i]) /\ f[i] \in Int
  BY <1>1, <1>2
<1>5. TotalOver(f, n) \in Int
  <2> HIDE DEF n, f
  <2>1. n \in 0..n
    BY <1>1
  <2>2. QED BY <1>1, <1>4, <2>1, TotalInt
<1>6. ASSUME NEW i \in 1..Len(ls), NEW l \in Lien
      PROVE  OwedOf([ls EXCEPT ![i] = l]) = OwedOf(ls) + (Owed(l) - Owed(ls[i]))
  <2> DEFINE p == [ls EXCEPT ![i] = l]
             g == [j \in 1..n |-> Owed(p[j])]
  <2>1. Len(p) = n /\ p[i] = l /\ \A j \in 1..n : j # i => p[j] = ls[j]
    OBVIOUS
  <2>2. OwedOf(p) = TotalOver(g, n)
    BY <2>1 DEF OwedOf, Owed
  <2>3. i \in 1..n /\ i \in Nat
    BY <1>1
  <2>4. \A j \in 1..n : g[j] = Owed(p[j])
    OBVIOUS
  <2> HIDE DEF p, g, n, f
  <2>5. g[i] = Owed(l) /\ \A j \in 1..n : j # i => g[j] = f[j]
    BY <1>4, <2>1, <2>3, <2>4
  <2>6. \A j \in 1..n : f[j] \in Int /\ g[j] \in Int
    BY <1>2, <1>4, <2>3, <2>5
  <2>7. TotalOver(g, n) = TotalOver(f, n) + (IF i \in 1..n THEN g[i] - f[i] ELSE 0)
    BY <1>1, <2>3, <2>5, <2>6, TotalChange
  <2>8. TotalOver(g, n) = TotalOver(f, n) + (Owed(l) - Owed(ls[i]))
    BY <1>4, <2>3, <2>5, <2>7
  <2>9. QED BY <1>3, <2>2, <2>8 DEF p
<1>7. ASSUME NEW l \in Lien PROVE OwedOf(Append(ls, l)) = OwedOf(ls) + Owed(l)
  <2> DEFINE p == Append(ls, l)
             g == [j \in 1..(n + 1) |-> Owed(p[j])]
  <2>1. Len(p) = n + 1 /\ p[n + 1] = l /\ \A j \in 1..n : p[j] = ls[j]
    OBVIOUS
  <2>2. OwedOf(p) = TotalOver(g, n + 1)
    BY <2>1 DEF OwedOf, Owed
  <2>3. \A j \in 1..(n + 1) : g[j] = Owed(p[j])
    OBVIOUS
  <2> HIDE DEF p, g, n, f
  <2>4. g[n + 1] = Owed(l) /\ \A j \in 1..n : f[j] \in Int /\ g[j] = f[j]
    BY <1>1, <1>4, <2>1, <2>3
  <2>5. TotalOver(g, n + 1) = TotalOver(g, n) + g[n + 1]
    BY <1>1, TotalStep
  <2>6. TotalOver(g, n) = TotalOver(f, n)
    BY <1>1, <2>4, TotalSame
  <2>7. QED BY <1>3, <2>2, <2>4, <2>5, <2>6 DEF p
<1>8. ASSUME \A i \in 1..Len(ls) : Owed(ls[i]) \in Nat
      PROVE  OwedOf(ls) \in Nat /\ \A i \in 1..Len(ls) : Owed(ls[i]) <= OwedOf(ls)
  <2>1. \A i \in 1..n : f[i] \in Nat
    BY <1>8
  <2>2. TotalOver(f, n) \in Nat /\ \A i \in 1..n : f[i] <= TotalOver(f, n)
    <3> HIDE DEF f, n
    <3>1. QED BY <1>1, <2>1, TotalBounds
  <2>3. QED BY <1>3, <1>4, <2>2
<1>9. QED
  BY <1>3, <1>5, <1>6, <1>7, <1>8

-----------------------------------------------------------------------------
(* What a committed table is like when liens are only placed and swept.    *)

LienSound(l) == l.recovered <= l.amount /\ (l.status = "ACTIVE" => l.recovered < l.amount)

(* The freeze is what is owed. *)
RowOK(r) ==
    /\ r \in Row /\ Good(r)
    /\ \A i \in 1..Len(r.liens) : LienSound(r.liens[i])
    /\ r.lien = OwedOf(r.liens)

Recorded(r, i) == IF i \in 1..Len(r.liens) THEN r.liens[i].recovered ELSE 0

(* What left v under lien i is what the company got for it and what the    *)
(* lien row says.                                                          *)
Matched(rows, v, i) ==
    /\ -MovedOf(rows[v].txns["PRIMARY"], <<v, i>>) = Recorded(rows[v], i)
    /\ MovedOf(rows[Suspense].txns["PRIMARY"], <<v, i>>) = Recorded(rows[v], i)

TableOK(rows) ==
    /\ rows \in [Accounts -> Row]
    /\ \A a \in Accounts : RowOK(rows[a])
    /\ rows[Suspense].liens = <<>>
    /\ \A v \in Retailers, i \in Nat : Matched(rows, v, i)

LEMMA RowOKFacts ==
    ASSUME NEW r, RowOK(r)
    PROVE  /\ r \in Row /\ Good(r) /\ r.liens \in Seq(Lien) /\ r.lien \in Nat
           /\ \A i \in 1..Len(r.liens) : r.liens[i].status = "ACTIVE" =>
                /\ Outstanding(r.liens[i]) > 0 /\ Outstanding(r.liens[i]) <= r.lien /\ r.lien > 0
<1>1. r \in Row /\ Good(r) /\ r.liens \in Seq(Lien) /\ r.lien = OwedOf(r.liens)
  BY RowFields DEF RowOK, Liens
<1>2. ASSUME NEW i \in 1..Len(r.liens)
      PROVE  /\ Owed(r.liens[i]) \in Nat /\ Outstanding(r.liens[i]) \in Int
             /\ r.liens[i].status = "ACTIVE" => Owed(r.liens[i]) = Outstanding(r.liens[i])
                                                /\ Outstanding(r.liens[i]) > 0
  <2> DEFINE l == r.liens[i]
  <2>1. l \in Lien /\ LienSound(l)
    BY <1>1, LienAt DEF RowOK
  <2> HIDE DEF l
  <2>2. Owed(l) \in Nat /\ Outstanding(l) \in Int
        /\ (l.status = "ACTIVE" => Owed(l) = Outstanding(l) /\ Outstanding(l) > 0)
    BY <2>1, LienFields DEF LienSound, Owed, Outstanding
  <2>3. QED BY <2>2 DEF l
<1>3. OwedOf(r.liens) \in Nat /\ \A i \in 1..Len(r.liens) : Owed(r.liens[i]) <= OwedOf(r.liens)
  BY <1>1, <1>2, OwedFacts
<1>4. QED
  BY <1>1, <1>2, <1>3

LEMMA TakeKeepsRow ==
    ASSUME NEW r, RowOK(r), NEW u \in Retailers, NEW i \in 1..Len(r.liens),
           NEW l, l = r.liens[i], l.status = "ACTIVE", Available(r) > 0,
           NEW q, q = TakeFromUser(r, u, i, l)
    PROVE  RowOK(q)
<1> DEFINE s == TakeAmount(r, l)
           d == Lien0(l, s)
<1>1. r \in Row /\ Good(r) /\ Outstanding(l) > 0 /\ r.liens \in Seq(Lien)
  BY RowOKFacts
<1>0. s = TakeAmount(r, l) /\ d = Lien0(l, s)
  OBVIOUS
<1> HIDE DEF s, d
<1>2. /\ s \in Nat /\ s > 0 /\ s <= Outstanding(l)
      /\ q \in Row /\ Good(q) /\ q.lien = r.lien - s
      /\ q.liens = [r.liens EXCEPT ![i] = Lien0(l, s)] /\ Lien0(l, s) \in Lien
  <2>1. Took(r, u, i, s, q)
    BY <1>0, <1>1, TakeRow
  <2>2. QED BY <2>1 DEF Took
<1>3. l \in Lien /\ l.amount \in Nat /\ l.recovered \in Nat /\ LienSound(l)
  <2>1. l \in Lien
    BY <1>1, LienAt
  <2>2. QED BY <2>1, LienFields DEF RowOK
<1>4. /\ LienSound(d) /\ Owed(d) = Owed(l) - s /\ Owed(l) \in Nat
  <2>1. d.amount = l.amount /\ d.recovered = l.recovered + s
        /\ d.status = IF l.recovered + s >= l.amount THEN "RECOVERED" ELSE "ACTIVE"
    BY <1>0 DEF Lien0
  <2>2. Owed(l) = l.amount - l.recovered /\ s <= l.amount - l.recovered
    BY <1>2 DEF Owed, Outstanding
  <2>3. CASE l.recovered + s >= l.amount
    BY <1>2, <1>3, <2>1, <2>2, <2>3 DEF LienSound, Owed
  <2>4. CASE l.recovered + s < l.amount
    BY <1>2, <1>3, <2>1, <2>2, <2>4 DEF LienSound, Owed, Outstanding
  <2>5. QED BY <1>2, <1>3, <2>3, <2>4
<1>5. r.lien = OwedOf(r.liens) /\ OwedOf(r.liens) \in Int
      /\ OwedOf(q.liens) = OwedOf(r.liens) + (Owed(d) - Owed(l))
  BY <1>0, <1>1, <1>2, OwedFacts DEF RowOK
<1>6. q.lien = OwedOf(q.liens)
  BY <1>2, <1>4, <1>5
<1>7. \A j \in 1..Len(q.liens) : LienSound(q.liens[j])
  <2>1. Len(q.liens) = Len(r.liens) /\ q.liens[i] = d
        /\ \A j \in 1..Len(r.liens) : j # i => q.liens[j] = r.liens[j]
    BY <1>0, <1>1, <1>2
  <2>2. QED BY <1>4, <2>1 DEF RowOK
<1>8. QED
  BY <1>2, <1>6, <1>7 DEF RowOK

(* q has one more PRIMARY entry than r. *)
Books1(r, q, delta, key, reason, ref) ==
    q.txns = [r.txns EXCEPT !["PRIMARY"] =
                Append(r.txns["PRIMARY"], TxnOf(r, "PRIMARY", delta, key, reason, ref))]

LEMMA PostBooks1 ==
    ASSUME NEW r \in Row, NEW delta \in Int, NEW key \in Keyed, NEW reason \in Reasons, NEW ref \in Refs,
           NEW p, p = Post(r, "PRIMARY", delta, key, reason, ref)
    PROVE  Books1(r, p, delta, key, reason, ref)
<1> DEFINE b == "PRIMARY"
<1>1. p = Post(r, b, delta, key, reason, ref) /\ b \in Books
  OBVIOUS
<1> HIDE DEF b
<1>2. p.txns = [r.txns EXCEPT ![b] = Append(r.txns[b], TxnOf(r, b, delta, key, reason, ref))]
  BY <1>1, PostTxns
<1>3. QED
  BY <1>2 DEF b, Books1

(* The company's row after it received s for lien i of u. *)
Received(r, u, i, s, p) ==
    RowOK(p) /\ p.liens = r.liens /\ Books1(r, p, s, Null, "LIEN", <<u, i>>)

LEMMA ReceiveRow ==
    ASSUME NEW r, RowOK(r), NEW u \in Retailers, NEW i \in Nat, NEW s \in Nat,
           NEW p, p = TakeToSuspense(r, s, u, i)
    PROVE  Received(r, u, i, s, p)
<1> DEFINE ref == <<u, i>>
<1>1. ref \in Refs /\ Null \in Keyed /\ "LIEN" \in Reasons /\ s \in Int
  BY DEF Refs, Keyed, Reasons
<1>2. r \in Row /\ Good(r)
  BY RowOKFacts
<1>3. p = Post(r, "PRIMARY", s, Null, "LIEN", ref)
  BY DEF TakeToSuspense
<1> HIDE DEF ref
<1>4. p \in Row /\ p.liens = r.liens /\ p.lien = r.lien
  BY <1>1, <1>2, <1>3, PostRow
<1>5. Good(p)
  BY <1>1, <1>2, <1>3, CreditFacts
<1>6. p.txns = [r.txns EXCEPT !["PRIMARY"] =
                          Append(r.txns["PRIMARY"], TxnOf(r, "PRIMARY", s, Null, "LIEN", ref))]
  BY <1>1, <1>2, <1>3, PostTxns
<1>7. RowOK(p)
  BY <1>2, <1>4, <1>5 DEF RowOK
<1>8. QED
  BY <1>4, <1>6, <1>7 DEF Received, Books1, ref

(* An entry adds to what was moved for its reference. *)
MovesBy(r, q, g, d) ==
    /\ MovedOf(r.txns["PRIMARY"], g) \in Int
    /\ MovedOf(q.txns["PRIMARY"], g) = MovedOf(r.txns["PRIMARY"], g) + d

LEMMA MovedIn ==
    ASSUME NEW r \in Row, NEW q, NEW delta \in Int, NEW key \in Keyed, NEW reason \in Reasons,
           NEW ref \in Refs, NEW g, Books1(r, q, delta, key, reason, ref)
    PROVE  MovesBy(r, q, g, IF reason = "LIEN" /\ ref = g THEN delta ELSE 0)
<1> DEFINE e == TxnOf(r, "PRIMARY", delta, key, reason, ref)
           t == r.txns["PRIMARY"]
<1>1. e \in Entry
  BY TxnOfFacts
<1>2. e.reason = reason /\ e.ref = ref /\ e.delta = delta
  BY DEF TxnOf
<1>3. t \in Seq(Entry) /\ r.txns \in Passbooks
  BY RowFields
<1>4. q.txns["PRIMARY"] = Append(t, e)
  BY <1>3 DEF Passbooks, Books1
<1> HIDE DEF e, t
<1>5. /\ MovedOf(t, g) \in Int
      /\ MovedOf(Append(t, e), g) =
           MovedOf(t, g) + (IF e.reason = "LIEN" THEN IF e.ref = g THEN e.delta ELSE 0 ELSE 0)
  BY <1>1, <1>3, MovedAppend
<1>6. QED
  BY <1>2, <1>4, <1>5 DEF t, MovesBy

(* One round, on the whole table. *)
Taken(rows, u, i) ==
    [rows EXCEPT ![u] = TakeFromUser(rows[u], u, i, rows[u].liens[i]),
                 ![Suspense] = TakeToSuspense(rows[Suspense], TakeAmount(rows[u], rows[u].liens[i]), u, i)]

LEMMA TakenOK ==
    ASSUME NEW rows, TableOK(rows), NEW u \in Retailers, NEW i \in 1..Len(rows[u].liens),
           rows[u].liens[i].status = "ACTIVE", Available(rows[u]) > 0,
           NEW next, next = Taken(rows, u, i)
    PROVE  /\ TableOK(next)
           /\ \E s : Took(rows[u], u, i, s, next[u])
           /\ \A a \in Accounts \ {u, Suspense} : next[a] = rows[a]
<1> DEFINE r == rows[u]
           l == r.liens[i]
           s == TakeAmount(r, l)
           q == TakeFromUser(r, u, i, l)
           p == TakeToSuspense(rows[Suspense], s, u, i)
<1>1. u \in Accounts /\ u # Suspense /\ Suspense \in Accounts
  BY DEF Accounts
<1>2. rows \in [Accounts -> Row] /\ RowOK(r) /\ RowOK(rows[Suspense]) /\ rows[Suspense].liens = <<>>
  BY <1>1 DEF TableOK
<1>3. next = [rows EXCEPT ![u] = q, ![Suspense] = p]
  BY DEF Taken
<1>4. l.status = "ACTIVE" /\ Available(r) > 0 /\ i \in 1..Len(r.liens)
  OBVIOUS
<1>5. r = rows[u] /\ l = r.liens[i] /\ s = TakeAmount(r, l) /\ q = TakeFromUser(r, u, i, l)
      /\ p = TakeToSuspense(rows[Suspense], s, u, i)
  OBVIOUS
<1> HIDE DEF r, l, s, q, p
<1>6. Outstanding(l) > 0 /\ r \in Row /\ Good(r) /\ r.liens \in Seq(Lien) /\ i \in Nat
  BY <1>2, <1>4, <1>5, RowOKFacts
<1>7. Took(r, u, i, s, q)
  BY <1>4, <1>5, <1>6, TakeRow
<1>8. RowOK(q)
  BY <1>2, <1>4, <1>5, TakeKeepsRow
<1>9. s \in Nat
  BY <1>7 DEF Took
<1>10. RowOK(p) /\ p.liens = rows[Suspense].liens
       /\ Books1(rows[Suspense], p, s, Null, "LIEN", <<u, i>>)
  <2>1. Received(rows[Suspense], u, i, s, p)
    BY <1>2, <1>5, <1>6, <1>9, ReceiveRow
  <2>2. QED BY <2>1 DEF Received
<1>11. /\ next[u] = q /\ next[Suspense] = p
       /\ \A a \in Accounts \ {u, Suspense} : next[a] = rows[a]
       /\ next \in [Accounts -> Row]
  <2>1. q \in Row /\ p \in Row
    BY <1>8, <1>10 DEF RowOK
  <2>2. QED BY <1>1, <1>2, <1>3, <2>1
<1>12. \A a \in Accounts : RowOK(next[a])
  BY <1>8, <1>10, <1>11 DEF TableOK
<1>13. ASSUME NEW v \in Retailers, NEW j \in Nat PROVE Matched(next, v, j)
  <2> DEFINE g == <<v, j>>
             ref == <<u, i>>
             delta == -s
             mu == MovedOf(r.txns["PRIMARY"], g)
             ms == MovedOf(rows[Suspense].txns["PRIMARY"], g)
             mine == IF v = u /\ j = i THEN s ELSE 0
  <2>1. ref \in Refs /\ Null \in Keyed /\ "LIEN" \in Reasons /\ s \in Int /\ delta \in Int
    BY <1>6, <1>9 DEF Refs, Keyed, Reasons
  <2>2. (ref = g) <=> (v = u /\ j = i)
    OBVIOUS
  <2>3. Books1(r, q, delta, Null, "LIEN", ref)
    BY <1>7 DEF Took, Books1
  <2>4. Books1(rows[Suspense], p, s, Null, "LIEN", ref)
    BY <1>10
  <2>5. delta = -s
    OBVIOUS
  <2>6. rows[Suspense] \in Row
    BY <1>2 DEF RowOK
  <2> HIDE DEF ref, delta, g
  <2>7. mu \in Int /\ MovedOf(q.txns["PRIMARY"], g) = mu + (IF ref = g THEN delta ELSE 0)
    <3>1. MovesBy(r, q, g, IF "LIEN" = "LIEN" /\ ref = g THEN delta ELSE 0)
      BY <1>6, <2>1, <2>3, MovedIn
    <3>2. QED BY <3>1 DEF MovesBy
  <2>8. ms \in Int /\ MovedOf(p.txns["PRIMARY"], g) = ms + (IF ref = g THEN s ELSE 0)
    <3>1. MovesBy(rows[Suspense], p, g, IF "LIEN" = "LIEN" /\ ref = g THEN s ELSE 0)
      BY <2>1, <2>4, <2>6, MovedIn
    <3>2. QED BY <3>1 DEF MovesBy
  <2>9. Matched(rows, v, j)
    BY DEF TableOK
  <2>10. CASE v = u
    <3>1. -mu = Recorded(r, j) /\ ms = Recorded(r, j)
      BY <1>5, <2>9, <2>10 DEF Matched, g
    <3>2. Recorded(q, j) = Recorded(r, j) + mine
      <4>1. Len(q.liens) = Len(r.liens) /\ q.liens[i].recovered = l.recovered + s
            /\ \A k \in 1..Len(r.liens) : k # i => q.liens[k] = r.liens[k]
        <5>1. q.liens = [r.liens EXCEPT ![i] = Lien0(l, s)]
          BY <1>5, <1>7 DEF Took
        <5>2. Lien0(l, s).recovered = l.recovered + s
          BY DEF Lien0
        <5>3. QED BY <1>4, <1>6, <5>1, <5>2
      <4>2. CASE j = i
        BY <1>4, <1>5, <2>10, <4>1, <4>2 DEF Recorded
      <4>3. CASE j # i
        <5>1. Recorded(r, j) \in Int
          BY <2>7, <3>1
        <5>2. Recorded(q, j) = Recorded(r, j)
          BY <4>1, <4>3 DEF Recorded
        <5>3. QED BY <4>3, <5>1, <5>2
      <4>4. QED BY <4>2, <4>3
    <3>3. MovedOf(q.txns["PRIMARY"], g) = mu - mine /\ MovedOf(p.txns["PRIMARY"], g) = ms + mine
      BY <1>9, <2>2, <2>5, <2>7, <2>8
    <3>4. mine \in Int /\ Recorded(r, j) \in Int
      BY <1>9, <2>8, <3>1
    <3> HIDE DEF mu, ms, mine
    <3>5. -MovedOf(q.txns["PRIMARY"], g) = Recorded(q, j) /\ MovedOf(p.txns["PRIMARY"], g) = Recorded(q, j)
      BY <2>7, <2>8, <3>1, <3>2, <3>3, <3>4
    <3>6. QED BY <1>11, <2>10, <3>5 DEF Matched, g
  <2>11. CASE v # u
    <3>1. next[v] = rows[v]
      BY <1>11, <2>11 DEF Accounts
    <3>2. MovedOf(p.txns["PRIMARY"], g) = ms
      BY <2>2, <2>8, <2>11
    <3>3. QED BY <1>11, <2>9, <3>1, <3>2 DEF Matched, g
  <2>12. QED BY <2>10, <2>11
<1>14. TableOK(next)
  BY <1>2, <1>10, <1>11, <1>12, <1>13 DEF TableOK
<1>15. QED
  BY <1>5, <1>7, <1>11, <1>14
-----------------------------------------------------------------------------
(* The sweep of the atomic ledger, round by round. *)

LEMMA RecoverIs ==
    ASSUME NEW rows, rows \in [Accounts -> Row], NEW u \in Retailers, NEW i
    PROVE  Atomic!Recover(rows, u, i) =
             IF rows[u].liens[i].status = "ACTIVE" /\ Available(rows[u]) > 0
             THEN Taken(rows, u, i) ELSE rows
<1> DEFINE q == TakeFromUser(rows[u], u, i, rows[u].liens[i])
           amt == TakeAmount(rows[u], rows[u].liens[i])
<1>1. u # Suspense
  OBVIOUS
<1>2. [rows EXCEPT ![u] = q][Suspense] = rows[Suspense]
  BY <1>1
<1>3. QED
  BY <1>2, SameOperators DEF Atomic!Recover, Taken

Rounds(rows, u, n, g) ==
    g = [i \in 0..n |-> IF i = 0 THEN rows ELSE Atomic!Recover(g[i - 1], u, i)]

LEMMA RoundsExist == ASSUME NEW rows, NEW u PROVE \A n \in Nat : \E g : Rounds(rows, u, n, g)
<1> DEFINE S == {n \in Nat : \E g : Rounds(rows, u, n, g)}
           R(x, i) == Atomic!Recover(x, u, i)
<1>1. 0 \in S
  <2> DEFINE g == [i \in {0} |-> rows]
  <2>1. Rounds(rows, u, 0, g)
    BY 0..0 = {0} DEF Rounds
  <2>2. QED BY <2>1
<1>2. ASSUME NEW n \in S PROVE n + 1 \in S
  <2>1. PICK g : Rounds(rows, u, n, g)
    OBVIOUS
  <2>2. n \in Nat /\ n + 1 \in Nat
    OBVIOUS
  <2>20. g = [i \in 0..n |-> IF i = 0 THEN rows ELSE R(g[i - 1], i)]
    BY <2>1 DEF Rounds
  <2> HIDE DEF R
  <2> DEFINE h == [i \in 0..(n + 1) |-> IF i = n + 1 THEN R(g[n], n + 1) ELSE g[i]]
  <2>3. ASSUME NEW i \in 0..(n + 1) PROVE h[i] = IF i = 0 THEN rows ELSE R(h[i - 1], i)
    <3>1. CASE i = n + 1
      BY <2>2, <3>1
    <3>2. CASE i = 0
      BY <2>20, <2>2, <3>2
    <3>3. CASE i # 0 /\ i # n + 1
      <4>1. i \in 0..n /\ i - 1 \in 0..n /\ i \in 0..(n + 1) /\ i - 1 \in 0..(n + 1) /\ i - 1 # n + 1
        BY <2>2, <3>3
      <4>2. g[i] = R(g[i - 1], i)
        BY <2>20, <4>1, <3>3
      <4>3. QED BY <3>3, <4>1, <4>2
    <3>4. QED BY <3>1, <3>2, <3>3
  <2>4. h = [i \in 0..(n + 1) |-> IF i = 0 THEN rows ELSE R(h[i - 1], i)]
    BY <2>3
  <2> HIDE DEF h
  <2>5. Rounds(rows, u, n + 1, h)
    BY <2>4 DEF Rounds, R
  <2>6. QED BY <2>2, <2>5
<1>3. S \in SUBSET Nat
  OBVIOUS
<1> HIDE DEF S
<1>4. S = Nat
  BY <1>1, <1>2, <1>3, Induct
<1>5. QED
  BY <1>4 DEF S

(* The table after the k oldest liens of u. *)
SweepTo(rows, u) == CHOOSE g : Rounds(rows, u, Len(rows[u].liens), g)

SweepRun(rows, u, n, g) ==
    /\ Atomic!Swept(rows, u) = g[n]
    /\ g[0] = rows
    /\ \A i \in 1..n : g[i] = Atomic!Recover(g[i - 1], u, i)

LEMMA SweepSteps ==
    ASSUME NEW rows, NEW u, NEW n, n = Len(rows[u].liens), n \in Nat, NEW g, g = SweepTo(rows, u)
    PROVE  SweepRun(rows, u, n, g)
<1>1. Rounds(rows, u, n, g)
  BY RoundsExist DEF SweepTo
<1>2. Atomic!Swept(rows, u) = g[n]
  BY DEF Atomic!Swept, SweepTo, Rounds
<1>3. QED
  BY <1>1, <1>2 DEF Rounds, SweepRun

(* q still has every entry of r. *)
Longer(r, q) ==
    \A b \in Books, i \in Nat :
        i \in 1..Len(r.txns[b]) => i \in 1..Len(q.txns[b]) /\ q.txns[b][i] = r.txns[b][i]

LEMMA AppendLonger ==
    ASSUME NEW r \in Row, NEW b \in Books, NEW e \in Entry, NEW q,
           q.txns = [r.txns EXCEPT ![b] = Append(r.txns[b], e)]
    PROVE  /\ Longer(r, q)
           /\ Len(r.txns[b]) + 1 \in 1..Len(q.txns[b]) /\ q.txns[b][Len(r.txns[b]) + 1] = e
           /\ Len(r.txns[b]) \in Nat
<1> DEFINE t == r.txns[b]
<1>1. r.txns \in Passbooks /\ t \in Seq(Entry)
  BY RowFields
<1>2. q.txns[b] = Append(t, e) /\ \A c \in Books \ {b} : q.txns[c] = r.txns[c]
  BY <1>1 DEF Passbooks
<1> HIDE DEF t
<1>3. /\ \A i \in 1..Len(t) : i \in 1..Len(Append(t, e)) /\ Append(t, e)[i] = t[i]
      /\ Len(t) + 1 \in 1..Len(Append(t, e)) /\ Append(t, e)[Len(t) + 1] = e /\ Len(t) \in Nat
  BY <1>1
<1>4. ASSUME NEW c \in Books, NEW i \in Nat, i \in 1..Len(r.txns[c])
      PROVE  i \in 1..Len(q.txns[c]) /\ q.txns[c][i] = r.txns[c][i]
  <2>1. CASE c = b
    BY <1>2, <1>3, <1>4, <2>1 DEF t
  <2>2. CASE c # b
    BY <1>2, <1>4, <2>2
  <2>3. QED BY <2>1, <2>2
<1>5. QED
  BY <1>2, <1>3, <1>4 DEF Longer, t

(* next is the table when the k oldest liens of u had their round. *)
SweptSo(rows, u, k, next) ==
    /\ TableOK(next)
    /\ \A a \in Accounts \ {u, Suspense} : next[a] = rows[a]
    /\ Len(next[u].liens) = Len(rows[u].liens)
    /\ \A j \in 1..Len(rows[u].liens) : j > k => next[u].liens[j] = rows[u].liens[j]
    /\ Longer(rows[u], next[u])
    /\ next[u].held = rows[u].held
    /\ next[u].bal["PRIMARY"] - next[u].lien = rows[u].bal["PRIMARY"] - rows[u].lien
    /\ (\E j \in 1..k : next[u].liens[j].status = "ACTIVE") => Available(next[u]) <= 0
    /\ \A j \in 1..Len(rows[u].liens) :
         next[u].liens[j].recovered > rows[u].liens[j].recovered =>
           \A i \in 1..(j - 1) : next[u].liens[i].status # "ACTIVE"

LEMMA RoundKeeps ==
    ASSUME NEW rows, TableOK(rows), NEW u \in Retailers, NEW k \in Nat,
           k + 1 \in 1..Len(rows[u].liens), NEW mid, SweptSo(rows, u, k, mid),
           NEW next, next = Atomic!Recover(mid, u, k + 1)
    PROVE  SweptSo(rows, u, k + 1, next)
<1> DEFINE i == k + 1
           r == mid[u]
           n == Len(rows[u].liens)
<1>1. u \in Accounts /\ TableOK(mid) /\ RowOK(r) /\ mid \in [Accounts -> Row] /\ RowOK(rows[u])
      /\ Len(r.liens) = n /\ i \in 1..Len(r.liens) /\ n \in Nat /\ i \in Nat
  BY DEF SweptSo, TableOK, Accounts
<1>2. r \in Row /\ Good(r) /\ r.liens \in Seq(Lien) /\ \A j \in 1..n : r.liens[j] \in Lien
      /\ r.bal["PRIMARY"] \in Int /\ r.held \in Int /\ r.lien \in Int /\ r.bal \in Balances
  <2>1. r \in Row /\ Good(r) /\ r.liens \in Seq(Lien)
    BY <1>1, RowOKFacts
  <2>2. QED BY <1>1, <2>1, RowFields
<1>3. CASE ~(r.liens[i].status = "ACTIVE" /\ Available(r) > 0)
  <2>1. next = mid
    BY <1>1, <1>3, RecoverIs
  <2>2. (\E j \in 1..i : r.liens[j].status = "ACTIVE") => Available(r) <= 0
    <3>1. ASSUME NEW j \in 1..i, r.liens[j].status = "ACTIVE" PROVE Available(r) <= 0
      <4>1. CASE j = i
        <5>1. Available(r) \in Int
          BY <1>2 DEF Available
        <5>2. QED BY <1>3, <3>1, <4>1, <5>1
      <4>2. CASE j # i
        <5>1. j \in 1..k
          BY <4>2
        <5>2. QED BY <3>1, <5>1 DEF SweptSo
      <4>3. QED BY <4>1, <4>2
    <3>2. QED BY <3>1
  <2>3. \A j \in 1..n : j > i => j > k
    BY <1>1
  <2>4. QED BY <2>1, <2>2, <2>3 DEF SweptSo
<1>4. CASE r.liens[i].status = "ACTIVE" /\ Available(r) > 0
  <2>1. next = Taken(mid, u, i)
    BY <1>1, <1>4, RecoverIs
  <2>2. /\ TableOK(next) /\ \E s : Took(r, u, i, s, next[u])
        /\ \A a \in Accounts \ {u, Suspense} : next[a] = mid[a]
    BY <1>1, <1>4, <2>1, TakenOK
  <2>3. PICK s : Took(r, u, i, s, next[u])
    BY <2>2
  <2> DEFINE q == next[u]
             l == r.liens[i]
             d == Lien0(l, s)
  <2>4. /\ s \in Nat /\ s > 0 /\ (s = Outstanding(l) \/ s = Available(r))
        /\ q.held = r.held /\ q.lien = r.lien - s
        /\ q.bal["PRIMARY"] = r.bal["PRIMARY"] - s
        /\ q.liens = [r.liens EXCEPT ![i] = d]
    BY <1>2, <2>3 DEF Took, Balances
  <2>5. l.amount \in Nat /\ l.recovered \in Nat /\ l.status = "ACTIVE"
    BY <1>1, <1>2, <1>4, LienFields
  <2> HIDE DEF i
  <2>6. /\ Len(q.liens) = n /\ q.liens[i] = d
        /\ \A j \in 1..n : j # i => q.liens[j] = r.liens[j]
    <3> HIDE DEF q, d, r, n
    <3>1. i \in 1..Len(r.liens) /\ Len(r.liens) = n
      BY <1>1 DEF n
    <3>2. q.liens = [r.liens EXCEPT ![i] = d] /\ r.liens \in Seq(Lien)
      BY <1>2, <2>4
    <3>3. QED BY <3>1, <3>2
  <2>7. d.recovered = l.recovered + s
        /\ d.status = IF l.recovered + s >= l.amount THEN "RECOVERED" ELSE "ACTIVE"
    BY <2>5 DEF Lien0
  <2>70. k < i /\ i = k + 1
    BY DEF i
  <2> HIDE DEF d, q, l, r
  <2>8. \A j \in 1..k : r.liens[j].status # "ACTIVE"
    <3>1. Available(r) \in Int
      BY <1>2 DEF Available
    <3>2. (\E j \in 1..k : r.liens[j].status = "ACTIVE") => Available(r) <= 0
      BY DEF SweptSo, r
    <3>3. QED BY <1>4, <3>1, <3>2
  <2>9. (\E j \in 1..i : q.liens[j].status = "ACTIVE") => Available(q) <= 0
    <3>1. ASSUME NEW j \in 1..i, q.liens[j].status = "ACTIVE" PROVE Available(q) <= 0
      <4>1. CASE j = i
        <5>1. l.recovered + s < l.amount
          BY <2>4, <2>5, <2>6, <2>7, <3>1, <4>1
        <5>2. s = Available(r)
          BY <2>4, <2>5, <5>1 DEF Outstanding
        <5>3. QED BY <1>2, <2>4, <5>2 DEF Available
      <4>2. CASE j # i
        <5>1. j \in 1..k /\ j \in 1..n
          BY <1>1, <2>70, <4>2
        <5>2. QED BY <2>6, <2>8, <3>1, <4>2, <5>1
      <4>3. QED BY <4>1, <4>2
    <3>2. QED BY <3>1
  <2>10. ASSUME NEW j \in 1..n, q.liens[j].recovered > rows[u].liens[j].recovered, NEW h \in 1..(j - 1)
         PROVE  q.liens[h].status # "ACTIVE"
    <3>1. h \in 1..n /\ h < j
      BY <1>1
    <3>2. CASE j = i
      <4>1. h \in 1..k /\ h # i
        BY <2>70, <3>1, <3>2
      <4>2. QED BY <2>6, <2>8, <3>1, <4>1
    <3>3. CASE j # i
      <4>1. r.liens[j].recovered > rows[u].liens[j].recovered
        BY <2>6, <2>10, <3>3
      <4>2. r.liens[h].status # "ACTIVE"
        BY <4>1 DEF SweptSo, r
      <4>3. CASE h = i
        BY <1>4, <4>2, <4>3
      <4>4. CASE h # i
        BY <2>6, <3>1, <4>2, <4>4
      <4>5. QED BY <4>3, <4>4
    <3>4. QED BY <3>2, <3>3
  <2>11. \A a \in Accounts \ {u, Suspense} : next[a] = rows[a]
    BY <2>2 DEF SweptSo
  <2>12. \A j \in 1..n : j > i => q.liens[j] = rows[u].liens[j]
    <3>1. \A j \in 1..n : j > i => j > k /\ j # i
      BY <1>1, <2>70
    <3>2. \A j \in 1..n : j > k => r.liens[j] = rows[u].liens[j]
      BY DEF SweptSo, r
    <3>3. QED BY <2>6, <3>1, <3>2
  <2>13. q.held = rows[u].held /\ q.bal["PRIMARY"] - q.lien = rows[u].bal["PRIMARY"] - rows[u].lien
    <3>1. r.held = rows[u].held /\ r.bal["PRIMARY"] - r.lien = rows[u].bal["PRIMARY"] - rows[u].lien
      BY DEF SweptSo, r
    <3>2. q.bal["PRIMARY"] - q.lien = r.bal["PRIMARY"] - r.lien
      BY <1>2, <2>4
    <3>3. QED BY <2>4, <3>1, <3>2
  <2>14. Longer(rows[u], q)
    <3> DEFINE delta == -s
               e == TxnOf(r, "PRIMARY", delta, Null, "LIEN", <<u, i>>)
    <3>1. /\ delta \in Int /\ Null \in Keyed /\ "LIEN" \in Reasons /\ <<u, i>> \in Refs
      BY <1>1, <2>4 DEF Keyed, Reasons, Refs
    <3>2. q.txns = [r.txns EXCEPT !["PRIMARY"] = Append(r.txns["PRIMARY"], e)]
      BY <2>3 DEF Took, q, r, i
    <3> HIDE DEF delta
    <3>3. e \in Entry
      BY <1>2, <3>1, TxnOfFacts
    <3> HIDE DEF e
    <3>4. Longer(r, q)
      BY <1>2, <3>2, <3>3, AppendLonger
    <3>5. QED BY <3>4 DEF Longer, SweptSo, r
  <2>15. QED BY <2>2, <2>6, <2>9, <2>10, <2>11, <2>12, <2>13, <2>14 DEF SweptSo, q, i
<1>5. QED
  BY <1>3, <1>4

LEMMA SweepSound ==
    ASSUME NEW rows, TableOK(rows), NEW u \in Retailers, NEW n, n = Len(rows[u].liens),
           NEW g, g = SweepTo(rows, u)
    PROVE  /\ n \in Nat /\ \A k \in 0..n : SweptSo(rows, u, k, g[k])
<1>1. u \in Accounts /\ RowOK(rows[u]) /\ rows \in [Accounts -> Row]
  BY DEF TableOK, Accounts
<1>2. n \in Nat
  <2>1. rows[u].liens \in Seq(Lien)
    BY <1>1, RowOKFacts
  <2>2. QED BY <2>1
<1>3. g[0] = rows /\ \A i \in 1..n : g[i] = Atomic!Recover(g[i - 1], u, i)
  <2>1. SweepRun(rows, u, n, g)
    BY <1>2, SweepSteps
  <2>2. QED BY <2>1 DEF SweepRun
<1> DEFINE S == {k \in 0..n : SweptSo(rows, u, k, g[k])}
<1>4. 0 \in S /\ S \in SUBSET (0..n)
  <2>1. SweptSo(rows, u, 0, rows)
    <3>1. \A j \in 1..Len(rows[u].liens) : ~(rows[u].liens[j].recovered > rows[u].liens[j].recovered)
      <4> TAKE j \in 1..Len(rows[u].liens)
      <4>1. rows[u].liens[j] \in Lien
        BY <1>1, LienAt
      <4>2. rows[u].liens[j].recovered \in Nat
        BY <4>1, LienFields
      <4>3. QED BY <4>2
    <3>2. QED BY <3>1 DEF SweptSo, Longer
  <2>2. 0 \in 0..n
    BY <1>2
  <2>3. QED BY <1>3, <2>1, <2>2
<1>5. ASSUME NEW k \in S, k < n PROVE k + 1 \in S
  <2>1. k \in Nat /\ k + 1 \in 1..n /\ k + 1 \in 0..n /\ (k + 1) - 1 = k
    BY <1>2, <1>5
  <2>2. SweptSo(rows, u, k, g[k])
    OBVIOUS
  <2>3. g[k + 1] = Atomic!Recover(g[k], u, k + 1)
    BY <1>3, <2>1
  <2>4. SweptSo(rows, u, k + 1, g[k + 1])
    <3>1. k + 1 \in 1..Len(rows[u].liens)
      BY <2>1
    <3> DEFINE mid == g[k]
               next == g[k + 1]
    <3>2. SweptSo(rows, u, k, mid) /\ next = Atomic!Recover(mid, u, k + 1)
      BY <2>2, <2>3
    <3> HIDE DEF mid, next
    <3>3. SweptSo(rows, u, k + 1, next)
      BY <2>1, <3>1, <3>2, RoundKeeps
    <3>4. QED BY <3>3 DEF next
  <2>5. QED BY <2>1, <2>4
<1>6. S = 0..n
  <2> HIDE DEF S
  <2>1. QED BY <1>2, <1>4, <1>5, InductTo
<1>7. QED
  BY <1>2, <1>6

(* Nothing is left to take from the liens after the k-th, up to the m-th. *)
Rested(r, k, m) == Available(r) <= 0 \/ \A j \in (k + 1)..m : r.liens[j].status # "ACTIVE"

LEMMA RestedStays ==
    ASSUME NEW rows, TableOK(rows), NEW u \in Retailers, NEW n, n = Len(rows[u].liens),
           NEW g, g = SweepTo(rows, u), NEW k \in 0..n, NEW m \in 0..n, k <= m,
           Rested(g[k][u], k, m)
    PROVE  g[m] = g[k]
<1> DEFINE r == g[k][u]
           S == {j \in 0..n : j \in k..m => g[j] = g[k]}
<1>1. n \in Nat /\ \A i \in 1..n : g[i] = Atomic!Recover(g[i - 1], u, i)
  BY SweepSound, SweepSteps DEF SweepRun
<1>2. 0 \in S /\ S \in SUBSET (0..n)
  BY <1>1
<1>3. ASSUME NEW j \in S, j < n PROVE j + 1 \in S
  <2>1. j \in Nat /\ j + 1 \in 0..n /\ j + 1 \in 1..n /\ (j + 1) - 1 = j /\ k \in Nat /\ m \in Nat
    BY <1>1, <1>3
  <2>2. CASE j + 1 \in k..m /\ j \in k..m
    <3>1. g[j] = g[k]
      BY <2>2
    <3>2. g[j + 1] = Atomic!Recover(g[k], u, j + 1)
      BY <1>1, <2>1, <3>1
    <3>3. g[k] \in [Accounts -> Row] /\ TableOK(g[k])
      BY SweepSound DEF SweptSo, TableOK
    <3>4. ~(g[k][u].liens[j + 1].status = "ACTIVE" /\ Available(g[k][u]) > 0)
      <4>1. j + 1 \in (k + 1)..m
        BY <2>1, <2>2
      <4>2. Available(g[k][u]) \in Int
        <5>1. g[k][u] \in Row
          BY <3>3 DEF Accounts
        <5>2. QED BY <5>1, RowFields DEF Available
      <4>3. QED BY <4>1, <4>2 DEF Rested
    <3>5. g[j + 1] = g[k]
      <4> DEFINE x == g[k]
                 i == j + 1
      <4>1. x \in [Accounts -> Row] /\ g[j + 1] = Atomic!Recover(x, u, i)
            /\ ~(x[u].liens[i].status = "ACTIVE" /\ Available(x[u]) > 0)
        BY <3>2, <3>3, <3>4
      <4> HIDE DEF x, i
      <4>2. g[j + 1] = x
        BY <4>1, RecoverIs
      <4>3. QED BY <4>2 DEF x
    <3>6. QED BY <2>1, <3>5
  <2>3. CASE j + 1 \in k..m /\ j \notin k..m
    <3>1. j + 1 = k
      BY <2>1, <2>3
    <3>2. QED BY <2>1, <3>1
  <2>4. CASE j + 1 \notin k..m
    BY <2>1, <2>4
  <2>5. QED BY <2>2, <2>3, <2>4
<1>4. S = 0..n
  <2> HIDE DEF S
  <2>1. QED BY <1>1, <1>2, <1>3, InductTo
<1>5. m \in S /\ m \in k..m
  BY <1>1, <1>4
<1>6. QED
  BY <1>5

(* The sweep looks at two rows only. *)
LEMMA SweepLocal ==
    ASSUME NEW rows, TableOK(rows), NEW u \in Retailers, NEW n, n = Len(rows[u].liens),
           NEW other, TableOK(other), other[u] = rows[u], other[Suspense] = rows[Suspense],
           NEW g, g = SweepTo(rows, u), NEW h, h = SweepTo(other, u)
    PROVE  \A k \in 0..n : h[k][u] = g[k][u] /\ h[k][Suspense] = g[k][Suspense]
<1> DEFINE S == {k \in 0..n : h[k][u] = g[k][u] /\ h[k][Suspense] = g[k][Suspense]}
<1>1. /\ n \in Nat /\ n = Len(other[u].liens) /\ u \in Accounts /\ Suspense \in Accounts /\ u # Suspense
      /\ \A k \in 0..n : g[k] \in [Accounts -> Row] /\ h[k] \in [Accounts -> Row]
  BY ZenonT(40), SweepSound DEF SweptSo, TableOK, Accounts
<1>2. /\ g[0] = rows /\ \A i \in 1..n : g[i] = Atomic!Recover(g[i - 1], u, i)
      /\ h[0] = other /\ \A i \in 1..n : h[i] = Atomic!Recover(h[i - 1], u, i)
  BY <1>1, SweepSteps DEF SweepRun
<1>3. 0 \in S /\ S \in SUBSET (0..n)
  BY <1>1, <1>2
<1>4. ASSUME NEW k \in S, k < n PROVE k + 1 \in S
  <2>1. k \in Nat /\ k \in 0..n /\ k + 1 \in 1..n /\ k + 1 \in 0..n /\ (k + 1) - 1 = k
    BY <1>1, <1>4
  <2> DEFINE x == g[k]
             y == h[k]
             i == k + 1
  <2>2. /\ x \in [Accounts -> Row] /\ y \in [Accounts -> Row]
        /\ y[u] = x[u] /\ y[Suspense] = x[Suspense]
        /\ g[k + 1] = Atomic!Recover(x, u, i) /\ h[k + 1] = Atomic!Recover(y, u, i)
    BY <1>1, <1>2, <2>1
  <2> HIDE DEF x, y, i
  <2>3. /\ g[k + 1] = IF x[u].liens[i].status = "ACTIVE" /\ Available(x[u]) > 0 THEN Taken(x, u, i) ELSE x
        /\ h[k + 1] = IF y[u].liens[i].status = "ACTIVE" /\ Available(y[u]) > 0 THEN Taken(y, u, i) ELSE y
    BY <2>2, RecoverIs
  <2>4. /\ Taken(y, u, i)[u] = Taken(x, u, i)[u]
        /\ Taken(y, u, i)[Suspense] = Taken(x, u, i)[Suspense]
    BY <1>1, <2>2 DEF Taken
  <2>5. h[k + 1][u] = g[k + 1][u] /\ h[k + 1][Suspense] = g[k + 1][Suspense]
    BY <2>2, <2>3, <2>4
  <2>6. QED BY <2>1, <2>5
<1>5. S = 0..n
  <2> HIDE DEF S
  <2>1. QED BY <1>1, <1>3, <1>4, InductTo
<1>6. QED
  BY <1>5
-----------------------------------------------------------------------------
(* The steps of the atomic ledger keep the table in order. *)

(* Request o turns row r into q. *)
Did(o, r, q) ==
    \/ o.kind = "credit" /\ q = Post(r, o.book, o.amt, o.key, "MOVE", Null)
    \/ o.kind = "debit" /\ CanDebit(r, o.book, o.amt) /\ q = Post(r, o.book, -o.amt, o.key, "MOVE", Null)
    \/ o.kind = "hold" /\ o.amt <= Spendable(r) /\ q = Hold(r, o.amt)
    \/ o.kind = "unhold" /\ o.amt <= r.held /\ q = Unhold(r, o.amt)
    \/ o.kind = "capture" /\ o.amt <= r.held /\ q = Capture(r, o.amt, o.key)

SameMoves(r, q) ==
    \A g : MovedOf(q.txns["PRIMARY"], g) = MovedOf(r.txns["PRIMARY"], g)

KeepsLiens(r, q) == q.liens = r.liens /\ q.lien = r.lien /\ SameMoves(r, q)

LEMMA MoveKeepsLiens ==
    ASSUME NEW r \in Row, NEW b \in Books, NEW delta \in Int, NEW key \in Keyed,
           NEW q, q = Post(r, b, delta, key, "MOVE", Null)
    PROVE  KeepsLiens(r, q)
<1>1. "MOVE" \in Reasons /\ Null \in Refs
  BY DEF Reasons, Refs
<1>2. q.liens = r.liens /\ q.lien = r.lien
  BY <1>1, PostRow
<1>3. q.txns = [r.txns EXCEPT ![b] = Append(r.txns[b], TxnOf(r, b, delta, key, "MOVE", Null))]
  BY <1>1, PostTxns
<1>4. ASSUME NEW g PROVE MovedOf(q.txns["PRIMARY"], g) = MovedOf(r.txns["PRIMARY"], g)
  <2>1. CASE b = "PRIMARY"
    <3>1. Books1(r, q, delta, key, "MOVE", Null)
      BY <1>3, <2>1 DEF Books1
    <3>2. MovesBy(r, q, g, IF "MOVE" = "LIEN" /\ Null = g THEN delta ELSE 0)
      BY <1>1, <3>1, MovedIn
    <3>3. QED BY <3>2 DEF MovesBy
  <2>2. CASE b # "PRIMARY"
    <3>1. r.txns \in Passbooks
      BY RowFields
    <3>2. q.txns["PRIMARY"] = r.txns["PRIMARY"]
      BY <1>3, <2>2, <3>1 DEF Passbooks
    <3>3. QED BY <3>2
  <2>3. QED BY <2>1, <2>2
<1>5. QED
  BY <1>2, <1>4 DEF KeepsLiens, SameMoves

LEMMA KeepsRowOK ==
    ASSUME NEW r, RowOK(r), NEW q \in Row, Good(q), KeepsLiens(r, q)
    PROVE  RowOK(q)
BY DEF RowOK, KeepsLiens

LEMMA DidKeeps ==
    ASSUME NEW r, RowOK(r), NEW o \in Ops, NEW q, Did(o, r, q)
    PROVE  RowOK(q) /\ KeepsLiens(r, q)
<1>1. r \in Row /\ Good(r) /\ 0 <= r.lien
  BY RowOKFacts
<1>2. o.book \in Books /\ o.amt \in Nat /\ o.amt \in Int /\ -o.amt \in Int /\ o.key \in Keyed
      /\ "MOVE" \in Reasons /\ Null \in Refs
  <2>1. o.book \in Books /\ o.amt \in Nat /\ o.key \in Keyed
    BY OpFields
  <2>2. QED BY <2>1 DEF Reasons, Refs
<1> DEFINE amt == o.amt
           less == -o.amt
<1>3. amt \in Nat /\ amt \in Int /\ less \in Int
  BY <1>2
<1>4. ASSUME q \in Row, Good(q), KeepsLiens(r, q) PROVE RowOK(q) /\ KeepsLiens(r, q)
  BY <1>4, KeepsRowOK
<1>5. CASE q = Post(r, o.book, amt, o.key, "MOVE", Null)
  <2> HIDE DEF amt
  <2>1. q \in Row /\ Good(q)
    BY <1>1, <1>2, <1>3, <1>5, CreditFacts
  <2>2. KeepsLiens(r, q)
    BY <1>1, <1>2, <1>3, <1>5, MoveKeepsLiens
  <2>3. QED BY <1>4, <2>1, <2>2
<1>6. CASE CanDebit(r, o.book, o.amt) /\ q = Post(r, o.book, -o.amt, o.key, "MOVE", Null)
  <2>1. q \in Row /\ Good(q)
    BY <1>1, <1>2, <1>6, DebitFacts
  <2>2. KeepsLiens(r, q)
    BY <1>1, <1>2, <1>6, MoveKeepsLiens
  <2>3. QED BY <1>4, <2>1, <2>2
<1>7. CASE o.amt <= Spendable(r) /\ q = Hold(r, o.amt)
  <2>1. q \in Row /\ Good(q)
    BY <1>1, <1>2, <1>7, HoldFacts
  <2>2. r.held + o.amt \in Int
    BY <1>1, <1>2, RowFields
  <2>3. q.lien = r.lien /\ q.txns = r.txns /\ q.liens = r.liens
    BY <1>1, <1>7, <2>2, WriteHeld DEF Hold
  <2>4. QED BY <1>4, <2>1, <2>3 DEF KeepsLiens, SameMoves
<1>8. CASE o.amt <= r.held /\ q = Unhold(r, o.amt)
  <2>1. q \in Row /\ Good(q)
    BY <1>1, <1>2, <1>8, UnholdFacts
  <2>2. r.held - o.amt \in Int
    BY <1>1, <1>2, RowFields
  <2>3. q.lien = r.lien /\ q.txns = r.txns /\ q.liens = r.liens
    BY <1>1, <1>8, <2>2, WriteHeld DEF Unhold
  <2>4. QED BY <1>4, <2>1, <2>3 DEF KeepsLiens, SameMoves
<1>9. CASE o.amt <= r.held /\ q = Capture(r, o.amt, o.key)
  <2>1. q \in Row /\ Good(q)
    BY <1>1, <1>2, <1>9, CaptureFacts
  <2> DEFINE p == Post(r, "PRIMARY", less, o.key, "MOVE", Null)
  <2>2. q = [p EXCEPT !.held = p.held - o.amt]
    BY <1>9 DEF Capture, Unhold
  <2> HIDE DEF less
  <2>3. p \in Row
    BY <1>1, <1>2, <1>3, PostRow
  <2>4. KeepsLiens(r, p)
    BY <1>1, <1>2, <1>3, MoveKeepsLiens
  <2> HIDE DEF p
  <2>5. p.held - o.amt \in Int
    BY <1>2, <2>3, RowFields
  <2>6. q.lien = p.lien /\ q.txns = p.txns /\ q.liens = p.liens
    BY <2>2, <2>3, <2>5, WriteHeld
  <2>7. KeepsLiens(r, q)
    BY <2>4, <2>6 DEF KeepsLiens, SameMoves
  <2>8. QED BY <1>4, <2>1, <2>7
<1>10. QED
  BY <1>5, <1>6, <1>7, <1>8, <1>9 DEF Did

(* A new lien freezes what it is for. *)
Placed(r, amt, q) ==
    /\ RowOK(q) /\ SameMoves(r, q) /\ q.bal = r.bal /\ q.held = r.held /\ q.lien = r.lien + amt
    /\ q.liens = Append(r.liens, [status |-> "ACTIVE", amount |-> amt, recovered |-> 0])

LEMMA PlaceKeeps ==
    ASSUME NEW r, RowOK(r), NEW amt \in Nat, amt > 0, NEW q, q = PlaceLien(r, amt)
    PROVE  Placed(r, amt, q)
<1> DEFINE l == [status |-> "ACTIVE", amount |-> amt, recovered |-> 0]
           p == AddLien(r, l)
           ls == Append(r.liens, l)
<1>1. r \in Row /\ Good(r) /\ r.liens \in Seq(Lien) /\ r.lien \in Nat /\ r.lien = OwedOf(r.liens)
      /\ \A i \in 1..Len(r.liens) : LienSound(r.liens[i])
  BY RowOKFacts DEF RowOK
<1>2. l \in Lien /\ Owed(l) = amt /\ LienSound(l)
  BY DEF Lien, Owed, Outstanding, LienSound
<1>3. q \in Row /\ Good(q)
  BY <1>1, PlaceLienFacts
<1>4. q = SetFrozen(p, r.lien + amt) /\ p = [r EXCEPT !.liens = ls]
  BY DEF PlaceLien, AddLien
<1>5. l = [status |-> "ACTIVE", amount |-> amt, recovered |-> 0]
  OBVIOUS
<1> HIDE DEF l
<1>6. ls \in Liens /\ Len(ls) = Len(r.liens) + 1 /\ ls[Len(r.liens) + 1] = l
      /\ \A i \in 1..Len(r.liens) : ls[i] = r.liens[i]
  BY <1>1, <1>2 DEF Liens
<1>7. OwedOf(ls) = r.lien + amt
  BY <1>1, <1>2, OwedFacts
<1>8. \A i \in 1..Len(ls) : LienSound(ls[i])
  BY <1>1, <1>2, <1>6
<1>60. ls = Append(r.liens, l)
  OBVIOUS
<1> HIDE DEF ls, p
<1>9. /\ p \in Row /\ p.held = r.held /\ p.bal = r.bal /\ p.txns = r.txns /\ p.liens = ls
  BY <1>1, <1>4, <1>6, WriteLiens
<1>10. r.lien + amt \in Int
  BY <1>1
<1>11. q.held = r.held /\ q.bal = r.bal /\ q.txns = r.txns /\ q.liens = ls /\ q.lien = r.lien + amt
  <2> DEFINE left == r.lien + amt
  <2>1. left \in Int /\ q = SetFrozen(p, left)
    BY <1>4, <1>10
  <2>2. left = r.lien + amt
    OBVIOUS
  <2> HIDE DEF left
  <2>3. q.held = p.held /\ q.bal = p.bal /\ q.txns = p.txns /\ q.liens = p.liens /\ q.lien = left
    BY <1>9, <2>1, WriteFrozen
  <2>4. QED BY <1>9, <2>2, <2>3
<1>12. RowOK(q)
  BY <1>3, <1>7, <1>8, <1>11 DEF RowOK
<1>13. SameMoves(r, q)
  BY <1>11 DEF SameMoves
<1>14. QED
  BY <1>5, <1>60, <1>11, <1>12, <1>13 DEF Placed

(* A table in which one row is replaced and no recovery is recorded. *)
LEMMA TableUpdate ==
    ASSUME NEW rows, TableOK(rows), NEW a \in Accounts, NEW q, RowOK(q), SameMoves(rows[a], q),
           a = Suspense => q.liens = <<>>, \A i \in Nat : Recorded(q, i) = Recorded(rows[a], i),
           NEW next, next = [rows EXCEPT ![a] = q]
    PROVE  TableOK(next)
<1>1. rows \in [Accounts -> Row] /\ q \in Row /\ Suspense \in Accounts
  BY DEF TableOK, RowOK, Accounts
<1>2. next \in [Accounts -> Row] /\ next[a] = q /\ \A c \in Accounts \ {a} : next[c] = rows[c]
  BY <1>1
<1>3. ASSUME NEW v \in Retailers, NEW i \in Nat PROVE Matched(next, v, i)
  <2>1. Matched(rows, v, i)
    BY DEF TableOK
  <2>2. \A c \in Accounts : MovedOf(next[c].txns["PRIMARY"], <<v, i>>) = MovedOf(rows[c].txns["PRIMARY"], <<v, i>>)
    BY <1>2 DEF SameMoves
  <2>3. v \in Accounts /\ Recorded(next[v], i) = Recorded(rows[v], i)
    BY <1>2 DEF Accounts
  <2>4. QED BY <1>1, <2>1, <2>2, <2>3 DEF Matched
<1>4. \A c \in Accounts : RowOK(next[c])
  BY <1>2 DEF TableOK
<1>5. next[Suspense].liens = <<>>
  BY <1>1, <1>2 DEF TableOK
<1>6. QED
  BY <1>2, <1>3, <1>4, <1>5 DEF TableOK

(* The row a credit or a new lien leaves to the sweep. *)
Applied(o, r) ==
    IF o.kind = "place" THEN PlaceLien(r, o.amt)
    ELSE Post(r, o.book, o.amt, o.key, "MOVE", Null)

Sweeps(o) ==
    \/ o.kind = "place" /\ o.user \in Retailers
    \/ o.kind = "credit" /\ o.book = "PRIMARY" /\ o.user # Suspense

LEMMA AppliedKeeps ==
    ASSUME NEW rows, TableOK(rows), NEW o \in Ops, Sweeps(o), o.amt > 0,
           NEW next, next = [rows EXCEPT ![o.user] = Applied(o, rows[o.user])]
    PROVE  /\ o.user \in Retailers /\ TableOK(next) /\ next[o.user] = Applied(o, rows[o.user])
           /\ \A a \in Accounts \ {o.user} : next[a] = rows[a]
<1> DEFINE u == o.user
           r == rows[u]
           q == Applied(o, r)
<1>1. u \in Retailers /\ u \in Accounts /\ u # Suspense /\ o.amt \in Nat /\ o.amt > 0
  BY OpFields DEF Sweeps, Accounts
<1>2. RowOK(r) /\ rows \in [Accounts -> Row]
  BY <1>1 DEF TableOK
<1>3. RowOK(q) /\ SameMoves(r, q) /\ \A i \in Nat : Recorded(q, i) = Recorded(r, i)
  <2>1. CASE o.kind = "place"
    <3> DEFINE l == [status |-> "ACTIVE", amount |-> o.amt, recovered |-> 0]
    <3>1. Placed(r, o.amt, q)
      <4>1. q = PlaceLien(r, o.amt)
        BY <2>1 DEF Applied
      <4> HIDE DEF q, r
      <4>2. QED BY <1>1, <1>2, <4>1, PlaceKeeps
    <3>2. q.liens = Append(r.liens, l) /\ r.liens \in Seq(Lien) /\ l.recovered = 0 /\ l \in Lien
      BY <1>1, <1>2, <3>1, RowOKFacts DEF Placed, Lien
    <3> HIDE DEF l, q, r
    <3>3. \A i \in Nat : Recorded(q, i) = Recorded(r, i)
      BY <3>2 DEF Recorded
    <3>4. QED BY <3>1, <3>3 DEF Placed
  <2>2. CASE o.kind = "credit"
    <3>1. Did(o, r, q)
      BY <2>2 DEF Did, Applied
    <3> HIDE DEF q, r
    <3>2. RowOK(q) /\ KeepsLiens(r, q)
      BY <1>2, <3>1, DidKeeps
    <3>3. QED BY <3>2 DEF KeepsLiens, Recorded
  <2>3. QED BY <2>1, <2>2 DEF Sweeps
<1>4. next = [rows EXCEPT ![u] = q]
  OBVIOUS
<1>5. SameMoves(rows[u], q) /\ \A i \in Nat : Recorded(q, i) = Recorded(rows[u], i)
  BY <1>3
<1>6. q \in Row
  BY <1>3 DEF RowOK
<1>7. next[u] = q /\ \A a \in Accounts \ {u} : next[a] = rows[a]
  BY <1>1, <1>2, <1>4, <1>6
<1> HIDE DEF q, r
<1>8. TableOK(next)
  BY <1>1, <1>3, <1>4, <1>5, TableUpdate
<1>9. QED
  BY <1>1, <1>7, <1>8 DEF q, r

(* Liens of which none is active owe nothing. *)
LEMMA NothingOwed ==
    ASSUME NEW ls \in Seq(Lien), \A i \in 1..Len(ls) : ls[i].status # "ACTIVE"
    PROVE  OwedOf(ls) = 0
<1> DEFINE n == Len(ls)
           f == [i \in 1..n |-> IF ls[i].status = "ACTIVE" THEN Outstanding(ls[i]) ELSE 0]
           S == {j \in 0..n : TotalOver(f, j) = 0}
<1>1. n \in Nat /\ OwedOf(ls) = TotalOver(f, n)
  BY DEF OwedOf
<1>2. \A i \in 1..n : f[i] = 0
  OBVIOUS
<1> HIDE DEF n, f
<1>3. 0 \in S /\ S \in SUBSET (0..n)
  BY SMTT(30), <1>1, TotalStep
<1>4. ASSUME NEW j \in S, j < n PROVE j + 1 \in S
  <2>1. j \in Nat /\ j + 1 \in 1..n /\ j + 1 \in 0..n
    BY <1>1, <1>4
  <2>2. TotalOver(f, j + 1) = TotalOver(f, j) + f[j + 1]
    BY <2>1, TotalStep
  <2>3. TotalOver(f, j) = 0 /\ f[j + 1] = 0
    BY <1>2, <2>1
  <2>4. TotalOver(f, j + 1) = 0
    BY <2>2, <2>3
  <2>5. QED BY <2>1, <2>4
<1>5. S = 0..n
  <2> HIDE DEF S
  <2>1. QED BY <1>1, <1>3, <1>4, InductTo
<1>6. n \in S
  BY <1>1, <1>5
<1>7. QED
  BY <1>1, <1>6

(* What a commit may do to the row of a liable user. *)
FrozenStep(r, q) ==
    /\ Credited(r, q) => q.lien = 0 \/ Available(q) = 0
    /\ q.liens = r.liens /\ Spendable(q) < Spendable(r) => Available(q) >= q.lien

OldestStep(r, q) ==
    \A i, j \in 1..Len(r.liens) :
        i < j /\ q.liens[j].recovered > r.liens[j].recovered => q.liens[i].status # "ACTIVE"

LEMMA SameLiensOldest ==
    ASSUME NEW r \in Row, NEW q, q.liens = r.liens
    PROVE  OldestStep(r, q)
<1> SUFFICES ASSUME NEW j \in 1..Len(r.liens), r.liens[j].recovered > r.liens[j].recovered PROVE FALSE
  BY DEF OldestStep
<1>1. r.liens[j] \in Lien
  BY LienAt
<1>2. r.liens[j].recovered \in Nat
  BY <1>1, LienFields
<1>3. QED
  BY <1>2

LEMMA NotCredited ==
    ASSUME NEW r \in Row, NEW q, q.txns["PRIMARY"] = r.txns["PRIMARY"]
    PROVE  ~Credited(r, q)
<1> DEFINE n == Len(r.txns["PRIMARY"])
<1>1. n \in Nat
  <2>1. r.txns["PRIMARY"] \in Seq(Entry)
    BY RowFields
  <2>2. QED BY <2>1
<1>2. (n + 1)..n = {}
  BY <1>1
<1> HIDE DEF n
<1>3. QED
  BY <1>2 DEF Credited, n

LEMMA DebitNotCredited ==
    ASSUME NEW r \in Row, NEW delta \in Int, delta < 0, NEW key \in Keyed,
           NEW q, Books1(r, q, delta, key, "MOVE", Null)
    PROVE  ~Credited(r, q)
<1> DEFINE t == r.txns["PRIMARY"]
           e == TxnOf(r, "PRIMARY", delta, key, "MOVE", Null)
<1>1. e \in Entry /\ e.delta = delta
  BY TxnOfFacts DEF Reasons, Refs
<1>2. t \in Seq(Entry) /\ r.txns \in Passbooks
  BY RowFields
<1>3. q.txns["PRIMARY"] = Append(t, e)
  BY <1>2 DEF Passbooks, Books1
<1> HIDE DEF e
<1>4. ASSUME NEW i \in (Len(t) + 1)..Len(Append(t, e)) PROVE ~(Append(t, e)[i].delta > 0)
  <2>1. i = Len(t) + 1 /\ Append(t, e)[Len(t) + 1] = e
    BY <1>1, <1>2
  <2>2. QED BY <1>1, <2>1
<1>5. QED
  BY <1>3, <1>4 DEF Credited

LEMMA SameRowFrozen ==
    ASSUME NEW r \in Row, NEW q, q.txns["PRIMARY"] = r.txns["PRIMARY"],
           Available(q) = Available(r), q.lien = r.lien
    PROVE  FrozenStep(r, q)
<1>1. ~Credited(r, q)
  BY NotCredited
<1>2. Spendable(q) = Spendable(r) /\ Spendable(r) \in Int
  BY RowFields DEF Spendable, Available, Floor0
<1>3. QED
  BY <1>1, <1>2 DEF FrozenStep

LEMMA DidFrozen ==
    ASSUME NEW r, RowOK(r), NEW o \in Ops, o.amt > 0, NEW q, Did(o, r, q),
           o.kind = "credit" => o.book # "PRIMARY"
    PROVE  FrozenStep(r, q)
<1>1. r \in Row /\ Good(r) /\ 0 <= r.lien /\ r.lien \in Int /\ r.held \in Int
      /\ r.bal["PRIMARY"] \in Int /\ r.bal \in Balances /\ r.txns \in Passbooks
  BY RowOKFacts, RowFields
<1>2. o.book \in Books /\ o.amt \in Nat /\ o.amt \in Int /\ -o.amt \in Int /\ o.key \in Keyed
      /\ "MOVE" \in Reasons /\ Null \in Refs
  <2>1. o.book \in Books /\ o.amt \in Nat /\ o.key \in Keyed
    BY OpFields
  <2>2. QED BY <2>1 DEF Reasons, Refs
<1> DEFINE amt == o.amt
           less == -o.amt
<1>3. amt \in Nat /\ amt > 0 /\ amt \in Int /\ less \in Int /\ less < 0 /\ less = -amt
  BY <1>2
<1>4. Available(r) = r.bal["PRIMARY"] - r.held /\ Available(q) = q.bal["PRIMARY"] - q.held
  BY DEF Available
<1>5. ASSUME NEW d \in Int, o.book # "PRIMARY", q = Post(r, o.book, d, o.key, "MOVE", Null)
      PROVE  FrozenStep(r, q)
  <2>1. q.held = r.held /\ q.lien = r.lien
    BY <1>1, <1>2, <1>5, PostRow
  <2>2. q.bal = [r.bal EXCEPT ![o.book] = r.bal[o.book] + d]
    BY <1>1, <1>2, <1>5, PostBal
  <2>3. q.txns = [r.txns EXCEPT ![o.book] = Append(r.txns[o.book], TxnOf(r, o.book, d, o.key, "MOVE", Null))]
    BY SMTT(30), <1>1, <1>2, <1>5, PostTxns
  <2>4. q.bal["PRIMARY"] = r.bal["PRIMARY"] /\ q.txns["PRIMARY"] = r.txns["PRIMARY"]
    BY <1>1, <1>5, <2>2, <2>3 DEF Balances, Passbooks
  <2>5. QED BY <1>1, <1>4, <2>1, <2>4, SameRowFrozen
<1>6. CASE o.kind = "credit"
  BY <1>2, <1>5, <1>6 DEF Did
<1>7. ASSUME NEW p, p = Post(r, "PRIMARY", less, o.key, "MOVE", Null)
      PROVE  /\ p \in Row /\ p.held = r.held /\ p.lien = r.lien
             /\ p.bal["PRIMARY"] = r.bal["PRIMARY"] - amt
             /\ ~Credited(r, p)
  <2> HIDE DEF amt, less
  <2>1. p \in Row /\ p.held = r.held /\ p.lien = r.lien
    BY <1>1, <1>2, <1>3, <1>7, PostRow
  <2>2. p.bal = [r.bal EXCEPT !["PRIMARY"] = r.bal["PRIMARY"] + less]
    BY <1>1, <1>2, <1>3, <1>7, PostBal
  <2>3. Books1(r, p, less, o.key, "MOVE", Null)
    BY <1>1, <1>2, <1>3, <1>7, PostBooks1
  <2>4. ~Credited(r, p)
    BY <1>1, <1>2, <1>3, <2>3, DebitNotCredited
  <2>5. p.bal["PRIMARY"] = r.bal["PRIMARY"] - amt
    BY <1>1, <1>3, <2>2 DEF Balances
  <2>6. QED BY <2>1, <2>4, <2>5
<1>8. CASE o.kind = "debit"
  <2>1. CanDebit(r, o.book, amt) /\ q = Post(r, o.book, less, o.key, "MOVE", Null)
    BY <1>8 DEF Did
  <2>2. CASE o.book = "PRIMARY"
    <3>1. q.held = r.held /\ q.lien = r.lien /\ q.bal["PRIMARY"] = r.bal["PRIMARY"] - amt /\ ~Credited(r, q)
      BY <1>7, <2>1, <2>2
    <3>2. amt <= Spendable(r)
      BY <2>1, <2>2 DEF CanDebit
    <3> HIDE DEF amt
    <3>3. amt <= (r.bal["PRIMARY"] - r.held) - r.lien
      BY <1>1, <1>3, <1>4, <3>2 DEF Spendable, Floor0
    <3>4. Available(q) >= q.lien
      BY <1>1, <1>3, <1>4, <3>1, <3>3
    <3>5. QED BY <3>1, <3>4 DEF FrozenStep
  <2>3. CASE o.book # "PRIMARY"
    BY <1>3, <1>5, <2>1, <2>3
  <2>4. QED BY <2>2, <2>3
<1>9. CASE o.kind = "hold"
  <2>1. amt <= Spendable(r) /\ q = [r EXCEPT !.held = r.held + amt]
    BY <1>9 DEF Did, Hold
  <2> DEFINE h == r.held + amt
  <2>2. h \in Int /\ q = [r EXCEPT !.held = h] /\ h = r.held + amt
    BY <1>1, <1>3, <2>1
  <2> HIDE DEF h, amt
  <2>3. q.held = h /\ q.bal = r.bal /\ q.lien = r.lien /\ q.txns = r.txns
    BY <1>1, <2>2, WriteHeld
  <2>4. amt <= (r.bal["PRIMARY"] - r.held) - r.lien
    BY <1>1, <1>3, <1>4, <2>1 DEF Spendable, Floor0
  <2>5. Available(q) >= q.lien
    BY <1>1, <1>3, <1>4, <2>2, <2>3, <2>4
  <2>6. ~Credited(r, q)
    BY <1>1, <2>3, NotCredited
  <2>7. QED BY <2>5, <2>6 DEF FrozenStep
<1>10. CASE o.kind = "unhold"
  <2>1. q = [r EXCEPT !.held = r.held - amt]
    BY <1>10 DEF Did, Unhold
  <2> DEFINE h == r.held - amt
  <2>2. h \in Int /\ q = [r EXCEPT !.held = h] /\ h = r.held - amt
    BY <1>1, <1>3, <2>1
  <2> HIDE DEF h, amt
  <2>3. q.held = h /\ q.bal = r.bal /\ q.lien = r.lien /\ q.txns = r.txns
    BY <1>1, <2>2, WriteHeld
  <2>4. ~(Spendable(q) < Spendable(r))
    BY <1>1, <1>3, <1>4, <2>2, <2>3 DEF Spendable, Floor0
  <2>5. ~Credited(r, q)
    BY <1>1, <2>3, NotCredited
  <2>6. QED BY <2>4, <2>5 DEF FrozenStep
<1>11. CASE o.kind = "capture"
  <2> DEFINE p == Post(r, "PRIMARY", less, o.key, "MOVE", Null)
             h == p.held - amt
  <2>1. q = [p EXCEPT !.held = h]
    BY <1>11 DEF Did, Capture, Unhold
  <2>2. /\ p \in Row /\ p.held = r.held /\ p.lien = r.lien
        /\ p.bal["PRIMARY"] = r.bal["PRIMARY"] - amt
        /\ ~Credited(r, p)
    BY <1>7
  <2> HIDE DEF p, amt
  <2>3. h \in Int /\ h = r.held - amt
    BY <1>1, <1>3, <2>2
  <2> HIDE DEF h
  <2>4. q.held = h /\ q.bal = p.bal /\ q.lien = p.lien /\ q.txns = p.txns
    BY <2>1, <2>2, <2>3, WriteHeld
  <2>5. ~Credited(r, q)
    BY <2>2, <2>4 DEF Credited
  <2>6. ~(Spendable(q) < Spendable(r))
    <3>1. Available(q) = Available(r)
      BY <1>1, <1>3, <1>4, <2>2, <2>3, <2>4
    <3>2. Spendable(q) = Spendable(r) /\ Spendable(r) \in Int
      BY <1>1, <1>4, <2>2, <2>4, <3>1 DEF Spendable, Floor0
    <3>3. QED BY <3>2
  <2>7. QED BY <2>5, <2>6 DEF FrozenStep
<1>12. QED
  BY <1>6, <1>8, <1>9, <1>10, <1>11 DEF Did

LEMMA CreditSwept ==
    ASSUME NEW r, RowOK(r), NEW o \in Ops, o.kind \in {"credit", "place"}, o.amt > 0,
           o.book = "PRIMARY", NEW base, base = Applied(o, r)
    PROVE  /\ base.held = r.held
           /\ base.lien = r.lien \/ Len(base.liens) # Len(r.liens)
           /\ base.bal["PRIMARY"] - base.lien >= r.bal["PRIMARY"] - r.lien \/ Len(base.liens) # Len(r.liens)
           /\ Len(base.liens) >= Len(r.liens) /\ Len(base.liens) \in Nat /\ Len(r.liens) \in Nat
           /\ \A j \in 1..Len(r.liens) : base.liens[j] = r.liens[j]
<1>1. r \in Row /\ Good(r) /\ r.lien \in Int /\ r.bal["PRIMARY"] \in Int /\ r.bal \in Balances
      /\ r.liens \in Seq(Lien)
  BY RowOKFacts, RowFields
<1>2. o.amt \in Nat /\ o.amt \in Int /\ o.key \in Keyed /\ "MOVE" \in Reasons /\ Null \in Refs
  <2>1. o.amt \in Nat /\ o.key \in Keyed
    BY OpFields
  <2>2. QED BY <2>1 DEF Reasons, Refs
<1>3. CASE o.kind = "place"
  <2> DEFINE l == [status |-> "ACTIVE", amount |-> o.amt, recovered |-> 0]
  <2>1. Placed(r, o.amt, base)
    BY <1>2, <1>3, PlaceKeeps DEF Applied
  <2>2. base.held = r.held /\ base.liens = Append(r.liens, l) /\ l \in Lien
    BY <1>2, <2>1 DEF Placed, Lien
  <2> HIDE DEF l
  <2>3. Len(base.liens) = Len(r.liens) + 1 /\ Len(r.liens) \in Nat
        /\ \A j \in 1..Len(r.liens) : base.liens[j] = r.liens[j]
    BY <1>1, <2>2
  <2>4. QED BY <2>2, <2>3
<1>4. CASE o.kind = "credit"
  <2> DEFINE amt == o.amt
  <2>1. base = Post(r, "PRIMARY", amt, o.key, "MOVE", Null)
    BY <1>4 DEF Applied
  <2>2. amt \in Int /\ amt > 0
    BY <1>2
  <2> HIDE DEF amt
  <2>3. base.held = r.held /\ base.lien = r.lien /\ base.liens = r.liens
    BY <1>1, <1>2, <2>1, <2>2, PostRow
  <2>4. base.bal = [r.bal EXCEPT !["PRIMARY"] = r.bal["PRIMARY"] + amt]
    BY <1>1, <1>2, <2>1, <2>2, PostBal
  <2>5. base.bal["PRIMARY"] = r.bal["PRIMARY"] + amt
    BY <1>1, <2>4 DEF Balances
  <2>6. base.bal["PRIMARY"] - base.lien >= r.bal["PRIMARY"] - r.lien
    BY <1>1, <2>2, <2>3, <2>5
  <2>7. Len(r.liens) \in Nat
    BY <1>1
  <2>8. QED BY <2>3, <2>6, <2>7
<1>5. QED
  BY <1>3, <1>4

(* The swept row of the user whose money it is. *)
LEMMA SweptFrozen ==
    ASSUME NEW rows, TableOK(rows), NEW o \in Ops, Sweeps(o), o.book = "PRIMARY", o.amt > 0,
           NEW r, r = rows[o.user],
           NEW base, base = [rows EXCEPT ![o.user] = Applied(o, r)],
           NEW next, SweptSo(base, o.user, Len(base[o.user].liens), next)
    PROVE  FrozenStep(r, next[o.user]) /\ OldestStep(r, next[o.user])
<1> DEFINE u == o.user
           q == next[u]
           p == base[u]
           n == Len(p.liens)
<1>1. u \in Retailers /\ p = Applied(o, r) /\ u \in Accounts /\ TableOK(next)
  <2>1. base = [rows EXCEPT ![o.user] = Applied(o, rows[o.user])]
    OBVIOUS
  <2>2. o.user \in Retailers /\ base[o.user] = Applied(o, rows[o.user])
    BY ZenonT(30), <2>1, AppliedKeeps
  <2>3. TableOK(next)
    BY DEF SweptSo
  <2>4. QED BY <2>2, <2>3 DEF Accounts
<1>2. RowOK(r) /\ RowOK(q) /\ o.kind \in {"credit", "place"}
  BY <1>1 DEF TableOK, Sweeps
<1>3. /\ p.held = r.held
      /\ p.lien = r.lien \/ n # Len(r.liens)
      /\ p.bal["PRIMARY"] - p.lien >= r.bal["PRIMARY"] - r.lien \/ n # Len(r.liens)
      /\ n >= Len(r.liens) /\ n \in Nat /\ Len(r.liens) \in Nat
      /\ \A j \in 1..Len(r.liens) : p.liens[j] = r.liens[j]
  <2> HIDE DEF p
  <2>1. QED BY Z3, <1>1, <1>2, CreditSwept
<1>4. /\ Len(q.liens) = n /\ q.held = p.held
      /\ q.bal["PRIMARY"] - q.lien = p.bal["PRIMARY"] - p.lien
      /\ (\E j \in 1..n : q.liens[j].status = "ACTIVE") => Available(q) <= 0
      /\ \A j \in 1..n : q.liens[j].recovered > p.liens[j].recovered =>
           \A i \in 1..(j - 1) : q.liens[i].status # "ACTIVE"
  BY DEF SweptSo
<1>5. q \in Row /\ Good(q) /\ q.liens \in Seq(Lien) /\ q.lien \in Nat /\ q.lien = OwedOf(q.liens)
  BY <1>2, RowOKFacts DEF RowOK
<1>6. r \in Row /\ r.lien \in Nat /\ r.lien = OwedOf(r.liens)
  BY <1>2, RowOKFacts DEF RowOK
<1> HIDE DEF q, p, n
<1>7. q.lien = 0 \/ Available(q) = 0
  <2>1. CASE \E j \in 1..n : q.liens[j].status = "ACTIVE"
    <3>1. Available(q) >= 0 /\ Available(q) \in Int
      BY <1>5, RowFields DEF Available, Good, Solvent
    <3>2. QED BY <1>4, <2>1, <3>1
  <2>2. CASE ~ \E j \in 1..n : q.liens[j].status = "ACTIVE"
    <3>1. \A j \in 1..Len(q.liens) : q.liens[j].status # "ACTIVE"
      BY <1>4, <2>2
    <3>2. QED BY <1>5, <3>1, NothingOwed
  <2>3. QED BY <2>1, <2>2
<1>8. ~(q.liens = r.liens /\ Spendable(q) < Spendable(r))
  <2> SUFFICES ASSUME q.liens = r.liens, Spendable(q) < Spendable(r) PROVE FALSE
    OBVIOUS
  <2>1. n = Len(r.liens) /\ q.lien = r.lien
    BY <1>4, <1>5, <1>6
  <2>2. p.lien = r.lien /\ p.bal["PRIMARY"] - p.lien >= r.bal["PRIMARY"] - r.lien
    BY <1>3, <2>1
  <2>3. q.held = r.held /\ q.bal["PRIMARY"] - q.lien >= r.bal["PRIMARY"] - r.lien
    BY <1>3, <1>4, <2>2
  <2>4. QED BY <1>5, <1>6, <2>1, <2>3, RowFields DEF Spendable, Available, Floor0
<1>9. OldestStep(r, q)
  <2> SUFFICES ASSUME NEW i \in 1..Len(r.liens), NEW j \in 1..Len(r.liens), i < j,
                      q.liens[j].recovered > r.liens[j].recovered
               PROVE  q.liens[i].status # "ACTIVE"
    BY DEF OldestStep
  <2>1. j \in 1..n /\ i \in 1..(j - 1) /\ p.liens[j] = r.liens[j]
    BY <1>3
  <2>2. QED BY <1>4, <2>1
<1>10. QED
  BY <1>7, <1>8, <1>9 DEF FrozenStep, q

(* What the atomic ledger makes of request o. *)
Outcome(o, rows, next) ==
    IF Sweeps(o)
    THEN next = Atomic!Swept([rows EXCEPT ![o.user] = Applied(o, rows[o.user])], o.user)
    ELSE \E q : Did(o, rows[o.user], q) /\ next = [rows EXCEPT ![o.user] = q]

LEMMA UntouchedRow ==
    ASSUME NEW r \in Row PROVE FrozenStep(r, r) /\ OldestStep(r, r)
BY SameRowFrozen, SameLiensOldest

LEMMA OutcomeOK ==
    ASSUME NEW rows, TableOK(rows), NEW o \in Ops, o.amt > 0, Sweeps(o) => o.book = "PRIMARY",
           NEW next, Outcome(o, rows, next)
    PROVE  /\ TableOK(next)
           /\ \A v \in Retailers : FrozenStep(rows[v], next[v]) /\ OldestStep(rows[v], next[v])
<1> DEFINE u == o.user
           r == rows[u]
<1>1. u \in Accounts /\ RowOK(r) /\ rows \in [Accounts -> Row]
  BY OpFields DEF TableOK
<1>2. \A v \in Retailers : v \in Accounts /\ v # Suspense /\ rows[v] \in Row
  BY <1>1 DEF Accounts
<1>3. CASE Sweeps(o)
  <2> DEFINE base == [rows EXCEPT ![u] = Applied(o, r)]
             n == Len(base[u].liens)
             g == SweepTo(base, u)
  <2>1. u \in Retailers /\ TableOK(base) /\ \A a \in Accounts \ {u} : base[a] = rows[a]
    BY <1>3, AppliedKeeps
  <2>2. next = Atomic!Swept(base, u)
    BY <1>3 DEF Outcome
  <2>3. n = Len(base[u].liens) /\ g = SweepTo(base, u) /\ base = [rows EXCEPT ![u] = Applied(o, r)] /\ r = rows[u]
    OBVIOUS
  <2> HIDE DEF base, n, g
  <2>4. n \in Nat /\ \A k \in 0..n : SweptSo(base, u, k, g[k])
    BY <2>1, <2>3, SweepSound
  <2>5. next = g[n]
    <3>1. SweepRun(base, u, n, g)
      BY <2>3, <2>4, SweepSteps
    <3>2. QED BY <2>2, <3>1 DEF SweepRun
  <2>6. SweptSo(base, u, n, next)
    BY <2>4, <2>5
  <2>7. FrozenStep(r, next[u]) /\ OldestStep(r, next[u])
    <3> HIDE DEF r, u
    <3>1. r = rows[o.user] /\ base = [rows EXCEPT ![o.user] = Applied(o, r)]
          /\ SweptSo(base, o.user, Len(base[o.user].liens), next)
      BY <2>3, <2>6 DEF u
    <3>2. FrozenStep(r, next[o.user]) /\ OldestStep(r, next[o.user])
      BY <1>3, <3>1, SweptFrozen
    <3>3. QED BY <3>2 DEF u
  <2>8. ASSUME NEW v \in Retailers, v # u PROVE next[v] = rows[v]
    BY <1>2, <2>1, <2>6, <2>8 DEF SweptSo
  <2>9. \A v \in Retailers : FrozenStep(rows[v], next[v]) /\ OldestStep(rows[v], next[v])
    BY <1>2, <2>7, <2>8, UntouchedRow
  <2>10. QED BY <2>6, <2>9 DEF SweptSo
<1>4. CASE ~Sweeps(o)
  <2>1. PICK q : Did(o, r, q) /\ next = [rows EXCEPT ![u] = q]
    BY <1>4 DEF Outcome
  <2>2. RowOK(q) /\ KeepsLiens(r, q)
    BY <1>1, <2>1, DidKeeps
  <2>3. next[u] = q /\ \A a \in Accounts \ {u} : next[a] = rows[a]
    BY <1>1, <2>1, <2>2 DEF RowOK
  <2>4. TableOK(next)
    <3>1. SameMoves(rows[u], q) /\ \A i \in Nat : Recorded(q, i) = Recorded(rows[u], i)
      BY <2>2 DEF KeepsLiens, Recorded
    <3>2. u = Suspense => q.liens = <<>>
      BY <2>2 DEF KeepsLiens, TableOK
    <3>3. QED BY <1>1, <2>1, <2>2, <3>1, <3>2, TableUpdate
  <2>5. ASSUME NEW v \in Retailers PROVE FrozenStep(rows[v], next[v]) /\ OldestStep(rows[v], next[v])
    <3>1. CASE v = u
      <4>1. o.kind = "credit" => o.book # "PRIMARY"
        BY <1>2, <1>4, <3>1 DEF Sweeps
      <4>2. FrozenStep(r, q)
        BY <1>1, <2>1, <4>1, DidFrozen
      <4>3. OldestStep(r, q)
        BY <1>1, <2>2, SameLiensOldest DEF KeepsLiens
      <4>4. QED BY <2>3, <3>1, <4>2, <4>3
    <3>2. CASE v # u
      BY <1>2, <2>3, <3>2, UntouchedRow
    <3>3. QED BY <3>1, <3>2
  <2>6. QED BY <2>4, <2>5
<1>5. QED
  BY <1>3, <1>4
-----------------------------------------------------------------------------
(* The concurrent ledger.  A session that sweeps is somewhere along the    *)
(* atomic sweep: its copies are what the atomic ledger has after the k     *)
(* oldest liens, starting from the committed rows under its locks, and it  *)
(* remembers the open liens after the k-th.                                *)

Asked(o) ==
    \/ o.kind = "place" /\ o.user \in Retailers /\ o.amt \in LienAmounts /\ o.book = "PRIMARY"
    \/ \E m \in Movements : /\ o.kind = m.kind /\ o.user = m.user /\ o.book = m.book
                            /\ o.amt = m.amt /\ o.key = m.key

Base(s) == [row EXCEPT ![op[s].user] = Applied(op[s], row[op[s].user])]

Reached(base, u, k, ru, rs, held) ==
    /\ k \in 0..Len(base[u].liens)
    /\ ru = SweepTo(base, u)[k][u]
    /\ rs = SweepTo(base, u)[k][Suspense]
    /\ held \/ k = 0

Along(s, k) ==
    Reached(Base(s), op[s].user, k, work[s][op[s].user], View(s, Suspense), Mine(s, Suspense))

Open(r, k) == {x \in ActiveLiens(r) : x.i > k}

(* By the point the session has reached. *)
Sweeping(s) == \E k \in Nat : Along(s, k) /\ seen[s] = Open(work[s][op[s].user], k)

Rests(s) ==
    \E k \in Nat : /\ Along(s, k)
                   /\ Rested(work[s][op[s].user], k, Len(work[s][op[s].user].liens))

Moves(s) ==
    /\ Did(op[s], row[op[s].user], work[s][op[s].user])
    /\ \A a \in Accounts : Mine(s, a) => a = op[s].user

Busy == {"sweep", "take", "commit"}

OnCourse(s) ==
    /\ op[s].kind \in Funds \cup {"place", "none"}
    /\ pc[s] \notin {"read", "debitSuspense", "lockSuspense", "creditUser", "lockUser", "close"}
    /\ pc[s] # "idle" => Asked(op[s])
    /\ pc[s] \in Busy => Mine(s, op[s].user)
    /\ \A a \in Accounts : Mine(s, a) => pc[s] \in Busy /\ a \in {op[s].user, Suspense}
    /\ pc[s] \in {"sweep", "take"} => Sweeps(op[s])

Path(s) ==
    /\ OnCourse(s)
    /\ pc[s] = "sweep" => Along(s, 0)
    /\ pc[s] = "take" => Sweeping(s)
    /\ pc[s] = "commit" => IF Sweeps(op[s]) THEN Rests(s) ELSE Moves(s)

AtomicInv == TableOK(row) /\ \A s \in Sessions : Path(s)

LEMMA AskedFacts ==
    ASSUME NEW o, Asked(o)
    PROVE  /\ o.amt > 0 /\ o.amt \in Nat /\ o.kind \in Funds \cup {"place"}
           /\ Sweeps(o) => o.book = "PRIMARY"
<1>1. CASE o.kind = "place" /\ o.user \in Retailers /\ o.amt \in LienAmounts /\ o.book = "PRIMARY"
  <2>1. o.amt \in Nat \ {0}
    BY <1>1, LienAmountsAssumption
  <2>2. QED BY <1>1, <2>1
<1>2. ASSUME NEW m \in Movements, o.kind = m.kind, o.user = m.user, o.book = m.book,
             o.amt = m.amt, o.key = m.key
      PROVE  /\ o.amt > 0 /\ o.amt \in Nat /\ o.kind \in Funds \cup {"place"}
             /\ Sweeps(o) => o.book = "PRIMARY"
  <2>1. m.kind \in Funds /\ m.amt \in Nat \ {0}
    BY MovementsAssumption
  <2>2. m.kind # "place"
    BY <2>1 DEF Funds
  <2>3. QED BY <1>2, <2>1, <2>2 DEF Sweeps
<1>3. QED
  BY <1>1, <1>2 DEF Asked

(* base is the table the sweep of o starts from, g the tables it goes through. *)
StartsAt(rows, o, base, u, n, g) ==
    /\ u = o.user /\ base = [rows EXCEPT ![u] = Applied(o, rows[u])]
    /\ n = Len(base[u].liens) /\ g = SweepTo(base, u)

Based(rows, o, base, u, n, g) ==
    /\ u \in Retailers /\ u \in Accounts /\ u # Suspense /\ Suspense \in Accounts
    /\ TableOK(base) /\ base[u] = Applied(o, rows[u])
    /\ \A a \in Accounts \ {u} : base[a] = rows[a]
    /\ n \in Nat /\ g[0] = base
    /\ \A k \in 0..n : SweptSo(base, u, k, g[k])

LEMMA BaseFacts ==
    ASSUME NEW rows, TableOK(rows), NEW o \in Ops, Sweeps(o), o.amt > 0,
           NEW base, NEW u, NEW n, NEW g, StartsAt(rows, o, base, u, n, g)
    PROVE  Based(rows, o, base, u, n, g)
<1>1. u = o.user
  BY DEF StartsAt
<1>2. /\ o.user \in Retailers /\ TableOK(base) /\ base[o.user] = Applied(o, rows[o.user])
      /\ \A a \in Accounts \ {o.user} : base[a] = rows[a]
  <2>1. base = [rows EXCEPT ![o.user] = Applied(o, rows[o.user])]
    BY <1>1 DEF StartsAt
  <2>2. o.user \in Retailers /\ base[o.user] = Applied(o, rows[o.user])
    BY ZenonT(30), <2>1, AppliedKeeps
  <2>3. TableOK(base)
    BY <2>1, AppliedKeeps
  <2>4. \A a \in Accounts \ {o.user} : base[a] = rows[a]
    BY <2>1, AppliedKeeps
  <2>5. QED BY <2>2, <2>3, <2>4
<1>3. u \in Retailers /\ n = Len(base[u].liens) /\ g = SweepTo(base, u) /\ TableOK(base)
  BY <1>1, <1>2 DEF StartsAt
<1>4. n \in Nat /\ \A k \in 0..n : SweptSo(base, u, k, g[k])
  BY <1>3, SweepSound
<1>5. SweepRun(base, u, n, g)
  BY <1>3, <1>4, SweepSteps
<1>6. g[0] = base
  BY <1>5 DEF SweepRun
<1>7. QED
  BY <1>1, <1>2, <1>3, <1>4, <1>6 DEF Based, Accounts

(* The sweep reads two rows: it goes on as it did if they stay. *)
SameSweep(u, n, g, h) ==
    \A k \in 0..n : h[k][u] = g[k][u] /\ h[k][Suspense] = g[k][Suspense]

LEMMA SweepSame ==
    ASSUME NEW base, TableOK(base), NEW base2, TableOK(base2), NEW u \in Retailers,
           base2[u] = base[u], base2[Suspense] = base[Suspense],
           NEW n, n = Len(base[u].liens), NEW g, g = SweepTo(base, u), NEW h, h = SweepTo(base2, u)
    PROVE  SameSweep(u, n, g, h)
<1>1. \A k \in 0..n : h[k][u] = g[k][u] /\ h[k][Suspense] = g[k][Suspense]
  BY SweepLocal
<1>2. QED
  BY <1>1 DEF SameSweep

LEMMA ReachedStays ==
    ASSUME NEW rows, TableOK(rows), NEW rows2, TableOK(rows2), NEW o \in Ops, Sweeps(o), o.amt > 0,
           NEW base, NEW u, NEW n, NEW g, StartsAt(rows, o, base, u, n, g),
           NEW base2, NEW n2, NEW h, StartsAt(rows2, o, base2, u, n2, h),
           rows2[u] = rows[u], NEW k, NEW ru, NEW rs, NEW rs2, NEW held,
           held => rs2 = rs /\ rows2[Suspense] = rows[Suspense],
           ~held => rs2 = rows2[Suspense],
           Reached(base, u, k, ru, rs, held)
    PROVE  Reached(base2, u, k, ru, rs2, held)
<1>1. Based(rows, o, base, u, n, g) /\ Based(rows2, o, base2, u, n2, h)
  <2>1. Based(rows, o, base, u, n, g)
    BY BaseFacts
  <2>2. Based(rows2, o, base2, u, n2, h)
    BY BaseFacts
  <2>3. QED BY <2>1, <2>2
<1>2. /\ u \in Retailers /\ u \in Accounts /\ u # Suspense /\ Suspense \in Accounts
      /\ TableOK(base) /\ base[u] = Applied(o, rows[u]) /\ g[0] = base
      /\ TableOK(base2) /\ base2[u] = Applied(o, rows2[u]) /\ h[0] = base2
      /\ base[Suspense] = rows[Suspense] /\ base2[Suspense] = rows2[Suspense]
  BY <1>1 DEF Based
<1>3. /\ n = Len(base[u].liens) /\ g = SweepTo(base, u)
      /\ n2 = Len(base2[u].liens) /\ h = SweepTo(base2, u)
  BY DEF StartsAt
<1>4. base2[u] = base[u] /\ k \in 0..n /\ ru = g[k][u] /\ rs = g[k][Suspense] /\ (held \/ k = 0)
  BY <1>2, <1>3 DEF Reached
<1>5. n2 = n
  BY <1>3, <1>4
<1>6. h[k][u] = ru /\ h[k][Suspense] = rs2
  <2>1. CASE held
    <3>1. base2[Suspense] = base[Suspense] /\ rs2 = rs
      BY <1>2, <2>1
    <3>2. SameSweep(u, n, g, h)
      BY <1>2, <1>3, <1>4, <3>1, SweepSame
    <3>3. h[k][u] = g[k][u] /\ h[k][Suspense] = g[k][Suspense]
      BY <1>4, <3>2 DEF SameSweep
    <3>4. QED BY <1>4, <3>1, <3>3
  <2>2. CASE ~held
    <3>1. k = 0
      BY <1>4, <2>2
    <3>2. rs2 = base2[Suspense]
      BY <1>2, <2>2
    <3>3. QED BY <1>2, <1>4, <3>1, <3>2
  <2>3. QED BY <2>1, <2>2
<1>7. QED
  BY <1>3, <1>4, <1>5, <1>6 DEF Reached

LEMMA AlongStays ==
    ASSUME TableOK(row), NEW rows2, rows2 = row', TableOK(rows2), NEW t \in Sessions, op[t] \in Ops,
           op[t].amt > 0, Sweeps(op[t]), Mine(t, op[t].user), op[t].user \in Accounts, Apart(t),
           NEW k, Along(t, k)
    PROVE  Along(t, k)'
<1> DEFINE o == op[t]
           u == o.user
           ru == work[t][u]
           rs == View(t, Suspense)
           rs2 == IF Mine(t, Suspense) THEN rs ELSE rows2[Suspense]
           held == Mine(t, Suspense)
           base == [row EXCEPT ![u] = Applied(o, row[u])]
           base2 == [rows2 EXCEPT ![u] = Applied(o, rows2[u])]
<1>1. /\ op'[t] = o /\ work'[t] = work[t] /\ rows2[u] = row[u] /\ Suspense \in Accounts
      /\ (Mine(t, Suspense)' <=> held)
      /\ held => rows2[Suspense] = row[Suspense]
  BY DEF Apart, Mine, Accounts
<1>2. View(t, Suspense)' = rs2
  BY <1>1 DEF View, Mine
<1>3. Reached(base, u, k, ru, rs, held)
  BY DEF Along, Base
<1>4. Along(t, k)' <=> Reached(base2, u, k, ru, rs2, Mine(t, Suspense)')
  BY <1>1, <1>2 DEF Along, Base
<1>5. \E n, g : StartsAt(row, o, base, u, n, g)
  BY DEF StartsAt
<1>6. \E n, g : StartsAt(rows2, o, base2, u, n, g)
  BY DEF StartsAt
<1>7. (held => rs2 = rs) /\ (~held => rs2 = rows2[Suspense])
  OBVIOUS
<1>8. o \in Ops /\ Sweeps(o) /\ o.amt > 0
  OBVIOUS
<1> HIDE DEF o, u, ru, rs, rs2, held, base, base2
<1>9. Reached(base2, u, k, ru, rs2, held)
  BY <1>1, <1>3, <1>5, <1>6, <1>7, <1>8, ReachedStays
<1>10. QED
  BY <1>1, <1>4, <1>9 DEF Reached

(* The steps of others leave a session where it is. *)
LEMMA OthersOnPath ==
    ASSUME TypeOK, TableOK(row), NEW rows2, rows2 = row', TableOK(rows2),
           NEW t \in Sessions, Apart(t), Path(t)
    PROVE  Path(t)'
<1>1. /\ op'[t] = op[t] /\ pc'[t] = pc[t] /\ seen'[t] = seen[t] /\ work'[t] = work[t]
      /\ \A a \in Accounts : Mine(t, a)' <=> Mine(t, a)
      /\ \A a \in Accounts : Mine(t, a) => row'[a] = row[a]
  BY DEF Apart, Mine
<1>2. op[t] \in Ops /\ op[t].user \in Accounts
  BY TypeOKGives, OpFields
<1>3. OnCourse(t)
  BY DEF Path
<1>4. OnCourse(t)'
  BY <1>1, <1>2, <1>3 DEF OnCourse
<1>5. ASSUME pc[t] \in Busy, Sweeps(op[t]), NEW k, Along(t, k)
      PROVE  Along(t, k)'
  <2>1. Mine(t, op[t].user) /\ pc[t] # "idle" /\ Asked(op[t])
    BY <1>3, <1>5 DEF OnCourse, Busy
  <2>2. op[t].amt > 0
    BY <2>1, AskedFacts
  <2>3. QED
    BY <1>2, <1>5, <2>1, <2>2, AlongStays
<1>6. ASSUME pc[t] = "sweep"
      PROVE  Along(t, 0)'
  BY <1>3, <1>5, <1>6 DEF Path, OnCourse, Busy
<1>7. ASSUME pc[t] = "take"
      PROVE  Sweeping(t)'
  <2>1. pc[t] \in Busy /\ Sweeps(op[t]) /\ Sweeping(t)
    BY <1>3, <1>7 DEF Path, OnCourse, Busy
  <2>2. PICK k \in Nat : Along(t, k) /\ seen[t] = Open(work[t][op[t].user], k)
    BY <2>1 DEF Sweeping
  <2>3. Along(t, k)'
    BY <1>5, <2>1, <2>2
  <2>4. (seen[t] = Open(work[t][op[t].user], k))'
    BY <1>1, <2>2
  <2>5. QED BY <2>3, <2>4 DEF Sweeping
<1>8. ASSUME pc[t] = "commit", Sweeps(op[t])
      PROVE  Rests(t)'
  <2>1. pc[t] \in Busy /\ Rests(t)
    BY <1>8 DEF Path, Busy
  <2>2. PICK k \in Nat : /\ Along(t, k)
                         /\ Rested(work[t][op[t].user], k, Len(work[t][op[t].user].liens))
    BY <2>1 DEF Rests
  <2>3. Along(t, k)'
    BY <1>5, <1>8, <2>1, <2>2
  <2>4. Rested(work[t][op[t].user], k, Len(work[t][op[t].user].liens))'
    BY <1>1, <2>2
  <2>5. QED BY <2>3, <2>4 DEF Rests
<1>9. ASSUME pc[t] = "commit", ~Sweeps(op[t])
      PROVE  Moves(t)'
  <2>1. Moves(t) /\ Mine(t, op[t].user)
    BY <1>3, <1>9 DEF Path, OnCourse, Busy
  <2>2. QED
    BY <1>1, <1>2, <2>1 DEF Moves
<1>10. QED
  BY <1>1, <1>4, <1>6, <1>7, <1>8, <1>9 DEF Path

-----------------------------------------------------------------------------
(* A session's own steps keep it on its path. *)

LEMMA EndOnPath ==
    ASSUME TypeOK, NEW s \in Sessions, End(s)
    PROVE  Path(s)'
<1>1. /\ pc'[s] = "idle" /\ op'[s] = NoOp
      /\ \A a \in Accounts : lock'[a] # s
  BY TypeOKGives DEF End, Mine
<1>2. OnCourse(s)'
  BY <1>1 DEF OnCourse, Busy, NoOp, Mine
<1>3. QED
  BY <1>1, <1>2 DEF Path

LEMMA RollbackOnPath == ASSUME TypeOK, NEW s \in Sessions, Rollback(s) PROVE Path(s)'
  BY EndOnPath DEF Rollback

LEMMA StartOnPath ==
    ASSUME TypeOK, NEW s \in Sessions, Path(s), NEW o, Asked(o), NEW at \in {"check", "lock"},
           Start(s, o, at)
    PROVE  Path(s)'
<1>1. /\ pc[s] = "idle" /\ pc'[s] = at /\ op'[s] = o /\ lock' = lock
  BY TypeOKGives DEF Start
<1>2. \A a \in Accounts : ~Mine(s, a)
  BY <1>1 DEF Path, OnCourse, Busy
<1>3. o.kind \in Funds \cup {"place"}
  BY AskedFacts
<1>4. OnCourse(s)'
  BY <1>1, <1>2, <1>3 DEF OnCourse, Busy, Mine
<1>5. QED
  BY <1>1, <1>4 DEF Path

LEMMA ArriveOnPath ==
    ASSUME TypeOK, DeskOps \subseteq {"place"}, NEW s \in Sessions, Path(s), Arrive(s)
    PROVE  Path(s)'
<1>1. ASSUME NEW m \in Movements, Request(s, m)
      PROVE  Path(s)'
  <2> DEFINE o == [kind |-> m.kind, user |-> m.user, book |-> m.book, amt |-> m.amt,
                   key |-> m.key, ref |-> 0]
             at == IF m.key = Null THEN "lock" ELSE "check"
  <2>1. Start(s, o, at) /\ at \in {"check", "lock"}
    BY <1>1 DEF Request
  <2>2. Asked(o)
    BY DEF Asked
  <2> HIDE DEF o, at
  <2>3. QED BY <2>1, <2>2, StartOnPath
<1>2. ASSUME NEW k \in DeskOps, NEW u \in Retailers, NEW i \in 1..MaxLiens,
             NEW amt \in LienAmounts \cup {0}, DeskRequest(s, k, u, i, amt)
      PROVE  Path(s)'
  <2> DEFINE o == [kind |-> k, user |-> u, book |-> "PRIMARY", amt |-> amt, key |-> Null, ref |-> i]
  <2>1. k = "place"
    OBVIOUS
  <2>2. Start(s, o, "lock") /\ amt \in LienAmounts
    BY <1>2, <2>1 DEF DeskRequest
  <2>3. Asked(o)
    BY <2>1, <2>2 DEF Asked
  <2> HIDE DEF o
  <2>4. QED BY <2>2, <2>3, StartOnPath
<1>3. QED
  BY <1>1, <1>2 DEF Arrive

LEMMA CheckOnPath ==
    ASSUME TypeOK, NEW s \in Sessions, Path(s), CheckKey(s)
    PROVE  Path(s)'
<1>1. CASE op[s].key \in UsedKeys
  BY <1>1, RollbackOnPath DEF CheckKey
<1>2. CASE op[s].key \notin UsedKeys
  <2>1. /\ pc[s] = "check" /\ pc'[s] = "lock" /\ op' = op /\ lock' = lock
    BY <1>2, TypeOKGives DEF CheckKey
  <2>2. OnCourse(s)'
    BY <2>1 DEF Path, OnCourse, Busy, Mine
  <2>3. QED BY <2>1, <2>2 DEF Path
<1>3. QED
  BY <1>1, <1>2

(* The first write of a transaction. *)
Written(s, u, q, next) ==
    /\ OnCourse(s)' /\ pc'[s] = next /\ op'[s] = op[s] /\ row' = row
    /\ work'[s][u] = q /\ u \in Accounts
    /\ \A a \in Accounts : Mine(s, a)' <=> a = u

LEMMA FirstWrite ==
    ASSUME TypeOK, NEW s \in Sessions, Path(s), pc[s] = "lock", NEW q, NEW next \in {"sweep", "commit"},
           NEW u, u = op[s].user, Write(s, u, q, next), next = "sweep" => Sweeps(op[s])
    PROVE  Written(s, u, q, next)
<1>1. u \in Accounts /\ op[s] \in Ops
  BY TypeOKGives, OpFields
<1>2. /\ pc'[s] = next /\ op' = op /\ row' = row /\ lock' = [lock EXCEPT ![u] = s]
      /\ work'[s][u] = q
  BY <1>1, TypeOKGives DEF Write
<1>3. \A a \in Accounts : ~Mine(s, a)
  BY DEF Path, OnCourse, Busy
<1>4. \A a \in Accounts : Mine(s, a)' <=> a = u
  BY <1>1, <1>2, <1>3, TypeOKGives DEF Mine
<1>5. OnCourse(s)'
  BY <1>1, <1>2, <1>4 DEF Path, OnCourse, Busy
<1>6. QED
  BY <1>1, <1>2, <1>4, <1>5 DEF Written

LEMMA MovesOnPath ==
    ASSUME TypeOK, NEW s \in Sessions, Path(s), pc[s] = "lock", NEW q,
           Write(s, op[s].user, q, "commit"), ~Sweeps(op[s]), Did(op[s], row[op[s].user], q)
    PROVE  Path(s)'
<1>1. /\ OnCourse(s)' /\ pc'[s] = "commit" /\ op'[s] = op[s] /\ row' = row
      /\ work'[s][op[s].user] = q
      /\ \A a \in Accounts : Mine(s, a)' <=> a = op[s].user
  <2>1. Written(s, op[s].user, q, "commit")
    BY FirstWrite
  <2>2. QED BY <2>1 DEF Written
<1>2. Moves(s)'
  BY <1>1 DEF Moves
<1>3. QED
  BY <1>1, <1>2 DEF Path

(* The write before a sweep. *)
LEMMA AppliedOnPath ==
    ASSUME TypeOK, TableOK(row), NEW s \in Sessions, Path(s), pc[s] = "lock",
           Sweeps(op[s]), NEW next \in {"sweep", "commit"}, NEW q, q = Applied(op[s], row[op[s].user]),
           Write(s, op[s].user, q, next), next = "commit" => Rested(q, 0, Len(q.liens))
    PROVE  Path(s)'
<1> DEFINE o == op[s]
           u == op[s].user
           base == [row EXCEPT ![u] = Applied(o, row[u])]
           n == Len(base[u].liens)
           g == SweepTo(base, u)
<1>1. /\ OnCourse(s)' /\ pc'[s] = next /\ op'[s] = o /\ row' = row
      /\ work'[s][u] = q /\ u \in Accounts
      /\ \A a \in Accounts : Mine(s, a)' <=> a = u
  <2>1. Written(s, op[s].user, q, next)
    BY FirstWrite
  <2>2. QED BY <2>1 DEF Written
<1>2. o \in Ops /\ o.amt > 0 /\ Sweeps(o) /\ q = Applied(o, row[u])
  BY TypeOKGives, AskedFacts DEF Path, OnCourse
<1>3. StartsAt(row, o, base, u, n, g)
  BY DEF StartsAt
<1>0. Base(s)' = base /\ op'[s].user = u
  BY <1>1 DEF Base
<1> HIDE DEF o, u, base, n, g
<1>4. Based(row, o, base, u, n, g)
  BY <1>2, <1>3, BaseFacts
<1>5. Reached(base, u, 0, q, row[Suspense], FALSE)
  <2>1. n = Len(base[u].liens) /\ g = SweepTo(base, u)
    BY <1>3 DEF StartsAt
  <2>2. n \in Nat /\ g[0] = base /\ base[u] = q /\ base[Suspense] = row[Suspense]
    BY <1>2, <1>4 DEF Based
  <2>3. 0 \in 0..n
    BY <2>2
  <2>4. QED BY <2>1, <2>2, <2>3 DEF Reached
<1>6. ~Mine(s, Suspense)' /\ View(s, Suspense)' = row[Suspense]
  BY <1>1, <1>4 DEF Based, View
<1>7. Along(s, 0)' <=> Reached(base, u, 0, q, row[Suspense], Mine(s, Suspense)')
  BY <1>0, <1>1, <1>6 DEF Along
<1>8. Along(s, 0)'
  BY <1>5, <1>6, <1>7 DEF Reached
<1>9. CASE next = "sweep"
  BY <1>1, <1>8, <1>9 DEF Path
<1>10. CASE next = "commit"
  <2>1. Rested(work'[s][op'[s].user], 0, Len(work'[s][op'[s].user].liens))
    BY <1>0, <1>1, <1>10
  <2>2. Rests(s)'
    BY <1>8, <2>1 DEF Rests
  <2>3. QED BY <1>1, <1>2, <1>10, <2>2 DEF Path
<1>11. QED
  BY <1>9, <1>10

LEMMA SuspenseFree ==
    ASSUME TableOK(row)
    PROVE  row[Suspense].lien = 0
<1>1. RowOK(row[Suspense]) /\ row[Suspense].liens = <<>>
  BY DEF TableOK, Accounts
<1> DEFINE ls == row[Suspense].liens
<1>2. ls \in Seq(Lien) /\ Len(ls) = 0
  BY <1>1, RowOKFacts
<1>3. OwedOf(ls) = 0
  <2> HIDE DEF ls
  <2>1. \A i \in 1..Len(ls) : ls[i].status # "ACTIVE"
    BY <1>2
  <2>2. QED BY <1>2, <2>1, NothingOwed
<1>4. QED
  BY <1>1, <1>3 DEF RowOK

LEMMA PostLiens ==
    ASSUME NEW r, NEW b, NEW d, NEW key, NEW reason, NEW ref
    PROVE  Post(r, b, d, key, reason, ref).liens = r.liens
BY DEF Post, Booked

LEMMA CreditOnPath ==
    ASSUME Safe, TableOK(row), NEW s \in Sessions, Path(s), CreditWallet(s)
    PROVE  Path(s)'
<1> DEFINE o == op[s]
           r == row[o.user]
           q == Post(r, o.book, o.amt, o.key, "MOVE", Null)
           next == IF o.book = "PRIMARY" /\ r.lien > 0 THEN "sweep" ELSE "commit"
<1>1. TypeOK /\ o \in Ops /\ o.user \in Accounts /\ RowOK(r)
  BY TypeOKGives, OpFields DEF Safe, TableOK
<1>2. pc[s] = "lock" /\ o.kind = "credit" /\ Write(s, o.user, q, next)
  BY DEF CreditWallet, At
<1>3. CASE Sweeps(o)
  <2>1. q = Applied(o, r) /\ o.book = "PRIMARY"
    BY <1>2, <1>3 DEF Applied, Sweeps
  <2>2. ASSUME next = "commit"
        PROVE  Rested(q, 0, Len(q.liens))
    <3>1. ~(r.lien > 0)
      BY <2>1, <2>2
    <3>2. q.liens = r.liens
      BY PostLiens
    <3>3. \A j \in 1..Len(r.liens) : r.liens[j].status # "ACTIVE"
      BY <1>1, <3>1, RowOKFacts
    <3>4. 0 + 1 = 1
      OBVIOUS
    <3>5. \A j \in (0 + 1)..Len(q.liens) : q.liens[j].status # "ACTIVE"
      BY <3>2, <3>3, <3>4, Zenon
    <3>6. QED BY <3>5, Zenon DEF Rested
  <2>3. next \in {"sweep", "commit"}
    OBVIOUS
  <2> HIDE DEF q, next
  <2>4. QED
    BY <1>1, <1>2, <1>3, <2>1, <2>2, <2>3, AppliedOnPath
<1>4. CASE ~Sweeps(o)
  <2>1. next = "commit"
    <3>1. CASE o.book # "PRIMARY"
      BY <3>1
    <3>2. CASE o.book = "PRIMARY"
      <4>1. o.user = Suspense
        BY <1>2, <1>4, <3>2 DEF Sweeps
      <4>2. r.lien = 0
        BY <4>1, SuspenseFree
      <4>3. QED BY <4>2
    <3>3. QED BY <3>1, <3>2
  <2>2. Did(o, r, q)
    BY <1>2 DEF Did
  <2> HIDE DEF q, next
  <2>3. QED
    BY <1>1, <1>2, <1>4, <2>1, <2>2, MovesOnPath
<1>5. QED
  BY <1>3, <1>4

LEMMA DebitOnPath ==
    ASSUME Safe, NEW s \in Sessions, Path(s),
           DebitWallet(s) \/ HoldFunds(s) \/ ReleaseHold(s) \/ CaptureHold(s)
    PROVE  Path(s)'
<1> DEFINE o == op[s]
           r == row[o.user]
<1>1. TypeOK
  BY DEF Safe
<1>2. ASSUME NEW q, pc[s] = "lock", o.kind \in {"debit", "hold", "unhold", "capture"},
             Did(o, r, q), Write(s, o.user, q, "commit")
      PROVE  Path(s)'
  <2>1. ~Sweeps(o)
    BY <1>2 DEF Sweeps
  <2>2. QED BY <1>1, <1>2, <2>1, MovesOnPath
<1>3. CASE Rollback(s)
  BY <1>1, <1>3, RollbackOnPath
<1>4. CASE DebitWallet(s) /\ ~Rollback(s)
  <2>1. /\ pc[s] = "lock" /\ o.kind = "debit" /\ CanDebit(r, o.book, o.amt)
        /\ Write(s, o.user, Post(r, o.book, -o.amt, o.key, "MOVE", Null), "commit")
    BY <1>4 DEF DebitWallet, At
  <2>2. Did(o, r, Post(r, o.book, -o.amt, o.key, "MOVE", Null))
    BY <2>1 DEF Did
  <2>3. QED BY <1>2, <2>1, <2>2
<1>5. CASE HoldFunds(s) /\ ~Rollback(s)
  <2>1. /\ pc[s] = "lock" /\ o.kind = "hold" /\ o.amt <= Spendable(r)
        /\ Write(s, o.user, Hold(r, o.amt), "commit")
    BY <1>5 DEF HoldFunds, At
  <2>2. Did(o, r, Hold(r, o.amt))
    BY <2>1 DEF Did
  <2>3. QED BY <1>2, <2>1, <2>2
<1>6. CASE ReleaseHold(s) /\ ~Rollback(s)
  <2>1. /\ pc[s] = "lock" /\ o.kind = "unhold" /\ o.amt <= r.held
        /\ Write(s, o.user, Unhold(r, o.amt), "commit")
    BY <1>6 DEF ReleaseHold, At
  <2>2. Did(o, r, Unhold(r, o.amt))
    BY <2>1 DEF Did
  <2>3. QED BY <1>2, <2>1, <2>2
<1>7. CASE CaptureHold(s) /\ ~Rollback(s)
  <2>1. /\ pc[s] = "lock" /\ o.kind = "capture" /\ o.amt <= r.held
        /\ Write(s, o.user, Capture(r, o.amt, o.key), "commit")
    BY <1>7 DEF CaptureHold, At
  <2>2. Did(o, r, Capture(r, o.amt, o.key))
    BY <2>1 DEF Did
  <2>3. QED BY <1>2, <2>1, <2>2
<1>8. QED
  BY <1>3, <1>4, <1>5, <1>6, <1>7

LEMMA PlaceOnPath ==
    ASSUME Safe, TableOK(row), NEW s \in Sessions, Path(s), PlaceWalletLien(s)
    PROVE  Path(s)'
<1> DEFINE o == op[s]
           q == PlaceLien(row[o.user], o.amt)
<1>1. TypeOK
  BY DEF Safe
<1>2. pc[s] = "lock" /\ o.kind = "place" /\ Write(s, o.user, q, "sweep")
  BY DEF PlaceWalletLien, At
<1>3. Sweeps(o)
  BY <1>2 DEF Safe, ControlOK, Sweeps, LienDesk
<1>4. q = Applied(o, row[o.user])
  BY <1>2 DEF Applied
<1> HIDE DEF q
<1>5. QED
  BY <1>1, <1>2, <1>3, <1>4, AppliedOnPath

(* What a session along the sweep has in hand. *)
OnSweep(s, u, k, base, n, g) ==
    /\ StartsAt(row, op[s], base, u, n, g) /\ Based(row, op[s], base, u, n, g)
    /\ k \in 0..n /\ SweptSo(base, u, k, g[k]) /\ TableOK(g[k])
    /\ work[s][u] = g[k][u] /\ View(s, Suspense) = g[k][Suspense]
    /\ RowOK(work[s][u]) /\ Len(work[s][u].liens) = n

LEMMA AlongFacts ==
    ASSUME TypeOK, TableOK(row), NEW s \in Sessions, Asked(op[s]), Sweeps(op[s]),
           NEW u, u = op[s].user, NEW k, Along(s, k)
    PROVE  \E base, n, g : OnSweep(s, u, k, base, n, g)
<1> DEFINE o == op[s]
           base == [row EXCEPT ![u] = Applied(o, row[u])]
           n == Len(base[u].liens)
           g == SweepTo(base, u)
<1>1. o \in Ops /\ o.amt > 0
  BY TypeOKGives, AskedFacts
<1>2. StartsAt(row, o, base, u, n, g)
  BY DEF StartsAt
<1>3. Reached(base, u, k, work[s][u], View(s, Suspense), Mine(s, Suspense))
  BY DEF Along, Base
<1> HIDE DEF base, n, g
<1>4. Based(row, o, base, u, n, g)
  BY <1>1, <1>2, BaseFacts
<1>5. k \in 0..n /\ work[s][u] = g[k][u] /\ View(s, Suspense) = g[k][Suspense]
  BY <1>2, <1>3 DEF Reached, StartsAt
<1>6. SweptSo(base, u, k, g[k])
  BY <1>4, <1>5 DEF Based
<1>7. TableOK(g[k]) /\ Len(g[k][u].liens) = n /\ RowOK(g[k][u])
  BY <1>2, <1>4, <1>6 DEF SweptSo, StartsAt, TableOK, Based
<1>8. QED
  BY <1>2, <1>4, <1>5, <1>6, <1>7 DEF OnSweep

(* Row and copies are as they were: the session is where it was. *)
LEMMA SameAlong ==
    ASSUME NEW s \in Sessions, NEW k, Along(s, k),
           row' = row, lock' = lock, work' = work, op' = op
    PROVE  Along(s, k)'
<1>1. Base(s)' = Base(s) /\ View(s, Suspense)' = View(s, Suspense)
      /\ (Mine(s, Suspense)' <=> Mine(s, Suspense))
  BY DEF Base, View, Mine
<1>2. QED
  BY <1>1 DEF Along, Reached

(* No active lien after the k-th: nothing to read. *)
LEMMA OpenFacts ==
    ASSUME NEW r, RowOK(r), NEW k \in Nat
    PROVE  /\ Open(r, k) = {} => Rested(r, k, Len(r.liens))
           /\ Open(r, 0) = ActiveLiens(r)
           /\ \A j \in 1..Len(r.liens) :
                j > k /\ r.liens[j].status = "ACTIVE" => [i |-> j, lien |-> r.liens[j]] \in Open(r, k)
           /\ \A x \in Open(r, k) : /\ x.i \in 1..Len(r.liens) /\ x.i > k
                                    /\ x.lien = r.liens[x.i] /\ x.lien.status = "ACTIVE"
                                    /\ x = [i |-> x.i, lien |-> r.liens[x.i]]
<1>1. \A j \in 1..Len(r.liens) :
         j > k /\ r.liens[j].status = "ACTIVE" => [i |-> j, lien |-> r.liens[j]] \in Open(r, k)
  <2>1. SUFFICES ASSUME NEW j \in 1..Len(r.liens), j > k, r.liens[j].status = "ACTIVE"
                 PROVE  [i |-> j, lien |-> r.liens[j]] \in Open(r, k)
    OBVIOUS
  <2>2. Outstanding(r.liens[j]) > 0
    BY <2>1, RowOKFacts
  <2>3. QED BY <2>1, <2>2 DEF Open, ActiveLiens
<1>2. \A x \in Open(r, k) : /\ x.i \in 1..Len(r.liens) /\ x.i > k
                            /\ x.lien = r.liens[x.i] /\ x.lien.status = "ACTIVE"
                            /\ x = [i |-> x.i, lien |-> r.liens[x.i]]
  BY DEF Open, ActiveLiens
<1>3. Open(r, 0) = ActiveLiens(r)
  BY DEF Open, ActiveLiens
<1>4. ASSUME Open(r, k) = {}
      PROVE  Rested(r, k, Len(r.liens))
  <2>1. \A j \in (k + 1)..Len(r.liens) : j \in 1..Len(r.liens) /\ j > k
    <3>1. Len(r.liens) \in Nat
      <4>1. \A t \in Seq(Lien) : Len(t) \in Nat
        OBVIOUS
      <4>2. QED BY <4>1, RowOKFacts
    <3>2. QED BY <3>1
  <2>2. \A j \in (k + 1)..Len(r.liens) : r.liens[j].status # "ACTIVE"
    BY <1>1, <1>4, <2>1
  <2>3. QED BY <2>2 DEF Rested
<1>5. QED
  BY <1>1, <1>2, <1>3, <1>4

LEMMA ReadOnPath ==
    ASSUME Safe, TableOK(row), NEW s \in Sessions, Path(s), ReadLiens(s)
    PROVE  Path(s)'
<1> DEFINE u == op[s].user
           active == ActiveLiens(View(s, u))
<1>1. /\ TypeOK /\ pc[s] = "sweep" /\ Along(s, 0) /\ Sweeps(op[s]) /\ Asked(op[s]) /\ Mine(s, u)
      /\ OnCourse(s)
  BY DEF Safe, Path, OnCourse, Busy, ReadLiens
<1>2. View(s, u) = work[s][u]
  BY <1>1 DEF View
<1>3. \E base, n, g : OnSweep(s, u, 0, base, n, g)
  BY <1>1, AlongFacts
<1>4. RowOK(work[s][u]) /\ u # Suspense
  BY <1>3 DEF OnSweep, Based
<1>5. AfterSweep(s) = "commit"
  BY <1>1 DEF AfterSweep, OnCourse, Funds
<1>6. row' = row /\ lock' = lock /\ work' = work /\ op' = op
  BY DEF ReadLiens, Continue
<1>7. Along(s, 0)'
  BY <1>1, <1>6, SameAlong
<1>8. CASE active = {}
  <2>1. pc'[s] = "commit"
    BY <1>1, <1>5, <1>8, TypeOKGives DEF ReadLiens, Continue
  <2>2. OnCourse(s)'
    BY <1>1, <1>6, <2>1 DEF OnCourse, Busy, Mine
  <2>3. Rested(work[s][u], 0, Len(work[s][u].liens))
    BY <1>2, <1>4, <1>8, OpenFacts
  <2>4. Rested(work[s][u], 0, Len(work[s][u].liens))'
    BY <1>6, <2>3
  <2>5. Rests(s)'
    BY <1>7, <2>4 DEF Rests
  <2>6. QED BY <1>1, <1>6, <2>1, <2>2, <2>5 DEF Path
<1>9. CASE active # {}
  <2>1. pc'[s] = "take" /\ seen'[s] = active
    BY <1>4, <1>9, TypeOKGives, <1>1 DEF ReadLiens, Continue
  <2>2. OnCourse(s)'
    BY <1>1, <1>6, <2>1 DEF OnCourse, Busy, Mine
  <2>3. seen'[s] = Open(work[s][u], 0)
    BY <1>2, <1>4, <2>1, OpenFacts
  <2>4. (seen[s] = Open(work[s][op[s].user], 0))'
    BY <1>6, <2>3
  <2>5. Sweeping(s)'
    BY <1>7, <2>4 DEF Sweeping
  <2>6. QED BY <2>1, <2>2, <2>5 DEF Path
<1>10. QED
  BY <1>8, <1>9

LEMMA DoneOnPath ==
    ASSUME Safe, TableOK(row), NEW s \in Sessions, Path(s), SweepDone(s)
    PROVE  Path(s)'
<1> DEFINE u == op[s].user
<1>1. /\ TypeOK /\ pc[s] = "take" /\ Sweeping(s) /\ Sweeps(op[s]) /\ Asked(op[s]) /\ Mine(s, u)
      /\ OnCourse(s)
  BY DEF Safe, Path, OnCourse, Busy, SweepDone
<1>2. PICK k \in Nat : Along(s, k) /\ seen[s] = Open(work[s][u], k)
  BY <1>1 DEF Sweeping
<1>3. \E base, n, g : OnSweep(s, u, k, base, n, g)
  BY <1>1, <1>2, AlongFacts
<1>4. RowOK(work[s][u])
  BY <1>3 DEF OnSweep
<1>5. AfterSweep(s) = "commit"
  BY <1>1 DEF AfterSweep, OnCourse, Funds
<1>6. row' = row /\ lock' = lock /\ work' = work /\ op' = op /\ pc'[s] = "commit"
  BY <1>1, <1>5, TypeOKGives DEF SweepDone, Continue
<1>7. Along(s, k)'
  BY <1>2, <1>6, SameAlong
<1>8. Rested(work[s][u], k, Len(work[s][u].liens))
  <2>1. CASE Available(work[s][u]) <= 0
    BY <2>1 DEF Rested
  <2>2. CASE seen[s] = {}
    BY <1>2, <1>4, <2>2, OpenFacts
  <2>3. QED BY <2>1, <2>2 DEF SweepDone
<1>9. Rested(work[s][u], k, Len(work[s][u].liens))'
  BY <1>6, <1>8
<1>10. Rests(s)'
  BY <1>7, <1>9 DEF Rests
<1>11. OnCourse(s)'
  BY <1>1, <1>6 DEF OnCourse, Busy, Mine
<1>12. QED
  BY <1>1, <1>6, <1>10, <1>11 DEF Path

(* The oldest lien the session still has to look at is the next one the    *)
(* atomic sweep takes from; those between are closed.                      *)
NextOpen(r, k, x) ==
    /\ x \in Open(r, k) /\ \A y \in Open(r, k) : x.i <= y.i

LEMMA NextOpenFacts ==
    ASSUME NEW r, RowOK(r), NEW k \in Nat, NEW x, NextOpen(r, k, x)
    PROVE  /\ x.i \in 1..Len(r.liens) /\ x.i > k /\ x.i \in Nat
           /\ x.lien = r.liens[x.i] /\ x.lien.status = "ACTIVE"
           /\ x = [i |-> x.i, lien |-> r.liens[x.i]]
           /\ Rested(r, k, x.i - 1)
<1>1. /\ x.i \in 1..Len(r.liens) /\ x.i > k
      /\ x.lien = r.liens[x.i] /\ x.lien.status = "ACTIVE"
      /\ x = [i |-> x.i, lien |-> r.liens[x.i]]
  BY OpenFacts DEF NextOpen
<1>2. Len(r.liens) \in Nat
  <2>1. \A t \in Seq(Lien) : Len(t) \in Nat
    OBVIOUS
  <2>2. QED BY <2>1, RowOKFacts
<1>3. \A j \in (k + 1)..(x.i - 1) : r.liens[j].status # "ACTIVE"
  <2>1. SUFFICES ASSUME NEW j \in (k + 1)..(x.i - 1), r.liens[j].status = "ACTIVE"
                 PROVE  FALSE
    OBVIOUS
  <2>2. j \in 1..Len(r.liens) /\ j > k /\ ~(x.i <= j)
    BY <1>1, <1>2
  <2>3. [i |-> j, lien |-> r.liens[j]] \in Open(r, k)
    BY <2>1, <2>2, OpenFacts
  <2>4. QED BY <2>2, <2>3 DEF NextOpen
<1>4. QED
  BY <1>1, <1>2, <1>3 DEF Rested

(* After that round the ones after it are left. *)
LEMMA OpenAfter ==
    ASSUME NEW r, RowOK(r), NEW k \in Nat, NEW x, NextOpen(r, k, x), NEW q,
           Len(q.liens) = Len(r.liens),
           \A j \in 1..Len(r.liens) : j > x.i => q.liens[j] = r.liens[j]
    PROVE  Open(r, k) \ {x} = Open(q, x.i)
<1>1. /\ x.i \in 1..Len(r.liens) /\ x.i > k /\ x.i \in Nat
      /\ x = [i |-> x.i, lien |-> r.liens[x.i]]
  BY NextOpenFacts
<1>2. Len(r.liens) \in Nat
  <2>1. \A t \in Seq(Lien) : Len(t) \in Nat
    OBVIOUS
  <2>2. QED BY <2>1, RowOKFacts
<1>3. ASSUME NEW y \in Open(r, k), y # x
      PROVE  y \in Open(q, x.i)
  <2>1. y.i \in 1..Len(r.liens) /\ y = [i |-> y.i, lien |-> r.liens[y.i]] /\ x.i <= y.i
    BY <1>3, OpenFacts DEF NextOpen
  <2>2. y.i # x.i
    BY <1>1, <1>3, <2>1
  <2>3. y.i > x.i /\ q.liens[y.i] = r.liens[y.i]
    BY <1>1, <1>2, <2>1, <2>2
  <2>4. y.lien.status = "ACTIVE" /\ Outstanding(y.lien) > 0
    BY <1>3 DEF Open, ActiveLiens
  <2>5. QED BY <2>1, <2>3, <2>4 DEF Open, ActiveLiens
<1>4. ASSUME NEW y \in Open(q, x.i)
      PROVE  y \in Open(r, k) /\ y # x
  <2>1. /\ y.i \in 1..Len(r.liens) /\ y = [i |-> y.i, lien |-> q.liens[y.i]] /\ y.i > x.i
        /\ y.lien.status = "ACTIVE" /\ Outstanding(y.lien) > 0
    BY DEF Open, ActiveLiens
  <2>2. q.liens[y.i] = r.liens[y.i] /\ y.i > k
    BY <1>1, <1>2, <2>1
  <2>3. y \in Open(r, k)
    BY <2>1, <2>2 DEF Open, ActiveLiens
  <2>4. QED BY <1>1, <1>2, <2>1, <2>3
<1>5. QED
  BY <1>3, <1>4

(* One round of the concurrent sweep is the next one of the atomic sweep. *)
LEMMA RoundIsTaken ==
    ASSUME NEW base, TableOK(base), NEW u \in Retailers, NEW n, n = Len(base[u].liens), n \in Nat,
           NEW g, g = SweepTo(base, u), NEW k \in 0..n, SweptSo(base, u, k, g[k]),
           NEW x, NextOpen(g[k][u], k, x), Available(g[k][u]) > 0
    PROVE  /\ x.i \in 0..n /\ x.i \in 1..n
           /\ g[x.i][u] = TakeFromUser(g[k][u], u, x.i, x.lien)
           /\ g[x.i][Suspense] = TakeToSuspense(g[k][Suspense], TakeAmount(g[k][u], x.lien), u, x.i)
<1> DEFINE mid == g[k]
           r == mid[u]
           j == x.i
<1>1. TableOK(mid) /\ RowOK(r) /\ Len(r.liens) = n /\ u # Suspense /\ u \in Accounts /\ Suspense \in Accounts
  BY DEF SweptSo, TableOK, Accounts
<1>2. /\ j \in 1..n /\ j > k /\ j \in Nat /\ x.lien = r.liens[j] /\ x.lien.status = "ACTIVE"
      /\ Rested(r, k, j - 1)
  BY <1>1, NextOpenFacts
<1>3. g[j - 1] = mid
  <2>1. j - 1 \in 0..n /\ k <= j - 1
    BY <1>2
  <2> DEFINE m == j - 1
  <2>2. m \in 0..n /\ k <= m /\ Rested(g[k][u], k, m)
    BY <1>2, <2>1
  <2> HIDE DEF m
  <2>3. g[m] = g[k]
    BY <2>2, RestedStays
  <2>4. QED BY <2>3 DEF m
<1>4. g[j] = Atomic!Recover(g[j - 1], u, j)
  <2>1. SweepRun(base, u, n, g)
    BY SweepSteps
  <2>2. QED BY <1>2, <2>1 DEF SweepRun
<1>5. g[j] = Taken(mid, u, j)
  <2> HIDE DEF mid
  <2>1. mid \in [Accounts -> Row]
    BY <1>1 DEF TableOK
  <2>2. Atomic!Recover(mid, u, j) = Taken(mid, u, j)
    BY <1>2, <2>1, RecoverIs DEF mid
  <2>3. QED BY <1>3, <1>4, <2>2
<1>6. mid \in [Accounts -> Row]
  BY <1>1 DEF TableOK
<1> HIDE DEF mid, j
<1>7. /\ Taken(mid, u, j)[u] = TakeFromUser(mid[u], u, j, mid[u].liens[j])
      /\ Taken(mid, u, j)[Suspense] =
           TakeToSuspense(mid[Suspense], TakeAmount(mid[u], mid[u].liens[j]), u, j)
  BY <1>1, <1>6 DEF Taken
<1>8. QED
  BY <1>2, <1>5, <1>7 DEF mid, j

LEMMA TakeOnPath ==
    ASSUME Safe, TableOK(row), NEW s \in Sessions, Path(s), TakeFromLien(s)
    PROVE  Path(s)'
<1> DEFINE u == op[s].user
           r == work[s][u]
           rs == View(s, Suspense)
<1>1. /\ TypeOK /\ pc[s] = "take" /\ Sweeping(s) /\ Sweeps(op[s]) /\ Asked(op[s]) /\ Mine(s, u)
      /\ OnCourse(s)
  BY DEF Safe, Path, OnCourse, Busy, TakeFromLien
<1>2. PICK k \in Nat : Along(s, k) /\ seen[s] = Open(r, k)
  BY <1>1 DEF Sweeping
<1>3. PICK base, n, g : OnSweep(s, u, k, base, n, g)
  BY <1>1, <1>2, AlongFacts
<1>4. /\ TableOK(base) /\ u \in Retailers /\ u \in Accounts /\ u # Suspense /\ Suspense \in Accounts
      /\ n = Len(base[u].liens) /\ n \in Nat /\ g = SweepTo(base, u) /\ k \in 0..n
      /\ SweptSo(base, u, k, g[k]) /\ r = g[k][u] /\ rs = g[k][Suspense] /\ RowOK(r)
      /\ \A i \in 0..n : SweptSo(base, u, i, g[i])
      /\ base = [row EXCEPT ![u] = Applied(op[s], row[u])] /\ Len(r.liens) = n
  BY <1>3 DEF OnSweep, StartsAt, Based
<1>5. PICK x \in seen[s] :
        /\ Oldest(s, x)
        /\ work' = [work EXCEPT ![s][u] = TakeFromUser(r, u, x.i, x.lien),
                                ![s][Suspense] = TakeToSuspense(rs, TakeAmount(r, x.lien), u, x.i)]
        /\ seen' = [seen EXCEPT ![s] = @ \ {x}]
  BY DEF TakeFromLien
<1>6. /\ Available(r) > 0 /\ lock' = [lock EXCEPT ![Suspense] = s]
      /\ row' = row /\ pc' = pc /\ op' = op
  BY DEF TakeFromLien
<1>7. NextOpen(r, k, x)
  BY <1>2, <1>5 DEF NextOpen, Oldest
<1> DEFINE q == TakeFromUser(r, u, x.i, x.lien)
           p == TakeToSuspense(rs, TakeAmount(r, x.lien), u, x.i)
           j == x.i
<1>8. work'[s][u] = q /\ work'[s][Suspense] = p /\ seen'[s] = seen[s] \ {x}
  <2>1. work \in [Sessions -> [Accounts -> Row]] /\ seen \in [Sessions -> SUBSET Seen]
    BY <1>1, TypeOKGives
  <2>2. work' = [work EXCEPT ![s][u] = q, ![s][Suspense] = p] /\ seen' = [seen EXCEPT ![s] = @ \ {x}]
    BY <1>5
  <2> HIDE DEF q, p, r, rs
  <2>3. QED BY <1>4, <2>1, <2>2
<1>9. j \in 0..n /\ j \in 1..n /\ g[j][u] = q /\ g[j][Suspense] = p
  <2>1. NextOpen(g[k][u], k, x) /\ Available(g[k][u]) > 0
    BY <1>4, <1>6, <1>7
  <2>2. /\ x.i \in 0..n /\ x.i \in 1..n
        /\ g[x.i][u] = TakeFromUser(g[k][u], u, x.i, x.lien)
        /\ g[x.i][Suspense] = TakeToSuspense(g[k][Suspense], TakeAmount(g[k][u], x.lien), u, x.i)
    <3>1. /\ TableOK(base) /\ u \in Retailers /\ n = Len(base[u].liens) /\ n \in Nat
          /\ g = SweepTo(base, u) /\ k \in 0..n /\ SweptSo(base, u, k, g[k])
      BY <1>4
    <3> HIDE DEF u, r, rs
    <3>2. QED BY <2>1, <3>1, RoundIsTaken
  <2>3. QED BY <1>4, <2>2
<1>10. Mine(s, Suspense)' /\ View(s, Suspense)' = p /\ Base(s)' = base /\ op'[s] = op[s]
  BY <1>1, <1>4, <1>6, <1>8, TypeOKGives DEF Mine, View, Base
<1>11. SweptSo(base, u, j, g[j])
  BY <1>4, <1>9
<1>12. Len(q.liens) = n /\ \A m \in 1..n : m > j => q.liens[m] = base[u].liens[m]
  <2> HIDE DEF q, j
  <2>1. QED BY <1>4, <1>9, <1>11 DEF SweptSo
<1>13. \A m \in 1..n : m > k => r.liens[m] = base[u].liens[m]
  <2>1. SweptSo(base, u, k, g[k]) => \A m \in 1..Len(base[u].liens) : m > k => g[k][u].liens[m] = base[u].liens[m]
    BY DEF SweptSo
  <2>2. QED BY <1>4, <2>1
<1>14. x.i \in Nat /\ x.i > k
  <2> HIDE DEF r
  <2>1. QED BY <1>4, <1>7, NextOpenFacts
<1> HIDE DEF q, p, j, r, rs
<1>15. seen'[s] = Open(q, j)
  <2>1. \A m \in 1..Len(r.liens) : m > x.i => q.liens[m] = r.liens[m]
    <3>1. Len(r.liens) = n /\ n \in Nat /\ k \in Nat
      BY <1>4
    <3>2. QED BY <3>1, <1>12, <1>13, <1>14 DEF j
  <2>2. Open(r, k) \ {x} = Open(q, x.i)
    <3>1. RowOK(r) /\ Len(q.liens) = Len(r.liens)
      BY <1>4, <1>12
    <3>2. QED BY <1>7, <2>1, <3>1, OpenAfter
  <2>3. QED BY <1>2, <1>8, <2>2 DEF j
<1>16. Along(s, j)'
  <2>1. Reached(base, u, j, q, p, TRUE)
    BY <1>4, <1>9 DEF Reached
  <2>2. Along(s, j)' <=> Reached(base, u, j, q, p, Mine(s, Suspense)')
    BY <1>8, <1>10 DEF Along
  <2>3. QED BY <1>10, <2>1, <2>2 DEF Reached
<1>17. Sweeping(s)'
  BY <1>8, <1>10, <1>14, <1>15, <1>16 DEF Sweeping, j
<1>18. OnCourse(s)'
  BY <1>1, <1>4, <1>6, TypeOKGives DEF OnCourse, Busy, Mine
<1>19. QED
  BY <1>1, <1>6, <1>17, <1>18 DEF Path

(* Every step but a commit; the desk's other operations never start. *)
LEMMA StepOnPath ==
    ASSUME Safe, TableOK(row), DeskOps \subseteq {"place"}, NEW s \in Sessions, Path(s), Step(s)
    PROVE  Path(s)'
<1>1. TypeOK
  BY DEF Safe
<1>2. CASE Arrive(s)
  BY <1>1, <1>2, ArriveOnPath
<1>3. CASE Die(s) \/ Reject(s) \/ Commit(s)
  BY <1>1, <1>3, EndOnPath DEF Die, Reject, Commit, Rollback
<1>4. CASE CheckKey(s) \/ CreditWallet(s) \/ PlaceWalletLien(s)
  BY <1>1, <1>4, CheckOnPath, CreditOnPath, PlaceOnPath
<1>5. CASE DebitWallet(s) \/ HoldFunds(s) \/ ReleaseHold(s) \/ CaptureHold(s)
  BY <1>5, DebitOnPath
<1>6. CASE ReadLiens(s) \/ TakeFromLien(s) \/ SweepDone(s)
  BY <1>6, ReadOnPath, TakeOnPath, DoneOnPath
<1>7. ~LockForSweep(s) /\ ~ReadLien(s)
  BY DEF Path, OnCourse, Busy, LockForSweep, ReadLien
<1>8. ~ReleaseWalletLien(s) /\ ~ReverseFrozen(s)
  BY DEF Path, OnCourse, Funds, ReleaseWalletLien, ReverseFrozen, At
<1>9. /\ ~CheckSuspenseLeg(s) /\ ~ReverseDebitSuspense(s)
      /\ ~CheckUserLeg(s) /\ ~ReverseCreditUser(s) /\ ~ReverseClose(s)
  BY DEF Path, OnCourse, CheckSuspenseLeg, ReverseDebitSuspense, CheckUserLeg, ReverseCreditUser, ReverseClose
<1>10. QED
  BY <1>2, <1>3, <1>4, <1>5, <1>6, <1>7, <1>8, <1>9 DEF Step, SessionStep

-----------------------------------------------------------------------------
(* A commit is a step of the atomic ledger. *)

LEMMA CommitOutcome ==
    ASSUME Safe, TableOK(row), NEW s \in Sessions, Path(s), Commit(s), NEW next, next = row'
    PROVE  Outcome(op[s], row, next)
<1> DEFINE o == op[s]
           u == op[s].user
<1>1. /\ TypeOK /\ pc[s] = "commit" /\ OnCourse(s) /\ Asked(o) /\ Mine(s, u)
      /\ next = [a \in Accounts |-> View(s, a)]
  BY DEF Safe, Path, OnCourse, Busy, Commit
<1>2. u \in Accounts /\ row \in [Accounts -> Row]
  BY <1>1, TypeOKGives, OpFields
<1>3. next[u] = work[s][u]
  BY <1>1, <1>2 DEF View
<1>4. CASE Sweeps(o)
  <2>1. PICK k \in Nat : Along(s, k) /\ Rested(work[s][u], k, Len(work[s][u].liens))
    BY <1>1, <1>4 DEF Path, Rests
  <2>2. PICK base, n, g : OnSweep(s, u, k, base, n, g)
    BY <1>1, <1>4, <2>1, AlongFacts
  <2>3. /\ TableOK(base) /\ u \in Retailers /\ u # Suspense
        /\ n = Len(base[u].liens) /\ n \in Nat /\ g = SweepTo(base, u) /\ k \in 0..n
        /\ SweptSo(base, u, k, g[k]) /\ work[s][u] = g[k][u] /\ View(s, Suspense) = g[k][Suspense]
        /\ TableOK(g[k])
    BY <2>2 DEF OnSweep, StartsAt, Based
  <2>4. Rested(g[k][u], k, n)
    BY <2>1, <2>2, <2>3 DEF OnSweep
  <2>5. g[n] = g[k]
    <3>1. n \in 0..n /\ k <= n
      BY <2>3
    <3>2. /\ TableOK(base) /\ u \in Retailers /\ n = Len(base[u].liens) /\ g = SweepTo(base, u)
          /\ k \in 0..n
      BY <2>3
    <3> HIDE DEF u
    <3>3. QED BY <2>4, <3>1, <3>2, RestedStays
  <2>6. \A a \in Accounts \ {u, Suspense} : g[k][a] = row[a]
    <3>1. \A a \in Accounts \ {u, Suspense} : base[a] = row[a]
      BY <2>2 DEF OnSweep, Based
    <3>2. \A a \in Accounts \ {u, Suspense} : g[k][a] = base[a]
      BY <2>3 DEF SweptSo
    <3>3. QED BY <3>1, <3>2
  <2>7. \A a \in Accounts : next[a] = g[k][a]
    <3> TAKE a \in Accounts
    <3>1. CASE a = u
      BY <1>3, <2>3, <3>1
    <3>2. CASE a = Suspense
      BY <1>1, <2>3, <3>2
    <3>3. CASE a \notin {u, Suspense}
      BY <1>1, <2>6, <3>3 DEF OnCourse, View
    <3>4. QED BY <3>1, <3>2, <3>3
  <2>8. next = g[k]
    <3>1. g[k] = [a \in Accounts |-> g[k][a]]
      BY <2>3 DEF TableOK
    <3>2. QED BY <1>1, <2>7, <3>1
  <2>9. Atomic!Swept(base, u) = g[n]
    <3>1. SweepRun(base, u, n, g)
      BY <2>3, SweepSteps
    <3>2. QED BY <3>1 DEF SweepRun
  <2>10. base = [row EXCEPT ![o.user] = Applied(o, row[o.user])]
    BY <2>2 DEF OnSweep, StartsAt
  <2>11. QED
    BY <1>4, <2>5, <2>8, <2>9, <2>10 DEF Outcome
<1>5. CASE ~Sweeps(o)
  <2>1. Did(o, row[u], work[s][u]) /\ \A a \in Accounts : Mine(s, a) => a = u
    BY <1>1, <1>5 DEF Path, Moves
  <2>2. next = [row EXCEPT ![u] = work[s][u]]
    BY <1>1, <1>2, <1>3, <2>1 DEF View
  <2>3. QED
    BY <1>5, <2>1, <2>2 DEF Outcome
<1>6. QED
  BY <1>4, <1>5

(* Entry number Len + 1 of a passbook has this key. *)
NextHasKey(r, q, b, key) ==
    /\ Len(r.txns[b]) \in Nat /\ Len(r.txns[b]) + 1 \in 1..Len(q.txns[b])
    /\ q.txns[b][Len(r.txns[b]) + 1].key = key

LEMMA PostNext ==
    ASSUME NEW r \in Row, NEW b \in Books, NEW delta \in Int, NEW key \in Keyed,
           NEW q, q = Post(r, b, delta, key, "MOVE", Null)
    PROVE  q \in Row /\ NextHasKey(r, q, b, key)
<1> DEFINE e == TxnOf(r, b, delta, key, "MOVE", Null)
<1>1. "MOVE" \in Reasons /\ Null \in Refs
  BY DEF Reasons, Refs
<1>2. q \in Row
  BY <1>1, PostRow
<1>3. q.txns = [r.txns EXCEPT ![b] = Append(r.txns[b], e)]
  BY <1>1, PostTxns
<1>4. e \in Entry
  BY <1>1, TxnOfFacts
<1>5. e.key = key
  BY DEF TxnOf
<1> HIDE DEF e
<1>6. /\ Len(r.txns[b]) + 1 \in 1..Len(q.txns[b]) /\ q.txns[b][Len(r.txns[b]) + 1] = e
      /\ Len(r.txns[b]) \in Nat
  <2> DEFINE t == r.txns[b]
  <2>1. t \in Seq(Entry) /\ q.txns[b] = Append(t, e)
    BY <1>3, RowFields DEF Passbooks
  <2> HIDE DEF t
  <2>2. Len(t) \in Nat /\ Len(Append(t, e)) = Len(t) + 1 /\ Append(t, e)[Len(t) + 1] = e
    BY <1>4, <2>1
  <2>3. Len(t) + 1 \in 1..Len(q.txns[b]) /\ q.txns[b][Len(t) + 1] = e /\ Len(t) \in Nat
    BY <2>1, <2>2
  <2>4. QED BY <2>3 DEF t
<1>7. QED
  BY <1>2, <1>5, <1>6 DEF NextHasKey

LEMMA DidNext ==
    ASSUME NEW r \in Row, NEW o \in Ops, NEW q, Did(o, r, q), o.kind \in {"credit", "debit", "capture"}
    PROVE  \E b \in Books : NextHasKey(r, q, b, o.key)
<1>1. o.book \in Books /\ o.amt \in Int /\ -o.amt \in Int /\ o.key \in Keyed
  BY OpFields
<1>2. CASE o.kind = "credit"
  <2>1. q = Post(r, o.book, o.amt, o.key, "MOVE", Null)
    BY <1>2 DEF Did
  <2>2. QED BY <1>1, <2>1, PostNext
<1>3. CASE o.kind = "debit"
  <2> DEFINE d == -o.amt
  <2>1. q = Post(r, o.book, d, o.key, "MOVE", Null) /\ d \in Int
    BY <1>1, <1>3 DEF Did
  <2> HIDE DEF d
  <2>2. QED BY <1>1, <2>1, PostNext
<1>4. CASE o.kind = "capture"
  <2> DEFINE d == -o.amt
             p == Post(r, "PRIMARY", d, o.key, "MOVE", Null)
  <2>1. q = Capture(r, o.amt, o.key)
    BY <1>4 DEF Did
  <2>2. q = [p EXCEPT !.held = p.held - o.amt] /\ d \in Int
    BY <1>1, <2>1 DEF Capture, Unhold
  <2> HIDE DEF d
  <2>3. p \in Row /\ NextHasKey(r, p, "PRIMARY", o.key)
    BY <1>1, <2>2, PostNext
  <2> HIDE DEF p
  <2> DEFINE h == p.held - o.amt
  <2>4. h \in Int
    BY <1>1, <2>3, RowFields
  <2>5. q = [p EXCEPT !.held = h]
    BY <2>2
  <2> HIDE DEF h
  <2>6. q.txns = p.txns
    BY <2>3, <2>4, <2>5, WriteHeld
  <2>7. QED BY <2>3, <2>6 DEF NextHasKey
<1>5. QED
  BY <1>2, <1>3, <1>4

(* What a commit writes under a key, no committed entry has. *)
LEMMA NewKeyUnused ==
    ASSUME Safe, NEW s \in Sessions, Commit(s), NEW u \in Accounts, Mine(s, u), NEW b \in Books,
           NEW key, NextHasKey(row[u], row'[u], b, key)
    PROVE  key = Null \/ key \notin UsedKeys
<1> DEFINE i == Len(row[u].txns[b]) + 1
<1>1. row'[u] = work[s][u]
  BY DEF Commit, View
<1>2. /\ i \in Nat /\ i \in (Len(row[u].txns[b]) + 1)..Len(work[s][u].txns[b])
      /\ work[s][u].txns[b][i].key = key
  <2> DEFINE l == Len(row[u].txns[b])
             m == Len(work[s][u].txns[b])
  <2>1. l \in Nat /\ m \in Nat
    BY Txns DEF Safe
  <2>2. l + 1 \in 1..m /\ work[s][u].txns[b][l + 1].key = key
    BY <1>1 DEF NextHasKey
  <2> HIDE DEF l, m
  <2>3. l + 1 \in Nat /\ l + 1 \in (l + 1)..m
    BY <2>1, <2>2
  <2>4. QED BY <2>2, <2>3 DEF l, m
<1>3. Fresh(s, u, b, i) /\ KeyAt(s, u, b, i) = key
  BY <1>2 DEF Fresh, KeyAt
<1>4. key # Null => key \in NewKeys(s)
  BY <1>2, <1>3, KeyPlaces
<1>5. QED
  BY <1>4 DEF Commit, Accepted

(* The key of a credit that is swept afterwards. *)
LEMMA SweptNext ==
    ASSUME NEW rows, TableOK(rows), NEW o \in Ops, Sweeps(o), o.amt > 0, o.kind = "credit",
           NEW next, Outcome(o, rows, next)
    PROVE  NextHasKey(rows[o.user], next[o.user], o.book, o.key)
<1> DEFINE u == o.user
           base == [rows EXCEPT ![u] = Applied(o, rows[u])]
           n == Len(base[u].liens)
           g == SweepTo(base, u)
<1>1. StartsAt(rows, o, base, u, n, g)
  BY DEF StartsAt
<1>2. next = Atomic!Swept(base, u)
  BY DEF Outcome
<1> HIDE DEF base, n, g
<1>3. Based(rows, o, base, u, n, g)
  BY <1>1, BaseFacts
<1>4. /\ TableOK(base) /\ u \in Retailers /\ u \in Accounts /\ base[u] = Applied(o, rows[u])
      /\ n = Len(base[u].liens) /\ n \in Nat /\ g = SweepTo(base, u)
      /\ \A k \in 0..n : SweptSo(base, u, k, g[k])
  BY <1>1, <1>3 DEF Based, StartsAt
<1>5. next = g[n]
  <2>1. SweepRun(base, u, n, g)
    BY <1>4, SweepSteps
  <2>2. QED BY <1>2, <2>1 DEF SweepRun
<1>6. SweptSo(base, u, n, next)
  BY <1>4, <1>5
<1>7. Longer(base[u], next[u])
  BY <1>6 DEF SweptSo
<1>8. rows[u] \in Row /\ o.book \in Books /\ o.amt \in Int /\ o.key \in Keyed
  BY <1>4, OpFields DEF TableOK
<1>9. base[u] = Post(rows[u], o.book, o.amt, o.key, "MOVE", Null)
  BY <1>4 DEF Applied
<1>10. NextHasKey(rows[u], base[u], o.book, o.key)
  BY <1>8, <1>9, PostNext
<1>11. QED
  <2> DEFINE i == Len(rows[u].txns[o.book]) + 1
  <2>1. /\ Len(rows[u].txns[o.book]) \in Nat /\ i \in 1..Len(base[u].txns[o.book])
        /\ base[u].txns[o.book][i].key = o.key
    BY <1>10 DEF NextHasKey
  <2> HIDE DEF i
  <2>2. i \in 1..Len(next[u].txns[o.book]) /\ next[u].txns[o.book][i] = base[u].txns[o.book][i]
    BY SMTT(20), <1>7, <1>8, <2>1 DEF Longer
  <2>3. QED BY <2>1, <2>2 DEF NextHasKey, i

LEMMA CommitFresh ==
    ASSUME Safe, TableOK(row), NEW s \in Sessions, Path(s), Commit(s), NEW o, o = op[s],
           o.kind \in {"credit", "debit", "capture"}, NEW next, next = row', Outcome(o, row, next)
    PROVE  Atomic!Fresh(o.key)
<1>1. o \in Ops /\ Mine(s, o.user) /\ Asked(o) /\ o.user \in Accounts /\ row \in [Accounts -> Row]
  BY TypeOKGives, OpFields DEF Safe, Path, OnCourse, Busy, Commit
<1>2. o.amt > 0
  BY <1>1, AskedFacts
<1>3. \E b \in Books : NextHasKey(row[o.user], next[o.user], b, o.key)
  <2>1. CASE Sweeps(o)
    <3>1. o.kind = "credit" /\ o.book \in Books
      BY <1>1, <2>1, OpFields DEF Sweeps
    <3>2. QED BY <1>1, <1>2, <2>1, <3>1, SweptNext
  <2>2. CASE ~Sweeps(o)
    <3>1. PICK q : Did(o, row[o.user], q) /\ next = [row EXCEPT ![o.user] = q]
      BY <2>2 DEF Outcome
    <3>2. next[o.user] = q /\ row[o.user] \in Row
      BY <1>1, <3>1
    <3>3. \E b \in Books : NextHasKey(row[o.user], q, b, o.key)
      BY <1>1, <3>1, <3>2, DidNext
    <3>4. QED BY <3>2, <3>3
  <2>3. QED BY <2>1, <2>2
<1>4. o.key = Null \/ o.key \notin UsedKeys
  BY <1>1, <1>3, NewKeyUnused
<1>5. QED
  BY <1>4, SameOperators DEF Atomic!Fresh

(* The step of the atomic ledger a request makes. *)
LEMMA PlaceIsFreeze ==
    ASSUME TableOK(row), NEW o, o.kind = "place", o.user \in Retailers, NEW next, next = row',
           Outcome(o, row, next)
    PROVE  Atomic!Freeze(o.user, o.amt)
<1>1. next = Atomic!Swept([row EXCEPT ![o.user] = PlaceLien(row[o.user], o.amt)], o.user)
  BY DEF Outcome, Sweeps, Applied
<1>2. Atomic!PlaceLien(row[o.user], o.amt) = PlaceLien(row[o.user], o.amt)
  BY SameOperators
<1>3. QED
  BY <1>1, <1>2 DEF Atomic!Freeze, Atomic!Update

LEMMA CreditIsCredit ==
    ASSUME TableOK(row), NEW m \in Movements, m.kind = "credit", NEW o, o.kind = m.kind,
           o.user = m.user, o.book = m.book, o.amt = m.amt, o.key = m.key,
           NEW next, next = row', Outcome(o, row, next), Atomic!Fresh(o.key)
    PROVE  Atomic!Credit(m)
<1> DEFINE r == Post(row[m.user], m.book, m.amt, m.key, "MOVE", Null)
<1>1. Atomic!Post(row[m.user], m.book, m.amt, m.key, "MOVE", Null) = r
  BY SameOperators
<1>2. CASE m.book = "PRIMARY" /\ m.user # Suspense
  <2>1. next = Atomic!Swept([row EXCEPT ![m.user] = r], m.user)
    BY <1>2 DEF Outcome, Sweeps, Applied
  <2>2. QED BY <1>1, <1>2, <2>1 DEF Atomic!Credit, Atomic!Update
<1>3. CASE ~(m.book = "PRIMARY" /\ m.user # Suspense)
  <2>1. next = [row EXCEPT ![m.user] = r]
    BY <1>3 DEF Outcome, Sweeps, Did
  <2>2. QED BY <1>1, <1>3, <2>1 DEF Atomic!Credit, Atomic!Update
<1>4. QED
  BY <1>2, <1>3

LEMMA OtherMoves ==
    ASSUME TableOK(row), NEW m \in Movements, m.kind \in {"debit", "hold", "unhold", "capture"},
           NEW o, o.kind = m.kind, o.user = m.user, o.book = m.book, o.amt = m.amt, o.key = m.key,
           NEW next, next = row', Outcome(o, row, next),
           o.kind \in {"debit", "capture"} => Atomic!Fresh(o.key)
    PROVE  Atomic!Debit(m) \/ Atomic!Reserve(m) \/ Atomic!GiveBack(m) \/ Atomic!Settle(m)
<1>1. PICK q : Did(o, row[m.user], q) /\ next = [row EXCEPT ![m.user] = q]
  BY DEF Outcome, Sweeps
<1>2. CASE m.kind = "debit"
  <2>1. CanDebit(row[m.user], m.book, m.amt) /\ q = Post(row[m.user], m.book, -m.amt, m.key, "MOVE", Null)
    BY <1>1, <1>2 DEF Did
  <2>2. Atomic!CanDebit(row[m.user], m.book, m.amt)
        /\ q = Atomic!Post(row[m.user], m.book, -m.amt, m.key, "MOVE", Null)
    BY <2>1, SameOperators
  <2>3. Atomic!Debit(m)
    BY <1>1, <1>2, <2>2 DEF Atomic!Debit, Atomic!Update
  <2>4. QED BY <2>3
<1>3. CASE m.kind = "hold"
  <2>1. m.amt <= Spendable(row[m.user]) /\ q = Hold(row[m.user], m.amt)
    BY <1>1, <1>3 DEF Did
  <2>2. m.amt <= Atomic!Spendable(row[m.user]) /\ q = Atomic!Hold(row[m.user], m.amt)
    BY <2>1, SameOperators
  <2>3. Atomic!Reserve(m)
    BY <1>1, <1>3, <2>2 DEF Atomic!Reserve, Atomic!Update
  <2>4. QED BY <2>3
<1>4. CASE m.kind = "unhold"
  <2>1. m.amt <= row[m.user].held /\ q = Unhold(row[m.user], m.amt)
    BY <1>1, <1>4 DEF Did
  <2>2. q = Atomic!Unhold(row[m.user], m.amt)
    BY <2>1, SameOperators
  <2>3. Atomic!GiveBack(m)
    BY <1>1, <1>4, <2>1, <2>2 DEF Atomic!GiveBack, Atomic!Update
  <2>4. QED BY <2>3
<1>5. CASE m.kind = "capture"
  <2>1. m.amt <= row[m.user].held /\ q = Capture(row[m.user], m.amt, m.key)
    BY <1>1, <1>5 DEF Did
  <2>2. q = Atomic!Capture(row[m.user], m.amt, m.key)
    BY <2>1, SameOperators
  <2>3. Atomic!Settle(m)
    BY <1>1, <1>5, <2>1, <2>2 DEF Atomic!Settle, Atomic!Update
  <2>4. QED BY <2>3
<1>6. QED
  BY <1>2, <1>3, <1>4, <1>5

LEMMA CommitIsAtomic ==
    ASSUME Safe, TableOK(row), NEW s \in Sessions, Path(s), Commit(s)
    PROVE  /\ Atomic!Next
           /\ TableOK(row')
           /\ \A v \in Retailers : FrozenStep(row[v], row'[v]) /\ OldestStep(row[v], row'[v])
<1> DEFINE o == op[s]
           next == row'
<1>1. o \in Ops /\ Asked(o)
  BY TypeOKGives DEF Safe, Path, OnCourse, Commit
<1>2. o.amt > 0 /\ (Sweeps(o) => o.book = "PRIMARY")
  BY <1>1, AskedFacts
<1>3. Outcome(o, row, next)
  BY CommitOutcome
<1>4. /\ TableOK(next)
      /\ \A v \in Retailers : FrozenStep(row[v], next[v]) /\ OldestStep(row[v], next[v])
  <2> HIDE DEF o, next
  <2>1. QED BY <1>1, <1>2, <1>3, OutcomeOK
<1>5. o.kind \in {"credit", "debit", "capture"} => Atomic!Fresh(o.key)
  BY <1>3, CommitFresh
<1>6. Atomic!Next
  <2>1. CASE o.kind = "place" /\ o.user \in Retailers /\ o.amt \in LienAmounts
    <3>1. Atomic!Freeze(o.user, o.amt)
      BY <1>3, <2>1, PlaceIsFreeze
    <3>2. QED BY <2>1, <3>1 DEF Atomic!Next
  <2>2. ASSUME NEW m \in Movements, o.kind = m.kind, o.user = m.user, o.book = m.book,
               o.amt = m.amt, o.key = m.key
        PROVE  Atomic!Next
    <3> HIDE DEF o
    <3>1. m.kind \in Funds
      BY MovementsAssumption
    <3>2. CASE m.kind = "credit"
      <4>1. Atomic!Credit(m)
        BY <1>3, <1>5, <2>2, <3>2, CreditIsCredit
      <4>2. QED BY <4>1 DEF Atomic!Next
    <3>3. CASE m.kind \in {"debit", "hold", "unhold", "capture"}
      <4>1. Atomic!Debit(m) \/ Atomic!Reserve(m) \/ Atomic!GiveBack(m) \/ Atomic!Settle(m)
        BY <1>3, <1>5, <2>2, <3>3, OtherMoves
      <4>2. QED BY <4>1 DEF Atomic!Next
    <3>4. QED BY <3>1, <3>2, <3>3 DEF Funds
  <2>3. QED BY <1>1, <2>1, <2>2 DEF Asked
<1>7. QED
  BY <1>4, <1>6

(* Every step keeps the invariant, and is one of the atomic ledger's if it *)
(* changes a row.                                                          *)
AtomicStep ==
    \/ row' = row
    \/ /\ Atomic!Next
       /\ \A v \in Retailers : FrozenStep(row[v], row'[v]) /\ OldestStep(row[v], row'[v])

LEMMA NextOnPath ==
    ASSUME DeskOps \subseteq {"place"}, Safe, AtomicInv, NEW s \in Sessions, Step(s)
    PROVE  AtomicInv' /\ AtomicStep
<1>1. TableOK(row) /\ \A t \in Sessions : Path(t)
  BY DEF AtomicInv
<1>2. TableOK(row') /\ AtomicStep
  <2>1. CASE Commit(s)
    BY <1>1, <2>1, CommitIsAtomic DEF AtomicStep
  <2>2. CASE ~Commit(s)
    <3>1. row' = row
      BY <2>2, RowChanges
    <3>2. QED BY <1>1, <3>1 DEF AtomicStep
  <2>3. QED BY <2>1, <2>2
<1>3. \A t \in Sessions : Path(t)'
  <2> TAKE t \in Sessions
  <2>1. CASE t = s
    BY <1>1, <2>1, StepOnPath
  <2>2. CASE t # s
    <3>1. Apart(t)
      BY <2>2, Frame
    <3>2. TypeOK
      BY DEF Safe
    <3>3. QED BY <1>1, <1>2, <3>1, <3>2, OthersOnPath
  <2>3. QED BY <2>1, <2>2
<1>4. QED
  BY <1>2, <1>3 DEF AtomicInv

LEMMA StutterOnPath ==
    ASSUME Safe, AtomicInv, UNCHANGED vars
    PROVE  AtomicInv' /\ AtomicStep
<1>1. row' = row /\ TableOK(row) /\ \A t \in Sessions : Path(t)
  BY DEF vars, AtomicInv
<1>2. \A t \in Sessions : Apart(t)
  BY DEF vars, Apart
<1>3. TypeOK
  BY DEF Safe
<1>4. TableOK(row')
  BY <1>1
<1>5. \A t \in Sessions : Path(t)'
  BY <1>1, <1>2, <1>3, <1>4, OthersOnPath
<1>6. QED
  BY <1>1, <1>4, <1>5 DEF AtomicInv, AtomicStep

LEMMA EmptyRowOK ==
    /\ RowOK(EmptyRow) /\ EmptyRow.liens = <<>>
    /\ \A i : Recorded(EmptyRow, i) = 0
    /\ \A g : MovedOf(EmptyRow.txns["PRIMARY"], g) = 0
<1> DEFINE ls == EmptyRow.liens
<1>1. EmptyRow \in Row /\ Good(EmptyRow) /\ ls = <<>> /\ EmptyRow.lien = 0
  BY EmptyRowFacts DEF EmptyRow
<1>2. ls \in Seq(Lien) /\ Len(ls) = 0
  BY <1>1
<1>3. OwedOf(ls) = 0
  <2> HIDE DEF ls
  <2>1. \A i \in 1..Len(ls) : ls[i].status # "ACTIVE"
    BY <1>2
  <2>2. QED BY <1>2, <2>1, NothingOwed
<1>4. RowOK(EmptyRow)
  BY <1>1, <1>2, <1>3 DEF RowOK
<1>5. \A i : Recorded(EmptyRow, i) = 0
  BY <1>2 DEF Recorded
<1>6. \A g : MovedOf(EmptyRow.txns["PRIMARY"], g) = 0
  <2> TAKE g
  <2> DEFINE t == EmptyRow.txns["PRIMARY"]
             f == [i \in 1..Len(t) |->
                     IF t[i].reason = "LIEN" THEN IF t[i].ref = g THEN t[i].delta ELSE 0 ELSE 0]
  <2>1. t = <<>>
    BY DEF EmptyRow
  <2>2. Len(t) = 0
    BY <2>1
  <2>3. MovedOf(t, g) = TotalOver(f, 0)
    BY <2>2 DEF MovedOf
  <2> HIDE DEF f, t
  <2>4. MovedOf(t, g) = 0
    BY <2>3, TotalStep
  <2>5. QED BY <2>4 DEF t
<1>7. QED
  BY <1>1, <1>4, <1>5, <1>6

LEMMA InitOnPath == Init => AtomicInv /\ Atomic!Init
<1> SUFFICES ASSUME Init PROVE AtomicInv /\ Atomic!Init
  OBVIOUS
<1>1. row = [a \in Accounts |-> EmptyRow] /\ \A a \in Accounts : row[a] = EmptyRow
  BY DEF Init
<1>2. \A v \in Retailers, i \in Nat : Matched(row, v, i)
  <2>1. ASSUME NEW v \in Retailers, NEW i \in Nat
        PROVE  Matched(row, v, i)
    <3>1. row[v] = EmptyRow /\ row[Suspense] = EmptyRow
      BY <1>1 DEF Accounts
    <3>2. Recorded(EmptyRow, i) = 0 /\ MovedOf(EmptyRow.txns["PRIMARY"], <<v, i>>) = 0
      BY EmptyRowOK
    <3>3. QED BY <3>1, <3>2 DEF Matched
  <2>2. QED BY <2>1
<1>3. TableOK(row)
  <2>1. \A a \in Accounts : RowOK(row[a])
    BY <1>1, EmptyRowOK
  <2>2. row \in [Accounts -> Row]
    BY <1>1, EmptyRowFacts
  <2>3. row[Suspense].liens = <<>>
    BY <1>1, EmptyRowOK DEF Accounts
  <2>4. QED BY <1>2, <2>1, <2>2, <2>3 DEF TableOK
<1>4. \A s \in Sessions : Path(s)
  <2> TAKE s \in Sessions
  <2>1. pc[s] = "idle" /\ op[s] = NoOp /\ \A a \in Accounts : lock[a] # s
    BY DEF Init
  <2>2. OnCourse(s)
    BY <2>1 DEF OnCourse, Busy, NoOp, Mine
  <2>3. QED BY <2>1, <2>2 DEF Path
<1>5. Atomic!Init
  BY <1>1, SameOperators DEF Atomic!Init
<1>6. QED
  BY <1>3, <1>4, <1>5 DEF AtomicInv

LEMMA NextAtomic ==
    ASSUME DeskOps \subseteq {"place"}
    PROVE  Safe /\ AtomicInv /\ [Next]_vars => AtomicInv' /\ AtomicStep
<1> SUFFICES ASSUME Safe, AtomicInv, [Next]_vars PROVE AtomicInv' /\ AtomicStep
  OBVIOUS
<1>1. CASE UNCHANGED vars
  BY <1>1, StutterOnPath
<1>2. ASSUME NEW s \in Sessions, Step(s) PROVE AtomicInv' /\ AtomicStep
  BY <1>2, NextOnPath
<1>3. QED
  BY <1>1, <1>2 DEF Next, Step
-----------------------------------------------------------------------------
(* Results, for every number of users, sessions and liens, and every set   *)
(* of movements, as long as the desk only places liens.                    *)

(* The statement-level ledger implements the atomic one: however reads,    *)
(* lock waits, sweeps, crashes and rejected commits interleave, every      *)
(* commit is one indivisible movement on the newest balances, together     *)
(* with the whole sweep it calls for.                                      *)
THEOREM LedgerIsAtomic ==
    ASSUME DeskOps \subseteq {"place"}
    PROVE  Spec => ActsAtomically
<1>1. Init => AtomicInv /\ Atomic!Init
  BY InitOnPath
<1>2. Safe /\ AtomicInv /\ [Next]_vars => AtomicInv'
  BY NextAtomic
<1>3. Safe /\ AtomicInv /\ [Next]_vars => [Atomic!Next]_row
  BY NextAtomic DEF AtomicStep
<1>4. QED
  BY <1>1, <1>2, <1>3, Safety, PTL DEF Spec, ActsAtomically, Atomic!Spec

(* What the table is like after every commit.                              *)
THEOREM TableInOrder ==
    ASSUME DeskOps \subseteq {"place"}
    PROVE  Spec => []AtomicInv
<1>1. Init => AtomicInv
  BY InitOnPath
<1>2. Safe /\ AtomicInv /\ [Next]_vars => AtomicInv'
  BY NextAtomic
<1>3. QED
  BY <1>1, <1>2, Safety, PTL DEF Spec

(* The freeze of a user is what the user's open liens still claim:         *)
(* schema.prisma's definition of lienBalance, kept by every sweep.         *)
THEOREM FreezeMatchesLiens ==
    ASSUME DeskOps \subseteq {"place"}
    PROVE  Spec => []LienBalanceMatchesActive
<1>1. AtomicInv => LienBalanceMatchesActive
  <2>1. \A r : ActiveOutstanding(r) = OwedOf(r.liens)
    BY DEF ActiveOutstanding, OwedOf
  <2>2. QED
    BY <2>1 DEF AtomicInv, TableOK, RowOK, Accounts, LienBalanceMatchesActive
<1>2. QED
  BY <1>1, TableInOrder, PTL

(* What left a user under a lien is what the company got for it and what   *)
(* the lien row says, and never more than the lien.                        *)
THEOREM RecoveriesAreDoubleEntries ==
    ASSUME DeskOps \subseteq {"place"}
    PROVE  Spec => []RecoveryIsDoubleEntry
<1>1. AtomicInv => RecoveryIsDoubleEntry
  <2>1. \A a, ref : Moved(a, "LIEN", ref) = MovedOf(row[a].txns["PRIMARY"], ref)
    BY DEF Moved, MovedOf
  <2>2. SUFFICES ASSUME AtomicInv, NEW u \in Retailers, NEW i \in 1..Len(row[u].liens)
                 PROVE  /\ -Moved(u, "LIEN", <<u, i>>) = row[u].liens[i].recovered
                        /\ Moved(Suspense, "LIEN", <<u, i>>) = row[u].liens[i].recovered
                        /\ row[u].liens[i].recovered <= row[u].liens[i].amount
    BY DEF RecoveryIsDoubleEntry
  <2>3. i \in Nat /\ u \in Accounts
    BY DEF Accounts
  <2>4. Matched(row, u, i) /\ RowOK(row[u])
    <3>1. TableOK(row)
      BY <2>2 DEF AtomicInv
    <3>2. QED BY <2>3, <3>1 DEF TableOK
  <2>5. QED
    <3>1. Recorded(row[u], i) = row[u].liens[i].recovered
      BY DEF Recorded
    <3>2. row[u].liens[i].recovered <= row[u].liens[i].amount
      BY <2>4 DEF RowOK, LienSound
    <3>3. /\ -Moved(u, "LIEN", <<u, i>>) = Recorded(row[u], i)
          /\ Moved(Suspense, "LIEN", <<u, i>>) = Recorded(row[u], i)
      BY <2>1, <2>4 DEF Matched
    <3>4. QED BY <3>1, <3>2, <3>3
<1>2. QED
  BY <1>1, TableInOrder, PTL

(* A younger lien is never paid while an older one is open.                *)
THEOREM OldestIsPaidFirst ==
    ASSUME DeskOps \subseteq {"place"}
    PROVE  Spec => OldestLienFirst
<1> DEFINE A == \A u \in Retailers : \A i, j \in 1..Len(row[u].liens) :
                  /\ i < j
                  /\ row'[u].liens[j].recovered > row[u].liens[j].recovered
                  => row'[u].liens[i].status # "ACTIVE"
<1>1. Safe /\ AtomicInv /\ [Next]_vars => [A]_row
  <2>1. SUFFICES ASSUME Safe, AtomicInv, [Next]_vars, row' # row PROVE A
    OBVIOUS
  <2>2. \A v \in Retailers : OldestStep(row[v], row'[v])
    BY <2>1, NextAtomic DEF AtomicStep
  <2>3. QED BY <2>2 DEF OldestStep
<1> HIDE DEF A
<1>2. Spec => [][A]_row
  BY <1>1, TableInOrder, Safety, PTL DEF Spec
<1>3. QED
  BY <1>2 DEF A, OldestLienFirst

(* Money owed under a lien never becomes spendable: what a credit leaves   *)
(* free, no lien claims, and spending or reserving leaves the frozen part. *)
THEOREM FrozenStaysFrozen ==
    ASSUME DeskOps \subseteq {"place"}
    PROVE  Spec => FrozenMoneyStaysFrozen
<1> DEFINE A == \A u \in Retailers :
                  /\ Credited(row[u], row'[u]) => row'[u].lien = 0 \/ Available(row'[u]) = 0
                  /\ row'[u].liens = row[u].liens /\ Spendable(row'[u]) < Spendable(row[u])
                       => Available(row'[u]) >= row'[u].lien
<1>1. Safe /\ AtomicInv /\ [Next]_vars => [A]_row
  <2>1. SUFFICES ASSUME Safe, AtomicInv, [Next]_vars, row' # row PROVE A
    OBVIOUS
  <2>2. \A v \in Retailers : FrozenStep(row[v], row'[v])
    BY <2>1, NextAtomic DEF AtomicStep
  <2>3. QED BY <2>2 DEF FrozenStep
<1> HIDE DEF A
<1>2. Spec => [][A]_row
  BY <1>1, TableInOrder, Safety, PTL DEF Spec
<1>3. QED
  BY <1>2 DEF A, FrozenMoneyStaysFrozen
=============================================================================
