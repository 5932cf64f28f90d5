---------------------------- MODULE LedgerProofs ----------------------------
(***************************************************************************)
(* Proofs about Ledger, for any number of users, sessions, movements and   *)
(* liens: types, solvency of every account and continuity of every         *)
(* passbook.                                                               *)
(*                                                                         *)
(* A committed row is only ever replaced by a session's copy of it, so the *)
(* invariant has to speak of the copies too: Safe says that every          *)
(* committed row and every copy under a lock is a good row.                *)
(***************************************************************************)
EXTENDS Ledger, SequenceTheorems, TLAPS

USE PrimaryIsABook, SuspenseIsNoRetailer, NoneIsNoSession

Pcs == {"idle", "check", "lock", "read", "sweep", "take", "debitSuspense", "lockSuspense",
        "creditUser", "lockUser", "close", "commit"}

(* Where only a desk request for a lien can be. *)
AtDesk == {"read", "debitSuspense", "lockSuspense", "creditUser", "lockUser"}
USE DEF AtDesk

Ops == [kind : Funds \cup LienDesk \cup {"none"}, user : Accounts, book : Books,
        amt : Nat, key : Keyed, ref : Nat]
Seen == [i : Nat, lien : Lien]

(* What a good row is: solvent, and every passbook continuous. *)
Good(r) == Solvent(r) /\ \A b \in Books : Continuous(r.txns[b], r.bal[b])

-----------------------------------------------------------------------------
(* The row operators. *)

LEMMA RowFields ==
    ASSUME NEW r \in Row
    PROVE  /\ r.bal \in Balances /\ r.held \in Int /\ r.lien \in Int
           /\ r.txns \in Passbooks /\ r.liens \in Liens
           /\ \A b \in Books : r.bal[b] \in Int /\ r.txns[b] \in Seq(Entry)
<1>1. /\ r.bal \in Balances /\ r.held \in Int /\ r.lien \in Int
      /\ r.txns \in Passbooks /\ r.liens \in Liens
  BY DEF Row
<1>2. QED
  BY <1>1 DEF Balances, Passbooks

LEMMA LienFields ==
    ASSUME NEW l \in Lien
    PROVE  /\ l.status \in {"ACTIVE", "RECOVERED", "RELEASED"}
           /\ l.amount \in Nat /\ l.recovered \in Nat
BY DEF Lien

LEMMA EntryFields == ASSUME NEW e \in Entry PROVE e.after \in Int /\ e.delta \in Int
BY DEF Entry

LEMMA LienAt ==
    ASSUME NEW r \in Row, NEW i \in 1..Len(r.liens)
    PROVE  r.liens[i] \in Lien
<1>1. r.liens \in Seq(Lien)
  BY RowFields DEF Liens
<1>2. QED
  BY <1>1

LEMMA EmptyRowFacts == EmptyRow \in Row /\ Good(EmptyRow)
<1>1. /\ [b \in Books |-> 0] \in Balances
      /\ [b \in Books |-> <<>>] \in Passbooks
      /\ <<>> \in Liens
  BY DEF Balances, Passbooks, Liens
<1>2. EmptyRow \in Row
  BY <1>1 DEF EmptyRow, Row
<1>3. Good(EmptyRow)
  BY DEF EmptyRow, Good, Solvent, Continuous
<1>4. QED
  BY <1>2, <1>3

(* Writing single columns of a row. *)
LEMMA WriteHeld ==
    ASSUME NEW r \in Row, NEW h \in Int, NEW q, q = [r EXCEPT !.held = h]
    PROVE  /\ q \in Row /\ q.held = h /\ q.bal = r.bal /\ q.lien = r.lien
           /\ q.txns = r.txns /\ q.liens = r.liens
BY DEF Row

LEMMA WriteFrozen ==
    ASSUME NEW r \in Row, NEW h \in Int, NEW q, q = SetFrozen(r, h)
    PROVE  /\ q \in Row /\ q.held = r.held /\ q.bal = r.bal /\ q.lien = h
           /\ q.txns = r.txns /\ q.liens = r.liens
BY DEF Row, SetFrozen

LEMMA WriteLiens ==
    ASSUME NEW r \in Row, NEW ls \in Liens, NEW q, q = [r EXCEPT !.liens = ls]
    PROVE  /\ q \in Row /\ q.held = r.held /\ q.bal = r.bal /\ q.lien = r.lien
           /\ q.txns = r.txns /\ q.liens = ls
BY DEF Row

LEMMA WriteBook ==
    ASSUME NEW r \in Row, NEW bal \in Balances, NEW txns \in Passbooks,
           NEW q, q = Booked(r, bal, txns)
    PROVE  /\ q \in Row /\ q.held = r.held /\ q.lien = r.lien /\ q.liens = r.liens
           /\ q.bal = bal /\ q.txns = txns
<1>1. /\ r.held \in Int /\ r.lien \in Int /\ r.liens \in Liens
  BY RowFields
<1>2. QED
  BY <1>1 DEF Row, Booked

(* Goodness does not look at the lien columns. *)
LEMMA GoodOf ==
    ASSUME NEW r, NEW q, Good(r), q.bal = r.bal, q.txns = r.txns, q.held = r.held
    PROVE  Good(q)
BY DEF Good, Solvent

-----------------------------------------------------------------------------
(* Posting a WalletTxn. *)

Reasons == {"MOVE", "LIEN", "REVERSAL"}

TxnOf(r, b, delta, key, reason, ref) ==
    [delta |-> delta, after |-> r.bal[b] + delta, key |-> key, reason |-> reason, ref |-> ref]

LEMMA TxnOfFacts ==
    ASSUME NEW r \in Row, NEW b \in Books, NEW delta \in Int, NEW key \in Keyed,
           NEW reason \in Reasons, NEW ref \in Refs, NEW e, e = TxnOf(r, b, delta, key, reason, ref)
    PROVE  e \in Entry /\ e.after = r.bal[b] + delta /\ e.delta = delta
<1>1. r.bal[b] + delta \in Int
  BY RowFields
<1>2. QED
  BY <1>1 DEF TxnOf, Entry, Reasons

LEMMA PostFields ==
    ASSUME NEW r \in Row, NEW b \in Books, NEW delta \in Int, NEW key \in Keyed,
           NEW reason \in Reasons, NEW ref \in Refs,
           NEW p, p = Post(r, b, delta, key, reason, ref),
           NEW bal, bal = [r.bal EXCEPT ![b] = r.bal[b] + delta],
           NEW txns, txns = [r.txns EXCEPT ![b] = Append(r.txns[b], TxnOf(r, b, delta, key, reason, ref))]
    PROVE  /\ p \in Row /\ p.held = r.held /\ p.lien = r.lien /\ p.liens = r.liens
           /\ p.bal = bal /\ p.txns = txns
<1> DEFINE e == TxnOf(r, b, delta, key, reason, ref)
<1>1. p = Booked(r, bal, txns)
  BY DEF Post, TxnOf
<1>2. e \in Entry
  BY TxnOfFacts
<1>3. r.bal \in Balances /\ r.txns \in Passbooks /\ r.bal[b] + delta \in Int /\ r.txns[b] \in Seq(Entry)
  BY RowFields
<1> HIDE DEF e
<1>4. Append(r.txns[b], e) \in Seq(Entry)
  BY <1>2, <1>3
<1>5. bal \in Balances
  BY <1>3 DEF Balances
<1>6. txns \in Passbooks
  BY <1>3, <1>4 DEF Passbooks, e
<1>7. QED
  BY <1>1, <1>5, <1>6, WriteBook

LEMMA PostRow ==
    ASSUME NEW r \in Row, NEW b \in Books, NEW delta \in Int, NEW key \in Keyed,
           NEW reason \in Reasons, NEW ref \in Refs,
           NEW p, p = Post(r, b, delta, key, reason, ref)
    PROVE  p \in Row /\ p.held = r.held /\ p.lien = r.lien /\ p.liens = r.liens
<1> DEFINE bal == [r.bal EXCEPT ![b] = r.bal[b] + delta]
           txns == [r.txns EXCEPT ![b] = Append(r.txns[b], TxnOf(r, b, delta, key, reason, ref))]
<1>1. /\ p \in Row /\ p.held = r.held /\ p.lien = r.lien /\ p.liens = r.liens
      /\ p.bal = bal /\ p.txns = txns
  <2> HIDE DEF bal, txns
  <2>1. QED BY PostFields DEF bal, txns
<1>2. QED
  BY <1>1

LEMMA PostBal ==
    ASSUME NEW r \in Row, NEW b \in Books, NEW delta \in Int, NEW key \in Keyed,
           NEW reason \in Reasons, NEW ref \in Refs,
           NEW p, p = Post(r, b, delta, key, reason, ref)
    PROVE  p.bal = [r.bal EXCEPT ![b] = r.bal[b] + delta]
<1> DEFINE bal == [r.bal EXCEPT ![b] = r.bal[b] + delta]
           txns == [r.txns EXCEPT ![b] = Append(r.txns[b], TxnOf(r, b, delta, key, reason, ref))]
<1>1. /\ p \in Row /\ p.held = r.held /\ p.lien = r.lien /\ p.liens = r.liens
      /\ p.bal = bal /\ p.txns = txns
  <2> HIDE DEF bal, txns
  <2>1. QED BY PostFields DEF bal, txns
<1>2. QED
  BY <1>1

LEMMA PostTxns ==
    ASSUME NEW r \in Row, NEW b \in Books, NEW delta \in Int, NEW key \in Keyed,
           NEW reason \in Reasons, NEW ref \in Refs,
           NEW p, p = Post(r, b, delta, key, reason, ref)
    PROVE  p.txns = [r.txns EXCEPT ![b] = Append(r.txns[b], TxnOf(r, b, delta, key, reason, ref))]
<1> DEFINE bal == [r.bal EXCEPT ![b] = r.bal[b] + delta]
           txns == [r.txns EXCEPT ![b] = Append(r.txns[b], TxnOf(r, b, delta, key, reason, ref))]
<1>1. /\ p \in Row /\ p.held = r.held /\ p.lien = r.lien /\ p.liens = r.liens
      /\ p.bal = bal /\ p.txns = txns
  <2> HIDE DEF bal, txns
  <2>1. QED BY PostFields DEF bal, txns
<1>2. QED
  BY <1>1

(* A passbook that ends at its column still does after one more entry.     *)
LEMMA AppendContinuous ==
    ASSUME NEW t \in Seq(Entry), NEW bal \in Int, NEW delta \in Int, NEW e \in Entry,
           e.after = bal + delta, e.delta = delta, Continuous(t, bal)
    PROVE  Continuous(Append(t, e), bal + delta)
<1> DEFINE n == Len(t)
           q == Append(t, e)
<1>0. n \in Nat /\ \A i \in 1..n : t[i] \in Entry
  OBVIOUS
<1>1. n \in Nat /\ \A i \in 1..n : t[i].after \in Int /\ t[i].delta \in Int
  BY <1>0, EntryFields
<1>2. Len(q) = n + 1 /\ q[n + 1] = e /\ \A i \in 1..n : q[i] = t[i]
  OBVIOUS
<1>3. /\ \A i \in 1..n : t[i].after = (IF i = 1 THEN 0 ELSE t[i - 1].after) + t[i].delta
      /\ bal = IF n = 0 THEN 0 ELSE t[n].after
  BY DEF Continuous
<1> HIDE DEF n, q
<1>4. ASSUME NEW i \in 1..(n + 1)
      PROVE  q[i].after = (IF i = 1 THEN 0 ELSE q[i - 1].after) + q[i].delta
  <2>1. CASE i \in 1..n
    <3>1. i # 1 => i - 1 \in 1..n
      BY <1>1, <2>1
    <3>2. QED BY <1>1, <1>2, <1>3, <2>1, <3>1
  <2>2. CASE i = n + 1
    <3>1. n # 0 => n \in 1..n
      BY <1>1
    <3>2. QED BY <1>1, <1>2, <1>3, <2>2, <3>1
  <2>3. QED BY <1>1, <2>1, <2>2
<1>5. Len(q) # 0 /\ q[Len(q)].after = bal + delta
  BY <1>1, <1>2
<1>6. QED
  BY <1>2, <1>4, <1>5 DEF Continuous, q

LEMMA PostGood ==
    ASSUME NEW r \in Row, NEW b \in Books, NEW delta \in Int, NEW key \in Keyed,
           NEW reason \in Reasons, NEW ref \in Refs,
           NEW p, p = Post(r, b, delta, key, reason, ref),
           Good(r), 0 <= r.bal[b] + delta, b = "PRIMARY" => r.held <= r.bal[b] + delta
    PROVE  Good(p)
<1> DEFINE e == TxnOf(r, b, delta, key, reason, ref)
<1>1. /\ p.bal = [r.bal EXCEPT ![b] = r.bal[b] + delta]
      /\ p.held = r.held
      /\ p.txns = [r.txns EXCEPT ![b] = Append(r.txns[b], e)]
  <2>1. p.bal = [r.bal EXCEPT ![b] = r.bal[b] + delta]
    BY PostBal
  <2>2. p.held = r.held
    BY PostRow
  <2>3. p.txns = [r.txns EXCEPT ![b] = Append(r.txns[b], e)]
    BY PostTxns
  <2>4. QED BY <2>1, <2>2, <2>3
<1>2. e \in Entry /\ e.after = r.bal[b] + delta /\ e.delta = delta
  BY TxnOfFacts
<1> HIDE DEF e
<1>3. r.bal \in Balances /\ r.txns \in Passbooks
  BY RowFields
<1>4. Solvent(p)
  BY <1>1, <1>3, RowFields DEF Good, Solvent, Balances
<1>5. ASSUME NEW c \in Books PROVE Continuous(p.txns[c], p.bal[c])
  <2>1. CASE c = b
    <3>1. Continuous(Append(r.txns[b], e), r.bal[b] + delta)
      BY <1>2, AppendContinuous, RowFields DEF Good
    <3>2. p.txns[b] = Append(r.txns[b], e) /\ p.bal[b] = r.bal[b] + delta
      BY <1>1, <1>3 DEF Balances, Passbooks
    <3>3. QED BY <2>1, <3>1, <3>2
  <2>2. CASE c # b
    <3>1. p.txns[c] = r.txns[c] /\ p.bal[c] = r.bal[c]
      BY <1>1, <1>3, <2>2 DEF Balances, Passbooks
    <3>2. QED BY <3>1 DEF Good
  <2>3. QED BY <2>1, <2>2
<1>6. QED
  BY <1>4, <1>5 DEF Good

-----------------------------------------------------------------------------
(* What each operation does to a good row. *)

LEMMA CreditFacts ==
    ASSUME NEW r \in Row, NEW b \in Books, NEW amt \in Nat, NEW key \in Keyed,
           NEW reason \in Reasons, NEW ref \in Refs, Good(r),
           NEW p, p = Post(r, b, amt, key, reason, ref)
    PROVE  p \in Row /\ Good(p) /\ p.lien = r.lien
<1>1. /\ 0 <= r.bal[b] + amt
      /\ b = "PRIMARY" => r.held <= r.bal[b] + amt
  BY RowFields DEF Good, Solvent
<1>2. amt \in Int
  OBVIOUS
<1>3. p \in Row /\ p.lien = r.lien
  BY <1>2, PostRow
<1>4. Good(p)
  BY <1>1, <1>2, PostGood
<1>5. QED
  BY <1>3, <1>4

LEMMA DebitFacts ==
    ASSUME NEW r \in Row, NEW b \in Books, NEW amt \in Nat, NEW key \in Keyed,
           NEW reason \in Reasons, NEW ref \in Refs,
           Good(r), 0 <= r.lien, CanDebit(r, b, amt),
           NEW p, p = Post(r, b, -amt, key, reason, ref)
    PROVE  p \in Row /\ Good(p) /\ p.lien = r.lien
<1>1. /\ 0 <= r.bal[b] - amt
      /\ b = "PRIMARY" => r.held <= r.bal[b] - amt
  BY RowFields DEF CanDebit, Spendable, Available, Floor0, Good, Solvent
<1>2. -amt \in Int /\ r.bal[b] + (-amt) = r.bal[b] - amt
  BY RowFields
<1> DEFINE delta == -amt
<1>3. /\ delta \in Int /\ p = Post(r, b, delta, key, reason, ref)
      /\ 0 <= r.bal[b] + delta
      /\ b = "PRIMARY" => r.held <= r.bal[b] + delta
  BY <1>1, <1>2
<1> HIDE DEF delta
<1>4. p \in Row /\ p.lien = r.lien
  BY <1>3, PostRow
<1>5. Good(p)
  BY <1>3, PostGood
<1>6. QED
  BY <1>4, <1>5

LEMMA HoldFacts ==
    ASSUME NEW r \in Row, NEW amt \in Nat, Good(r), 0 <= r.lien, amt <= Spendable(r),
           NEW q, q = Hold(r, amt)
    PROVE  q \in Row /\ Good(q) /\ q.lien = r.lien
<1>0. r.held + amt \in Int
  BY RowFields
<1>1. q \in Row /\ q.held = r.held + amt /\ q.bal = r.bal /\ q.lien = r.lien /\ q.txns = r.txns
  BY <1>0, WriteHeld DEF Hold
<1>2. Good(q)
  BY <1>1, RowFields DEF Good, Solvent, Spendable, Available, Floor0
<1>3. QED
  BY <1>1, <1>2

LEMMA UnholdFacts ==
    ASSUME NEW r \in Row, NEW amt \in Nat, Good(r), amt <= r.held, NEW q, q = Unhold(r, amt)
    PROVE  q \in Row /\ Good(q) /\ q.lien = r.lien
<1>0. r.held - amt \in Int
  BY RowFields
<1>1. q \in Row /\ q.held = r.held - amt /\ q.bal = r.bal /\ q.lien = r.lien /\ q.txns = r.txns
  BY <1>0, WriteHeld DEF Unhold
<1>2. Good(q)
  BY <1>1, RowFields DEF Good, Solvent
<1>3. QED
  BY <1>1, <1>2

(* The capture passes through a row whose hold exceeds its balance: the    *)
(* two halves are only good together.                                      *)
LEMMA CaptureFacts ==
    ASSUME NEW r \in Row, NEW amt \in Nat, NEW key \in Keyed, Good(r), amt <= r.held,
           NEW q, q = Capture(r, amt, key)
    PROVE  q \in Row /\ Good(q) /\ q.lien = r.lien
<1> DEFINE b == "PRIMARY"
           delta == -amt
           p == Post(r, b, delta, key, "MOVE", Null)
           e == TxnOf(r, b, delta, key, "MOVE", Null)
<1>0. delta \in Int /\ "MOVE" \in Reasons /\ Null \in Refs /\ b \in Books
  BY DEF Reasons, Refs
<1>3. q = [p EXCEPT !.held = p.held - amt]
  BY DEF Capture, Unhold
<1>11. delta = -amt
  OBVIOUS
<1> HIDE DEF delta
<1>1. /\ p \in Row /\ p.held = r.held /\ p.lien = r.lien
      /\ p.bal = [r.bal EXCEPT ![b] = r.bal[b] + delta]
      /\ p.txns = [r.txns EXCEPT ![b] = Append(r.txns[b], e)]
  <2>1. p.bal = [r.bal EXCEPT ![b] = r.bal[b] + delta]
    BY <1>0, PostBal
  <2>2. p \in Row /\ p.held = r.held /\ p.lien = r.lien
    BY <1>0, PostRow
  <2>3. p.txns = [r.txns EXCEPT ![b] = Append(r.txns[b], e)]
    BY <1>0, PostTxns
  <2>4. QED BY <2>1, <2>2, <2>3
<1>2. e \in Entry /\ e.after = r.bal[b] + delta /\ e.delta = delta
  BY <1>0, TxnOfFacts
<1> HIDE DEF p, e
<1>12. p.held - amt \in Int
  BY <1>1, RowFields
<1>4. q \in Row /\ q.held = r.held - amt /\ q.bal = p.bal /\ q.lien = r.lien /\ q.txns = p.txns
  BY <1>1, <1>3, <1>12, WriteHeld
<1>5. Solvent(q)
  BY <1>1, <1>4, <1>11, RowFields DEF Good, Solvent, Balances
<1>6. r.bal \in Balances /\ r.txns \in Passbooks
  BY RowFields
<1>7. ASSUME NEW c \in Books PROVE Continuous(q.txns[c], q.bal[c])
  <2>1. CASE c = b
    <3>1. Continuous(Append(r.txns[b], e), r.bal[b] + delta)
      BY <1>0, <1>2, AppendContinuous, RowFields DEF Good
    <3>2. q.txns[b] = Append(r.txns[b], e) /\ q.bal[b] = r.bal[b] + delta
      BY <1>1, <1>4, <1>6 DEF Balances, Passbooks
    <3>3. QED BY <2>1, <3>1, <3>2
  <2>2. CASE c # b
    <3>1. q.txns[c] = r.txns[c] /\ q.bal[c] = r.bal[c]
      BY <1>1, <1>4, <1>6, <2>2 DEF Balances, Passbooks
    <3>2. QED BY <3>1 DEF Good
  <2>3. QED BY <2>1, <2>2
<1>8. QED
  BY <1>4, <1>5, <1>7 DEF Good

LEMMA PlaceLienFacts ==
    ASSUME NEW r \in Row, NEW amt \in Nat, Good(r), NEW q, q = PlaceLien(r, amt)
    PROVE  q \in Row /\ Good(q)
<1> DEFINE l == [status |-> "ACTIVE", amount |-> amt, recovered |-> 0]
           p == AddLien(r, l)
<1>0. l \in Lien
  BY DEF Lien
<1>1. Append(r.liens, l) \in Liens
  <2> HIDE DEF l
  <2>1. r.liens \in Seq(Lien)
    BY RowFields DEF Liens
  <2>2. QED BY <1>0, <2>1 DEF Liens
<1>3. q = SetFrozen(p, r.lien + amt)
  BY DEF PlaceLien
<1> HIDE DEF l
<1>2. /\ p \in Row /\ p.held = r.held /\ p.bal = r.bal /\ p.txns = r.txns /\ p.lien = r.lien
  <2> DEFINE ls == Append(r.liens, l)
  <2>1. p = [r EXCEPT !.liens = ls]
    BY DEF AddLien
  <2>2. ls \in Liens
    BY <1>1
  <2> HIDE DEF ls, p
  <2>3. QED BY <2>1, <2>2, WriteLiens
<1> HIDE DEF p
<1>33. r.lien + amt \in Int
  BY RowFields
<1>4. q \in Row /\ q.held = r.held /\ q.bal = r.bal /\ q.txns = r.txns
  BY <1>2, <1>3, <1>33, WriteFrozen
<1>5. QED
  BY <1>4, GoodOf

LEMMA ReleaseFreezeFacts ==
    ASSUME NEW r \in Row, NEW amt \in Int, Good(r), NEW q, q = ReleaseFreeze(r, amt)
    PROVE  q \in Row /\ Good(q)
<1>1. Floor0(r.lien - amt) \in Int
  BY RowFields DEF Floor0
<1>2. q \in Row /\ q.held = r.held /\ q.bal = r.bal /\ q.txns = r.txns
  BY <1>1, WriteFrozen DEF ReleaseFreeze
<1>3. QED
  BY <1>2, GoodOf

LEMMA SetLienFacts ==
    ASSUME NEW r \in Row, NEW i \in Nat, NEW l, i \in 1..Len(r.liens) => l \in Lien,
           NEW q, q = SetLien(r, i, l)
    PROVE  q \in Row /\ q.held = r.held /\ q.bal = r.bal /\ q.txns = r.txns /\ q.lien = r.lien
<1>1. [r.liens EXCEPT ![i] = l] \in Liens
  <2>1. r.liens \in Seq(Lien)
    BY RowFields DEF Liens
  <2>2. CASE i \in 1..Len(r.liens)
    BY <2>1, <2>2, ExceptSeq DEF Liens
  <2>3. CASE i \notin 1..Len(r.liens)
    <3>1. DOMAIN r.liens = 1..Len(r.liens)
      BY <2>1
    <3>2. [r.liens EXCEPT ![i] = l] = [x \in 1..Len(r.liens) |-> r.liens[x]]
      BY <3>1, <2>3
    <3>3. [x \in 1..Len(r.liens) |-> r.liens[x]] = r.liens
      BY <2>1
    <3>4. QED BY <2>1, <3>2, <3>3 DEF Liens
  <2>4. QED BY <2>2, <2>3
<1>2. QED
  <2> DEFINE ls == [r.liens EXCEPT ![i] = l]
  <2>1. q = [r EXCEPT !.liens = ls] /\ ls \in Liens
    BY <1>1 DEF SetLien
  <2> HIDE DEF ls
  <2>2. QED BY <2>1, WriteLiens

LEMMA CloseLienFacts ==
    ASSUME NEW r \in Row, NEW i \in Nat, Good(r), NEW q, q = CloseLien(r, i)
    PROVE  q \in Row /\ Good(q) /\ q.lien = r.lien
<1> DEFINE l == [r.liens[i] EXCEPT !.status = "RELEASED"]
<1>1. ASSUME i \in 1..Len(r.liens) PROVE l \in Lien
  <2>1. r.liens[i] \in Lien
    BY <1>1, LienAt
  <2>2. QED
    BY <2>1 DEF Lien
<1>2. q \in Row /\ q.held = r.held /\ q.bal = r.bal /\ q.txns = r.txns /\ q.lien = r.lien
  BY <1>1, SetLienFacts DEF CloseLien
<1>3. QED
  BY <1>2, GoodOf

(* One round of the sweep never takes what is held. *)
LEMMA TakeFacts ==
    ASSUME NEW r \in Row, NEW rs \in Row, NEW u \in Retailers, NEW i \in Nat, NEW l \in Lien,
           Good(r), Good(rs), Outstanding(l) > 0, Available(r) > 0,
           NEW q, q = TakeFromUser(r, u, i, l),
           NEW p, p = TakeToSuspense(rs, TakeAmount(r, l), u, i)
    PROVE  q \in Row /\ Good(q) /\ p \in Row /\ Good(p) /\ p.lien = rs.lien
<1> DEFINE s == TakeAmount(r, l)
           delta == -s
           left == r.lien - s
           posted == Post(r, "PRIMARY", delta, Null, "LIEN", <<u, i>>)
           thawed == SetFrozen(posted, left)
           done == [status |-> IF l.recovered + s >= l.amount THEN "RECOVERED" ELSE r.liens[i].status,
                    amount |-> l.amount, recovered |-> l.recovered + s]
<1>1. q = SetLien(thawed, i, done) /\ p = Post(rs, "PRIMARY", s, Null, "LIEN", <<u, i>>)
  BY DEF TakeFromUser, TakeToSuspense
<1>2. l.amount \in Nat /\ l.recovered \in Nat /\ Available(r) \in Int
  BY RowFields, LienFields DEF Available
<1>3. s \in Nat /\ s <= Available(r) /\ l.recovered + s \in Nat
  BY <1>2 DEF TakeAmount, Smaller, Outstanding
<1> HIDE DEF s
<1>4. <<u, i>> \in Refs /\ Null \in Keyed /\ "LIEN" \in Reasons
  BY DEF Refs, Keyed, Reasons
<1>5. p \in Row /\ Good(p) /\ p.lien = rs.lien
  BY <1>1, <1>3, <1>4, CreditFacts
<1>6. ASSUME i \in 1..Len(r.liens) PROVE done \in Lien
  <2>1. r.liens[i].status \in {"ACTIVE", "RECOVERED", "RELEASED"}
    BY <1>6, LienAt, LienFields
  <2>2. QED
    BY <1>2, <1>3, <2>1 DEF Lien
<1>7. /\ delta \in Int /\ left \in Int
      /\ 0 <= r.bal["PRIMARY"] + delta /\ r.held <= r.bal["PRIMARY"] + delta
  BY <1>3, RowFields DEF Available, Good, Solvent
<1> HIDE DEF delta, left, done
<1>8. posted \in Row /\ posted.liens = r.liens
  BY <1>4, <1>7, PostRow
<1>9. Good(posted)
  BY <1>4, <1>7, PostGood
<1> HIDE DEF posted
<1>10. /\ thawed \in Row /\ thawed.held = posted.held /\ thawed.bal = posted.bal
       /\ thawed.txns = posted.txns /\ thawed.liens = posted.liens
  BY Z3, <1>7, <1>8, WriteFrozen
<1> HIDE DEF thawed
<1>14. i \in 1..Len(thawed.liens) => done \in Lien
  BY <1>6, <1>8, <1>10
<1>11. /\ q \in Row /\ q.held = thawed.held /\ q.bal = thawed.bal /\ q.txns = thawed.txns
  <2>1. thawed \in Row /\ q = SetLien(thawed, i, done)
    BY <1>1, <1>10
  <2>2. QED BY Z3, <1>14, <2>1, SetLienFacts
<1>12. Good(q)
  BY <1>9, <1>10, <1>11, GoodOf
<1>13. QED
  BY <1>5, <1>11, <1>12

-----------------------------------------------------------------------------
(* The inductive invariant. *)

RowsGood == \A a \in Accounts : Good(row[a]) /\ 0 <= row[a].lien

(* A copy under a lock is good, though its lien column may be negative     *)
(* until the CHECK constraint is evaluated; the suspense account's is not, *)
(* because no lien is ever placed on it.                                   *)
CopiesGood ==
    \A s \in Sessions, a \in Accounts :
        Mine(s, a) => Good(work[s][a]) /\ (a = Suspense => 0 <= work[s][a].lien)

(* Where a session is decides what it may assume of its request. *)
ControlOK ==
    \A s \in Sessions :
        /\ op[s].kind \in LienDesk => op[s].user \in Retailers
        /\ pc[s] \in AtDesk => op[s].kind \in LienDesk
        /\ pc[s] = "take" => /\ op[s].user \in Retailers
                             /\ \A x \in seen[s] : Outstanding(x.lien) > 0

Safe == TypeOK /\ RowsGood /\ CopiesGood /\ ControlOK

(* The type invariant as facts about single elements. *)
LEMMA Types ==
    ASSUME TypeOK, NEW s \in Sessions, NEW a \in Accounts
    PROVE  /\ row[a] \in Row /\ work[s][a] \in Row /\ View(s, a) \in Row
           /\ op[s] \in Ops /\ pc[s] \in Pcs /\ seen[s] \subseteq Seen
           /\ lock[a] \in Sessions \cup {None}
BY DEF TypeOK, View, Ops, Pcs, Seen

LEMMA OpFields ==
    ASSUME NEW o \in Ops
    PROVE  /\ o.kind \in Funds \cup LienDesk \cup {"none"} /\ o.user \in Accounts
           /\ o.book \in Books /\ o.amt \in Nat /\ o.key \in Keyed /\ o.ref \in Nat
BY DEF Ops

LEMMA NoOpFacts == NoOp \in Ops /\ NoOp.kind \notin LienDesk /\ Suspense \in Accounts
BY DEF NoOp, Ops, Accounts, Keyed, LienDesk

LEMMA TypeOKFrom ==
    ASSUME row \in [Accounts -> Row], lock \in [Accounts -> Sessions \cup {None}],
           pc \in [Sessions -> Pcs], op \in [Sessions -> Ops],
           work \in [Sessions -> [Accounts -> Row]], seen \in [Sessions -> SUBSET Seen]
    PROVE  TypeOK
BY DEF TypeOK, Pcs, Ops, Seen

LEMMA TypeOKGives ==
    ASSUME TypeOK
    PROVE  /\ row \in [Accounts -> Row] /\ lock \in [Accounts -> Sessions \cup {None}]
           /\ pc \in [Sessions -> Pcs] /\ op \in [Sessions -> Ops]
           /\ work \in [Sessions -> [Accounts -> Row]] /\ seen \in [Sessions -> SUBSET Seen]
BY DEF TypeOK, Pcs, Ops, Seen

(* The row a session sees is good. *)
LEMMA ViewGood ==
    ASSUME Safe, NEW s \in Sessions, NEW a \in Accounts
    PROVE  Good(View(s, a)) /\ (a = Suspense => 0 <= View(s, a).lien)
BY DEF Safe, RowsGood, CopiesGood, View

LEMMA InitSafe == Init => Safe
<1> SUFFICES ASSUME Init PROVE Safe
  OBVIOUS
<1>1. EmptyRow \in Row /\ Good(EmptyRow) /\ EmptyRow.lien = 0
  BY EmptyRowFacts DEF EmptyRow
<1>2. TypeOK
  BY <1>1, NoOpFacts, TypeOKFrom DEF Init, Pcs
<1>3. RowsGood
  BY <1>1 DEF Init, RowsGood
<1>4. CopiesGood
  BY DEF Init, CopiesGood, Mine
<1>5. ControlOK
  BY NoOpFacts DEF Init, ControlOK
<1>6. QED
  BY <1>2, <1>3, <1>4, <1>5 DEF Safe

(* The three ways a step ends. *)
LEMMA WriteSafe ==
    ASSUME Safe, NEW s \in Sessions, NEW a \in Accounts, NEW r \in Row, NEW next \in Pcs,
           Good(r), a = Suspense => 0 <= r.lien,
           next \in AtDesk => op[s].kind \in LienDesk,
           next = "take" => pc[s] = "take",
           Write(s, a, r, next)
    PROVE  Safe'
<1>1. /\ lock' = [lock EXCEPT ![a] = s] /\ pc' = [pc EXCEPT ![s] = next]
      /\ work' = [work EXCEPT ![s][a] = r]
      /\ row' = row /\ op' = op /\ seen' = seen
  BY DEF Write
<1>2. /\ row \in [Accounts -> Row] /\ lock \in [Accounts -> Sessions \cup {None}]
      /\ pc \in [Sessions -> Pcs] /\ op \in [Sessions -> Ops]
      /\ work \in [Sessions -> [Accounts -> Row]] /\ seen \in [Sessions -> SUBSET Seen]
  BY TypeOKGives DEF Safe
<1>3. TypeOK'
  <2>1. work' \in [Sessions -> [Accounts -> Row]]
    BY <1>1, <1>2
  <2>2. lock' \in [Accounts -> Sessions \cup {None}] /\ pc' \in [Sessions -> Pcs]
    BY <1>1, <1>2
  <2>3. QED
    BY <1>1, <1>2, <2>1, <2>2 DEF TypeOK, Pcs, Ops, Seen
<1>4. RowsGood'
  BY <1>1 DEF Safe, RowsGood
<1>5. CopiesGood'
  <2> SUFFICES ASSUME NEW t \in Sessions, NEW x \in Accounts, Mine(t, x)'
               PROVE  Good(work[t][x])' /\ (x = Suspense => 0 <= work'[t][x].lien)
    BY DEF CopiesGood
  <2>1. CASE t = s /\ x = a
    BY <1>1, <1>2, <2>1 DEF Good, Solvent, Continuous
  <2>2. CASE t = s /\ x # a
    BY <1>1, <1>2, <2>2 DEF Safe, CopiesGood, Mine
  <2>3. CASE t # s
    BY <1>1, <1>2, <2>3 DEF Safe, CopiesGood, Mine
  <2>4. QED BY <2>1, <2>2, <2>3
<1>6. ControlOK'
  BY <1>1, <1>2 DEF Safe, ControlOK
<1>7. QED
  BY <1>3, <1>4, <1>5, <1>6 DEF Safe

LEMMA EndSafe ==
    ASSUME Safe, NEW s \in Sessions, End(s),
           row' \in [Accounts -> Row], \A a \in Accounts : Good(row'[a]) /\ 0 <= row'[a].lien
    PROVE  Safe'
<1>1. /\ lock' = [a \in Accounts |-> IF Mine(s, a) THEN None ELSE lock[a]]
      /\ pc' = [pc EXCEPT ![s] = "idle"] /\ op' = [op EXCEPT ![s] = NoOp]
      /\ work' = [work EXCEPT ![s] = [a \in Accounts |-> EmptyRow]]
      /\ seen' = [seen EXCEPT ![s] = {}]
  BY DEF End
<1>2. /\ lock \in [Accounts -> Sessions \cup {None}]
      /\ pc \in [Sessions -> Pcs] /\ op \in [Sessions -> Ops]
      /\ work \in [Sessions -> [Accounts -> Row]] /\ seen \in [Sessions -> SUBSET Seen]
  BY TypeOKGives DEF Safe
<1>3. TypeOK'
  <2>1. work' \in [Sessions -> [Accounts -> Row]] /\ op' \in [Sessions -> Ops]
    BY <1>1, <1>2, EmptyRowFacts, NoOpFacts
  <2>2. lock' \in [Accounts -> Sessions \cup {None}] /\ pc' \in [Sessions -> Pcs]
        /\ seen' \in [Sessions -> SUBSET Seen]
    BY <1>1, <1>2 DEF Pcs
  <2>3. QED
    BY <2>1, <2>2 DEF TypeOK, Pcs, Ops, Seen
<1>4. RowsGood'
  BY DEF RowsGood
<1>5. CopiesGood'
  <2> SUFFICES ASSUME NEW t \in Sessions, NEW x \in Accounts, Mine(t, x)'
               PROVE  Good(work[t][x])' /\ (x = Suspense => 0 <= work'[t][x].lien)
    BY DEF CopiesGood
  <2>1. t # s /\ lock[x] = t
    BY <1>1, <1>2 DEF Mine
  <2>2. work'[t] = work[t]
    BY <1>1, <1>2, <2>1
  <2>3. QED
    BY <2>1, <2>2 DEF Safe, CopiesGood, Mine
<1>6. ControlOK'
  BY <1>1, <1>2, NoOpFacts DEF Safe, ControlOK
<1>7. QED
  BY <1>3, <1>4, <1>5, <1>6 DEF Safe

LEMMA RollbackSafe == ASSUME Safe, NEW s \in Sessions, Rollback(s) PROVE Safe'
<1>1. row' = row /\ End(s)
  BY DEF Rollback
<1>2. row \in [Accounts -> Row]
  BY TypeOKGives DEF Safe
<1>3. QED
  BY <1>1, <1>2, EndSafe DEF Safe, RowsGood

LEMMA ContinueSafe ==
    ASSUME Safe, NEW s \in Sessions, NEW next \in Pcs, Continue(s, next),
           NEW read \in SUBSET Seen, seen' = [seen EXCEPT ![s] = read],
           next \in AtDesk => op[s].kind \in LienDesk,
           next = "take" => /\ op[s].user \in Retailers
                            /\ \A x \in read : Outstanding(x.lien) > 0
    PROVE  Safe'
<1>1. /\ pc' = [pc EXCEPT ![s] = next] /\ row' = row /\ lock' = lock /\ op' = op /\ work' = work
  BY DEF Continue
<1>2. /\ row \in [Accounts -> Row] /\ lock \in [Accounts -> Sessions \cup {None}]
      /\ pc \in [Sessions -> Pcs] /\ op \in [Sessions -> Ops]
      /\ work \in [Sessions -> [Accounts -> Row]] /\ seen \in [Sessions -> SUBSET Seen]
  BY TypeOKGives DEF Safe
<1>3. TypeOK'
  <2>1. pc' \in [Sessions -> Pcs] /\ seen' \in [Sessions -> SUBSET Seen]
    BY <1>1, <1>2
  <2>2. QED
    BY <1>1, <1>2, <2>1 DEF TypeOK, Pcs, Ops, Seen
<1>4. RowsGood' /\ CopiesGood'
  BY <1>1 DEF Safe, RowsGood, CopiesGood, Mine
<1>5. ControlOK'
  BY <1>1, <1>2 DEF Safe, ControlOK
<1>6. QED
  BY <1>3, <1>4, <1>5 DEF Safe

-----------------------------------------------------------------------------
(* One lemma per action. *)

LEMMA StartSafe ==
    ASSUME Safe, NEW s \in Sessions, NEW o \in Ops, NEW at \in {"check", "lock", "read"},
           o.kind \in LienDesk => o.user \in Retailers, at = "read" => o.kind \in LienDesk,
           Start(s, o, at)
    PROVE  Safe'
<1>1. /\ op' = [op EXCEPT ![s] = o] /\ pc' = [pc EXCEPT ![s] = at]
      /\ row' = row /\ lock' = lock /\ work' = work /\ seen' = seen
  BY DEF Start
<1>2. /\ row \in [Accounts -> Row] /\ lock \in [Accounts -> Sessions \cup {None}]
      /\ pc \in [Sessions -> Pcs] /\ op \in [Sessions -> Ops]
      /\ work \in [Sessions -> [Accounts -> Row]] /\ seen \in [Sessions -> SUBSET Seen]
  BY TypeOKGives DEF Safe
<1>3. TypeOK'
  <2>1. pc' \in [Sessions -> Pcs] /\ op' \in [Sessions -> Ops]
    BY <1>1, <1>2 DEF Pcs
  <2>2. QED
    BY <1>1, <1>2, <2>1 DEF TypeOK, Pcs, Ops, Seen
<1>4. RowsGood' /\ CopiesGood'
  BY <1>1 DEF Safe, RowsGood, CopiesGood, Mine
<1>5. ControlOK'
  BY <1>1, <1>2 DEF Safe, ControlOK
<1>6. QED
  BY <1>3, <1>4, <1>5 DEF Safe

LEMMA RequestSafe ==
    ASSUME Safe, NEW s \in Sessions, NEW m \in Movements, Request(s, m)
    PROVE  Safe'
<1> DEFINE o == [kind |-> m.kind, user |-> m.user, book |-> m.book, amt |-> m.amt,
                 key |-> m.key, ref |-> 0]
           at == IF m.key = Null THEN "lock" ELSE "check"
<1>1. m.kind \in Funds /\ m.user \in Accounts /\ m.book \in Books /\ m.amt \in Nat
  BY MovementsAssumption
<1>2. m.key \in Keyed
  BY DEF Keyed
<1>3. o \in Ops
  BY <1>1, <1>2 DEF Ops
<1>4. o.kind \notin LienDesk /\ at \in {"check", "lock", "read"} /\ at # "read"
  BY <1>1 DEF Funds, LienDesk
<1>5. Start(s, o, at)
  BY DEF Request
<1> HIDE DEF o, at
<1>6. QED
  BY <1>3, <1>4, <1>5, StartSafe

LEMMA DeskRequestSafe ==
    ASSUME Safe, NEW s \in Sessions, NEW k \in DeskOps, NEW u \in Retailers, NEW i \in Nat,
           NEW amt \in LienAmounts \cup {0}, DeskRequest(s, k, u, i, amt)
    PROVE  Safe'
<1> DEFINE o == [kind |-> k, user |-> u, book |-> "PRIMARY", amt |-> amt, key |-> Null, ref |-> i]
           at == IF k = "place" THEN "lock" ELSE "read"
<1>1. k \in LienDesk /\ u \in Accounts /\ amt \in Nat /\ Null \in Keyed
  BY DeskOpsAssumption, LienAmountsAssumption DEF Accounts, Keyed
<1>2. o \in Ops /\ o.user \in Retailers /\ o.kind \in LienDesk
  BY <1>1 DEF Ops
<1>3. Start(s, o, at) /\ at \in {"check", "lock", "read"}
  BY DEF DeskRequest
<1> HIDE DEF o, at
<1>4. QED
  BY <1>2, <1>3, StartSafe

LEMMA CheckKeySafe == ASSUME Safe, NEW s \in Sessions, CheckKey(s) PROVE Safe'
<1>1. CASE Rollback(s)
  BY <1>1, RollbackSafe
<1>2. CASE Continue(s, "lock") /\ seen' = seen
  <2>1. seen[s] \in SUBSET Seen /\ seen' = [seen EXCEPT ![s] = seen[s]]
    BY <1>2, TypeOKGives DEF Safe
  <2>2. QED
    BY <1>2, <2>1, ContinueSafe DEF Pcs
<1>3. QED
  BY <1>1, <1>2 DEF CheckKey, Continue

LEMMA CreditSafe == ASSUME Safe, NEW s \in Sessions, CreditWallet(s) PROVE Safe'
<1> DEFINE o == op[s]
           r == row[o.user]
           p == Post(r, o.book, o.amt, o.key, "MOVE", Null)
           next == IF o.book = "PRIMARY" /\ r.lien > 0 THEN "sweep" ELSE "commit"
<1>1. Write(s, o.user, p, next) /\ next \in {"sweep", "commit"}
  BY DEF CreditWallet
<1>2. o.user \in Accounts /\ o.book \in Books /\ o.amt \in Nat /\ o.key \in Keyed
  BY Types, NoOpFacts, OpFields DEF Safe
<1>3. r \in Row /\ Good(r) /\ 0 <= r.lien /\ "MOVE" \in Reasons /\ Null \in Refs
  BY <1>2, Types DEF Safe, RowsGood, Reasons, Refs
<1> HIDE DEF next, r, o
<1>4. p \in Row /\ Good(p) /\ p.lien = r.lien
  BY <1>2, <1>3, CreditFacts
<1> HIDE DEF p
<1>5. QED
  BY <1>1, <1>2, <1>3, <1>4, WriteSafe DEF Pcs

LEMMA DebitSafe == ASSUME Safe, NEW s \in Sessions, DebitWallet(s) PROVE Safe'
<1> DEFINE o == op[s]
           r == row[o.user]
           p == Post(r, o.book, -o.amt, o.key, "MOVE", Null)
<1>1. o.user \in Accounts /\ o.book \in Books /\ o.amt \in Nat /\ o.key \in Keyed
  BY Types, NoOpFacts, OpFields DEF Safe
<1>2. r \in Row /\ Good(r) /\ 0 <= r.lien /\ "MOVE" \in Reasons /\ Null \in Refs
  BY <1>1, Types DEF Safe, RowsGood, Reasons, Refs
<1>3. CASE CanDebit(r, o.book, o.amt) /\ Write(s, o.user, p, "commit")
  <2> HIDE DEF r, o
  <2>1. p \in Row /\ Good(p) /\ p.lien = r.lien
    BY <1>1, <1>2, <1>3, DebitFacts
  <2> HIDE DEF p
  <2>2. QED
    BY <1>1, <1>2, <1>3, <2>1, WriteSafe DEF Pcs
<1>4. CASE Rollback(s)
  BY <1>4, RollbackSafe
<1>5. QED
  BY <1>3, <1>4 DEF DebitWallet

LEMMA HoldSafe == ASSUME Safe, NEW s \in Sessions, HoldFunds(s) PROVE Safe'
<1> DEFINE o == op[s]
           r == row[o.user]
           q == Hold(r, o.amt)
<1>1. o.user \in Accounts /\ o.amt \in Nat /\ o.key \in Keyed
  BY Types, NoOpFacts, OpFields DEF Safe
<1>2. r \in Row /\ Good(r) /\ 0 <= r.lien
  BY <1>1, Types DEF Safe, RowsGood
<1>3. CASE o.amt <= Spendable(r) /\ Write(s, o.user, q, "commit")
  <2> HIDE DEF r, o
  <2>1. q \in Row /\ Good(q) /\ q.lien = r.lien
    BY <1>1, <1>2, <1>3, HoldFacts
  <2> HIDE DEF q
  <2>2. QED
    BY <1>1, <1>2, <1>3, <2>1, WriteSafe DEF Pcs
<1>4. CASE Rollback(s)
  BY <1>4, RollbackSafe
<1>5. QED
  BY <1>3, <1>4 DEF HoldFunds

LEMMA ReleaseSafe == ASSUME Safe, NEW s \in Sessions, ReleaseHold(s) PROVE Safe'
<1> DEFINE o == op[s]
           r == row[o.user]
           q == Unhold(r, o.amt)
<1>1. o.user \in Accounts /\ o.amt \in Nat /\ o.key \in Keyed
  BY Types, NoOpFacts, OpFields DEF Safe
<1>2. r \in Row /\ Good(r) /\ 0 <= r.lien
  BY <1>1, Types DEF Safe, RowsGood
<1>3. CASE o.amt <= r.held /\ Write(s, o.user, q, "commit")
  <2> HIDE DEF r, o
  <2>1. q \in Row /\ Good(q) /\ q.lien = r.lien
    BY <1>1, <1>2, <1>3, UnholdFacts
  <2> HIDE DEF q
  <2>2. QED
    BY <1>1, <1>2, <1>3, <2>1, WriteSafe DEF Pcs
<1>4. CASE Rollback(s)
  BY <1>4, RollbackSafe
<1>5. QED
  BY <1>3, <1>4 DEF ReleaseHold

LEMMA CaptureSafe == ASSUME Safe, NEW s \in Sessions, CaptureHold(s) PROVE Safe'
<1> DEFINE o == op[s]
           r == row[o.user]
           q == Capture(r, o.amt, o.key)
<1>1. o.user \in Accounts /\ o.amt \in Nat /\ o.key \in Keyed
  BY Types, NoOpFacts, OpFields DEF Safe
<1>2. r \in Row /\ Good(r) /\ 0 <= r.lien
  BY <1>1, Types DEF Safe, RowsGood
<1>3. CASE o.amt <= r.held /\ Write(s, o.user, q, "commit")
  <2> HIDE DEF r, o
  <2>1. q \in Row /\ Good(q) /\ q.lien = r.lien
    BY <1>1, <1>2, <1>3, CaptureFacts
  <2> HIDE DEF q
  <2>2. QED
    BY <1>1, <1>2, <1>3, <2>1, WriteSafe DEF Pcs
<1>4. CASE Rollback(s)
  BY <1>4, RollbackSafe
<1>5. QED
  BY <1>3, <1>4 DEF CaptureHold

(* The lien sweep. *)
LEMMA ActiveFacts ==
    ASSUME NEW r \in Row
    PROVE  ActiveLiens(r) \in SUBSET Seen /\ \A x \in ActiveLiens(r) : Outstanding(x.lien) > 0
<1>1. \A i \in 1..Len(r.liens) : i \in Nat /\ r.liens[i] \in Lien
  <2>1. r.liens \in Seq(Lien)
    BY RowFields DEF Liens
  <2>2. QED BY <2>1, LienAt
<1>2. QED
  BY <1>1 DEF ActiveLiens, Seen

LEMMA AfterSweepFacts ==
    ASSUME NEW s
    PROVE  AfterSweep(s) \in {"close", "commit"}
BY DEF AfterSweep

LEMMA ReadLiensSafe == ASSUME Safe, NEW s \in Sessions, ReadLiens(s) PROVE Safe'
<1> DEFINE u == op[s].user
           active == ActiveLiens(View(s, u))
<1>1. u \in Accounts
  BY Types, NoOpFacts, OpFields DEF Safe
<1>2. active \in SUBSET Seen /\ \A x \in active : Outstanding(x.lien) > 0
  BY <1>1, Types, ActiveFacts DEF Safe
<1> HIDE DEF active
<1>3. CASE Continue(s, AfterSweep(s)) /\ seen' = seen
  <2>1. seen[s] \in SUBSET Seen /\ seen' = [seen EXCEPT ![s] = seen[s]]
    BY <1>3, TypeOKGives DEF Safe
  <2> DEFINE next == AfterSweep(s)
  <2>2. Continue(s, next) /\ next \in {"close", "commit"} /\ next \in Pcs
    BY <1>3, AfterSweepFacts DEF Pcs
  <2> HIDE DEF next
  <2>3. QED
    BY <2>1, <2>2, ContinueSafe
<1>4. CASE u # Suspense /\ Continue(s, "take") /\ seen' = [seen EXCEPT ![s] = active]
  <2>1. u \in Retailers
    BY <1>1, <1>4 DEF Accounts
  <2>2. QED
    BY <1>2, <1>4, <2>1, ContinueSafe DEF Pcs
<1>5. QED
  BY <1>3, <1>4 DEF ReadLiens, active

LEMMA LockForSweepSafe == ASSUME Safe, NEW s \in Sessions, LockForSweep(s) PROVE Safe'
<1> DEFINE u == op[s].user
           r == row[u]
<1>1. u \in Accounts
  BY Types, NoOpFacts, OpFields DEF Safe
<1>2. r \in Row /\ Good(r) /\ 0 <= r.lien
  BY <1>1, Types DEF Safe, RowsGood
<1>3. pc[s] = "take" /\ Write(s, u, r, "take")
  BY DEF LockForSweep
<1> HIDE DEF r, u
<1>4. QED
  BY <1>1, <1>2, <1>3, WriteSafe DEF Pcs

LEMMA SweepDoneSafe == ASSUME Safe, NEW s \in Sessions, SweepDone(s) PROVE Safe'
<1> DEFINE next == AfterSweep(s)
<1>1. Continue(s, next) /\ seen' = [seen EXCEPT ![s] = {}] /\ {} \in SUBSET Seen
  BY DEF SweepDone
<1>2. next \in {"close", "commit"} /\ next \in Pcs
  BY AfterSweepFacts DEF Pcs
<1> HIDE DEF next
<1>3. QED
  BY <1>1, <1>2, ContinueSafe

LEMMA TakeSafe == ASSUME Safe, NEW s \in Sessions, TakeFromLien(s) PROVE Safe'
<1> DEFINE u == op[s].user
           r == work[s][u]
           rs == View(s, Suspense)
<1>1. PICK x \in seen[s] :
        /\ work' = [work EXCEPT ![s][u] = TakeFromUser(r, u, x.i, x.lien),
                                ![s][Suspense] = TakeToSuspense(rs, TakeAmount(r, x.lien), u, x.i)]
        /\ seen' = [seen EXCEPT ![s] = @ \ {x}]
  BY DEF TakeFromLien
<1>2. /\ pc[s] = "take" /\ Mine(s, u) /\ Available(r) > 0
      /\ lock' = [lock EXCEPT ![Suspense] = s] /\ Lockable(s, Suspense)
      /\ row' = row /\ pc' = pc /\ op' = op
  BY DEF TakeFromLien
<1>3. u \in Retailers /\ u \in Accounts /\ u # Suspense /\ Suspense \in Accounts
      /\ Outstanding(x.lien) > 0
  BY <1>2 DEF Safe, ControlOK, Accounts
<1>4. x.i \in Nat /\ x.lien \in Lien
  <2>1. x \in Seen
    BY Types, <1>3 DEF Safe
  <2>2. QED BY <2>1 DEF Seen
<1>5. r \in Row /\ rs \in Row /\ Good(r) /\ Good(rs) /\ 0 <= rs.lien
  BY <1>2, <1>3, Types, ViewGood DEF Safe, CopiesGood
<1> DEFINE q == TakeFromUser(r, u, x.i, x.lien)
           p == TakeToSuspense(rs, TakeAmount(r, x.lien), u, x.i)
<1>6. q \in Row /\ Good(q) /\ p \in Row /\ Good(p) /\ p.lien = rs.lien
  <2>1. Available(r) > 0 /\ u \in Retailers
    BY <1>2, <1>3
  <2> HIDE DEF u, r, rs
  <2>2. QED
    BY <1>3, <1>4, <1>5, <2>1, TakeFacts
<1>7. work' = [work EXCEPT ![s][u] = q, ![s][Suspense] = p]
  BY <1>1
<1> HIDE DEF q, p, r, rs
<1>8. /\ row \in [Accounts -> Row] /\ lock \in [Accounts -> Sessions \cup {None}]
      /\ pc \in [Sessions -> Pcs] /\ op \in [Sessions -> Ops]
      /\ work \in [Sessions -> [Accounts -> Row]] /\ seen \in [Sessions -> SUBSET Seen]
  BY TypeOKGives DEF Safe
<1>9. /\ work' \in [Sessions -> [Accounts -> Row]]
      /\ work'[s][u] = q /\ work'[s][Suspense] = p
      /\ \A y \in Accounts \ {u, Suspense} : work'[s][y] = work[s][y]
      /\ \A t \in Sessions \ {s} : work'[t] = work[t]
  BY <1>3, <1>6, <1>7, <1>8
<1>10. TypeOK'
  <2>1. lock' \in [Accounts -> Sessions \cup {None}] /\ seen' \in [Sessions -> SUBSET Seen]
    BY <1>1, <1>2, <1>8
  <2>2. QED
    BY <1>2, <1>8, <1>9, <2>1 DEF TypeOK, Pcs, Ops, Seen
<1>11. RowsGood'
  BY <1>2 DEF Safe, RowsGood
<1>12. CopiesGood'
  <2> SUFFICES ASSUME NEW t \in Sessions, NEW y \in Accounts, Mine(t, y)'
               PROVE  Good(work'[t][y]) /\ (y = Suspense => 0 <= work'[t][y].lien)
    BY DEF CopiesGood, Good, Solvent, Continuous
  <2>1. CASE t = s /\ y = Suspense
    BY <1>5, <1>6, <1>9, <2>1
  <2>2. CASE t = s /\ y = u
    BY <1>3, <1>6, <1>9, <2>2
  <2>3. CASE t = s /\ y \notin {u, Suspense}
    BY <1>2, <1>8, <1>9, <2>3 DEF Safe, CopiesGood, Mine
  <2>4. CASE t # s
    BY <1>2, <1>3, <1>8, <1>9, <2>4 DEF Safe, CopiesGood, Mine
  <2>5. QED BY <2>1, <2>2, <2>3, <2>4
<1>13. ControlOK'
  BY <1>1, <1>2, <1>8 DEF Safe, ControlOK
<1>14. QED
  BY <1>10, <1>11, <1>12, <1>13 DEF Safe

(* The lien desk. *)
LEMMA PlaceSafe == ASSUME Safe, NEW s \in Sessions, PlaceWalletLien(s) PROVE Safe'
<1> DEFINE o == op[s]
           r == row[o.user]
           q == PlaceLien(r, o.amt)
<1>1. o.user \in Accounts /\ o.amt \in Nat
  BY Types, NoOpFacts, OpFields DEF Safe
<1>2. r \in Row /\ Good(r) /\ o.user # Suspense
  BY <1>1, Types DEF PlaceWalletLien, At, Safe, RowsGood, ControlOK, LienDesk
<1>3. Write(s, o.user, q, "sweep")
  BY DEF PlaceWalletLien
<1> HIDE DEF r, o
<1>4. q \in Row /\ Good(q)
  BY <1>1, <1>2, PlaceLienFacts
<1> HIDE DEF q
<1>5. QED
  BY <1>1, <1>2, <1>3, <1>4, WriteSafe DEF Pcs

(* Each element of seen[s] is a typed lien. *)
LEMMA SeenFacts ==
    ASSUME Safe, NEW s \in Sessions, NEW x \in seen[s]
    PROVE  /\ x.lien \in Lien /\ Outstanding(x.lien) \in Int /\ x.lien.recovered \in Nat
<1>1. x \in Seen
  BY TypeOKGives DEF Safe
<1>2. x.lien \in Lien
  BY <1>1 DEF Seen
<1>3. QED
  BY <1>2, LienFields DEF Outstanding

LEMMA ReadLienSafe == ASSUME Safe, NEW s \in Sessions, ReadLien(s) PROVE Safe'
<1> DEFINE o == op[s]
           r == row[o.user]
           l == r.liens[o.ref]
           next == IF o.kind = "recover" THEN "sweep"
                   ELSE IF Outstanding(l) > 0 THEN "lock" ELSE "debitSuspense"
           read == {[i |-> o.ref, lien |-> l]}
<1>1. CASE Rollback(s)
  BY <1>1, RollbackSafe
<1>2. CASE o.ref \in 1..Len(r.liens) /\ Continue(s, next) /\ seen' = [seen EXCEPT ![s] = read]
  <2>1. o.user \in Accounts /\ o.ref \in Nat /\ o.kind \in LienDesk
    BY Types, NoOpFacts, OpFields DEF Safe, ReadLien, ControlOK
  <2>2. r \in Row
    BY <2>1, Types DEF Safe
  <2>3. l \in Lien
    BY <1>2, <2>2, LienAt
  <2>4. next \in Pcs /\ next # "take"
    BY DEF Pcs
  <2>5. read \in SUBSET Seen
    BY <2>1, <2>3 DEF Seen
  <2> HIDE DEF next, read
  <2>6. QED
    BY <1>2, <2>1, <2>4, <2>5, ContinueSafe
<1>3. QED
  BY <1>1, <1>2 DEF ReadLien

LEMMA ReleaseLienSafe == ASSUME Safe, NEW s \in Sessions, ReleaseWalletLien(s) PROVE Safe'
<1> DEFINE o == op[s]
           r == row[o.user]
<1>1. PICK x \in seen[s] :
        Write(s, o.user, CloseLien(ReleaseFreeze(r, Outstanding(x.lien)), o.ref), "commit")
  BY DEF ReleaseWalletLien
<1>2. o.user \in Accounts /\ o.ref \in Nat /\ Outstanding(x.lien) \in Int
  BY Types, NoOpFacts, OpFields, SeenFacts DEF Safe
<1>3. r \in Row /\ Good(r) /\ o.user # Suspense
  BY <1>2, Types DEF ReleaseWalletLien, At, Safe, RowsGood, ControlOK, LienDesk
<1> DEFINE f == ReleaseFreeze(r, Outstanding(x.lien))
           q == CloseLien(f, o.ref)
<1>4. Write(s, o.user, q, "commit")
  BY <1>1
<1> HIDE DEF r, o
<1>5. f \in Row /\ Good(f)
  BY <1>2, <1>3, ReleaseFreezeFacts
<1> HIDE DEF f
<1>6. q \in Row /\ Good(q)
  BY <1>2, <1>5, CloseLienFacts
<1> HIDE DEF q
<1>7. QED
  BY <1>2, <1>3, <1>4, <1>6, WriteSafe DEF Pcs

LEMMA ReverseFrozenSafe == ASSUME Safe, NEW s \in Sessions, ReverseFrozen(s) PROVE Safe'
<1> DEFINE o == op[s]
           r == row[o.user]
<1>1. PICK x \in seen[s] :
        Write(s, o.user, ReleaseFreeze(r, Outstanding(x.lien)),
              IF x.lien.recovered > 0 THEN "debitSuspense" ELSE "close")
  BY DEF ReverseFrozen
<1>2. o.user \in Accounts /\ Outstanding(x.lien) \in Int
  BY Types, NoOpFacts, OpFields, SeenFacts DEF Safe
<1>3. o.kind \in LienDesk /\ o.user # Suspense
  BY DEF ReverseFrozen, At, Safe, ControlOK, LienDesk
<1>4. r \in Row /\ Good(r)
  BY <1>2, Types DEF Safe, RowsGood
<1> DEFINE q == ReleaseFreeze(r, Outstanding(x.lien))
           next == IF x.lien.recovered > 0 THEN "debitSuspense" ELSE "close"
<1>5. Write(s, o.user, q, next) /\ next \in {"debitSuspense", "close"}
  BY <1>1
<1>6. q \in Row /\ Good(q)
  <2> HIDE DEF r
  <2>1. QED BY <1>2, <1>4, ReleaseFreezeFacts
<1> HIDE DEF q, next
<1>7. QED
  BY <1>2, <1>3, <1>5, <1>6, WriteSafe DEF Pcs

LEMMA KeyIsKeyed ==
    ASSUME NEW u \in Retailers, NEW i \in Nat
    PROVE  /\ SuspenseKey(u, i) \in Keyed /\ UserKey(u, i) \in Keyed
           /\ SuspenseKey(u, i) \in ReversalKeys /\ UserKey(u, i) \in ReversalKeys
BY DEF SuspenseKey, UserKey, Keyed, ReversalKeys

LEMMA LegCheckSafe ==
    ASSUME Safe, NEW s \in Sessions, CheckSuspenseLeg(s) \/ CheckUserLeg(s) PROVE Safe'
<1>1. op[s].kind \in LienDesk
  BY DEF CheckSuspenseLeg, CheckUserLeg, Safe, ControlOK
<1>2. PICK next \in {"creditUser", "lockSuspense", "close", "lockUser"} : Continue(s, next) /\ UNCHANGED seen
  BY DEF CheckSuspenseLeg, CheckUserLeg
<1>3. seen[s] \in SUBSET Seen /\ seen' = [seen EXCEPT ![s] = seen[s]]
  BY <1>2, TypeOKGives DEF Safe
<1>4. next \in Pcs /\ next # "take"
  BY DEF Pcs
<1>5. QED
  BY <1>1, <1>2, <1>3, <1>4, ContinueSafe

LEMMA DebitSuspenseSafe ==
    ASSUME Safe, NEW s \in Sessions, ReverseDebitSuspense(s) PROVE Safe'
<1> DEFINE o == op[s]
           key == SuspenseKey(o.user, o.ref)
           r == View(s, Suspense)
           ref == <<o.user, o.ref>>
<1>1. o.kind \in LienDesk /\ o.user \in Retailers /\ o.ref \in Nat
  BY Types, NoOpFacts, OpFields DEF ReverseDebitSuspense, Safe, ControlOK
<1>2. key \in Keyed /\ ref \in Refs /\ "REVERSAL" \in Reasons
  BY <1>1, KeyIsKeyed DEF Refs, Reasons
<1>3. r \in Row /\ Good(r) /\ 0 <= r.lien /\ Suspense \in Accounts /\ "PRIMARY" \in Books
  BY NoOpFacts, Types, ViewGood DEF Safe
<1>4. PICK x \in seen[s] :
        \/ /\ CanDebit(r, "PRIMARY", x.lien.recovered)
           /\ Write(s, Suspense, Post(r, "PRIMARY", -x.lien.recovered, key, "REVERSAL", ref), "creditUser")
        \/ Rollback(s)
  BY DEF ReverseDebitSuspense
<1>5. x.lien.recovered \in Nat
  BY SeenFacts
<1> DEFINE amt == x.lien.recovered
           p == Post(r, "PRIMARY", -amt, key, "REVERSAL", ref)
<1>6. CASE CanDebit(r, "PRIMARY", amt) /\ Write(s, Suspense, p, "creditUser")
  <2>1. amt \in Nat
    BY <1>5
  <2> HIDE DEF r, key, ref, amt
  <2>2. p \in Row /\ Good(p) /\ p.lien = r.lien
    BY <1>2, <1>3, <1>6, <2>1, DebitFacts
  <2> HIDE DEF p
  <2>3. QED
    BY <1>1, <1>3, <1>6, <2>2, WriteSafe DEF Pcs
<1>7. CASE Rollback(s)
  BY <1>7, RollbackSafe
<1>8. QED
  BY <1>4, <1>6, <1>7

LEMMA CreditUserSafe ==
    ASSUME Safe, NEW s \in Sessions, ReverseCreditUser(s) PROVE Safe'
<1> DEFINE o == op[s]
           key == UserKey(o.user, o.ref)
           r == View(s, o.user)
           ref == <<o.user, o.ref>>
           next == IF r.lien > 0 THEN "sweep" ELSE "close"
<1>1. o.user \in Retailers /\ o.ref \in Nat
  BY Types, NoOpFacts, OpFields DEF ReverseCreditUser, Safe, ControlOK
<1>2. key \in Keyed /\ ref \in Refs /\ "REVERSAL" \in Reasons
  BY <1>1, KeyIsKeyed DEF Refs, Reasons
<1>3. o.user \in Accounts /\ o.user # Suspense
  BY <1>1 DEF Accounts
<1>4. r \in Row /\ Good(r)
  BY <1>3, Types, ViewGood DEF Safe
<1>5. PICK x \in seen[s] :
        Write(s, o.user, Post(r, "PRIMARY", x.lien.recovered, key, "REVERSAL", ref), next)
  BY DEF ReverseCreditUser
<1>6. x.lien.recovered \in Nat
  BY SeenFacts
<1> DEFINE amt == x.lien.recovered
           p == Post(r, "PRIMARY", amt, key, "REVERSAL", ref)
<1>7. amt \in Nat /\ next \in {"sweep", "close"}
  BY <1>6
<1>8. Write(s, o.user, p, next)
  BY <1>5
<1> HIDE DEF r, key, ref, amt, next
<1>9. p \in Row /\ Good(p)
  BY <1>2, <1>4, <1>7, CreditFacts
<1> HIDE DEF p
<1>10. QED
  BY <1>3, <1>7, <1>8, <1>9, WriteSafe DEF Pcs

LEMMA CloseSafe == ASSUME Safe, NEW s \in Sessions, ReverseClose(s) PROVE Safe'
<1> DEFINE o == op[s]
           r == View(s, o.user)
           q == CloseLien(r, o.ref)
<1>1. o.user \in Accounts /\ o.ref \in Nat
  BY Types, NoOpFacts, OpFields DEF Safe
<1>2. r \in Row /\ Good(r) /\ (o.user = Suspense => 0 <= r.lien)
  BY <1>1, Types, ViewGood DEF Safe
<1>3. Write(s, o.user, q, "commit")
  BY DEF ReverseClose
<1> HIDE DEF r, o
<1>4. q \in Row /\ Good(q) /\ q.lien = r.lien
  BY <1>1, <1>2, CloseLienFacts
<1> HIDE DEF q
<1>5. QED
  BY <1>1, <1>2, <1>3, <1>4, WriteSafe DEF Pcs

LEMMA CommitSafe == ASSUME Safe, NEW s \in Sessions, Commit(s) PROVE Safe'
<1>1. row' = [a \in Accounts |-> View(s, a)] /\ End(s)
  BY DEF Commit
<1>2. ASSUME NEW a \in Accounts
      PROVE  row'[a] \in Row /\ Good(row'[a]) /\ 0 <= row'[a].lien
  <2>1. row'[a] = View(s, a)
    BY <1>1
  <2>2. View(s, a) \in Row /\ Good(View(s, a))
    BY Types, ViewGood DEF Safe
  <2>3. 0 <= View(s, a).lien
    <3>1. CASE Mine(s, a)
      BY <3>1 DEF Commit, Accepted, CheckConstraints, View
    <3>2. CASE ~Mine(s, a)
      BY <3>2 DEF View, Safe, RowsGood
    <3>3. QED BY <3>1, <3>2
  <2>4. QED BY <2>1, <2>2, <2>3
<1>3. row' \in [Accounts -> Row]
  BY <1>1, <1>2
<1>4. QED
  BY <1>1, <1>2, <1>3, EndSafe

-----------------------------------------------------------------------------
(* Together. *)

LEMMA ArriveSafe == ASSUME Safe, NEW s \in Sessions, Arrive(s) PROVE Safe'
<1>1. CASE \E m \in Movements : Request(s, m)
  BY <1>1, RequestSafe
<1>2. ASSUME NEW k \in DeskOps, NEW u \in Retailers, NEW i \in 1..MaxLiens,
             NEW amt \in LienAmounts \cup {0}, DeskRequest(s, k, u, i, amt)
      PROVE  Safe'
  <2>1. i \in Nat
    OBVIOUS
  <2>2. QED
    BY <1>2, <2>1, DeskRequestSafe
<1>3. QED
  BY <1>1, <1>2 DEF Arrive

LEMMA StepSafe == ASSUME Safe, NEW s \in Sessions, SessionStep(s) PROVE Safe'
<1>1. CASE CheckKey(s) \/ CreditWallet(s) \/ DebitWallet(s)
  BY <1>1, CheckKeySafe, CreditSafe, DebitSafe
<1>2. CASE HoldFunds(s) \/ ReleaseHold(s) \/ CaptureHold(s)
  BY <1>2, HoldSafe, ReleaseSafe, CaptureSafe
<1>3. CASE ReadLiens(s) \/ LockForSweep(s) \/ TakeFromLien(s) \/ SweepDone(s)
  BY <1>3, ReadLiensSafe, LockForSweepSafe, TakeSafe, SweepDoneSafe
<1>4. CASE PlaceWalletLien(s) \/ ReadLien(s) \/ ReleaseWalletLien(s)
  BY <1>4, PlaceSafe, ReadLienSafe, ReleaseLienSafe
<1>5. CASE \/ ReverseFrozen(s) \/ CheckSuspenseLeg(s) \/ ReverseDebitSuspense(s)
           \/ CheckUserLeg(s) \/ ReverseCreditUser(s) \/ ReverseClose(s)
  BY <1>5, ReverseFrozenSafe, LegCheckSafe, DebitSuspenseSafe, CreditUserSafe, CloseSafe
<1>6. CASE Commit(s) \/ Reject(s)
  BY <1>6, CommitSafe, RollbackSafe DEF Reject
<1>7. QED
  BY <1>1, <1>2, <1>3, <1>4, <1>5, <1>6 DEF SessionStep

LEMMA StutterSafe == ASSUME Safe, UNCHANGED vars PROVE Safe'
<1>1. /\ row' = row /\ lock' = lock /\ pc' = pc /\ op' = op /\ work' = work /\ seen' = seen
  BY DEF vars
<1>2. TypeOK'
  BY <1>1 DEF Safe, TypeOK
<1>3. RowsGood' /\ CopiesGood' /\ ControlOK'
  BY <1>1 DEF Safe, RowsGood, CopiesGood, ControlOK, Mine
<1>4. QED
  BY <1>2, <1>3 DEF Safe

LEMMA NextSafe == Safe /\ [Next]_vars => Safe'
<1> SUFFICES ASSUME Safe, [Next]_vars PROVE Safe'
  OBVIOUS
<1>1. ASSUME NEW s \in Sessions, Arrive(s) PROVE Safe'
  BY <1>1, ArriveSafe
<1>2. ASSUME NEW s \in Sessions, SessionStep(s) PROVE Safe'
  BY <1>2, StepSafe
<1>3. ASSUME NEW s \in Sessions, Die(s) PROVE Safe'
  BY <1>3, RollbackSafe DEF Die
<1>4. CASE UNCHANGED vars
  BY <1>4, StutterSafe
<1>5. QED
  BY <1>1, <1>2, <1>3, <1>4 DEF Next

(* The inductive invariant holds of every behaviour, for any number of     *)
(* accounts, books, concurrent transactions, movements and liens.          *)
THEOREM Safety == Spec => []Safe
<1>1. QED
  BY InitSafe, NextSafe, PTL DEF Spec

(* Every variable keeps its type: the statement-level ledger never writes  *)
(* a row, a lien or a passbook entry outside its domain.                   *)
THEOREM TypeCorrect == Spec => []TypeOK
<1>1. Safe => TypeOK
  BY DEF Safe
<1>2. QED
  BY <1>1, Safety, PTL

(* No interleaving of transactions, sweeps, lien desk calls and crashes    *)
(* overdraws a book or spends money a hold has reserved.                   *)
THEOREM AlwaysSolvent == Spec => []AccountsSolvent
<1>1. Safe => AccountsSolvent
  BY DEF Safe, RowsGood, Good, AccountsSolvent
<1>2. QED
  BY <1>1, Safety, PTL

(* Every passbook explains its balance column entry by entry: no update is *)
(* lost and none is applied without its WalletTxn.                         *)
THEOREM AlwaysContinuous == Spec => []PassbookContinuous
<1>1. Safe => PassbookContinuous
  BY DEF Safe, RowsGood, Good, PassbookContinuous
<1>2. QED
  BY <1>1, Safety, PTL
=============================================================================
