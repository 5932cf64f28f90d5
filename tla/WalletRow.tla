------------------------------ MODULE WalletRow ------------------------------
(***************************************************************************)
(* One User row of the wallet ledger, together with the two tables that    *)
(* are only ever written under its row lock: the user's passbook           *)
(* (WalletTxn) and the user's liens (WalletLien).  Every operator is the   *)
(* arithmetic of one function of src/src/lib/ledger.ts on such a row; who  *)
(* may run it when is the business of Ledger and AtomicLedger.             *)
(*                                                                         *)
(* Money is an integer: the code uses exact decimals, which at two places  *)
(* are integers of paise.                                                  *)
(***************************************************************************)
EXTENDS Integers, Sequences

CONSTANTS
    Books,      \* wallet books a row carries ("PRIMARY" is the spendable one)
    Null        \* a column left NULL: no idempotency key, no reference

ASSUME PrimaryIsABook == "PRIMARY" \in Books

Smaller(x, y) == IF x < y THEN x ELSE y
Floor0(x) == IF x > 0 THEN x ELSE 0

EmptyRow ==
    [ bal   |-> [b \in Books |-> 0],        \* balance column per book
      held  |-> 0,                          \* heldBalance
      lien  |-> 0,                          \* lienBalance
      txns  |-> [b \in Books |-> <<>>],     \* passbook per book
      liens |-> <<>> ]                      \* WalletLien rows, oldest first

(* walletBalance - heldBalance: what a lien sweep may take. *)
Available(r) == r.bal["PRIMARY"] - r.held

(* What the user may spend: never negative, even under a large lien. *)
Spendable(r) == Floor0(Available(r) - r.lien)

(* Mutant: the debit tests the balance column and forgets holds and liens. *)
CanDebitBookOnly(r, b, amt) == amt <= r.bal[b]

CanDebit(r, b, amt) ==
    amt <= IF b = "PRIMARY" THEN Spendable(r) ELSE r.bal[b]

(* Write a book's new balance and the WalletTxn that explains it.  The     *)
(* direction is the sign of delta; ref names the lien of a LIEN/REVERSAL.  *)
Booked(r, bal, txns) ==
    [bal |-> bal, held |-> r.held, lien |-> r.lien, txns |-> txns, liens |-> r.liens]

Post(r, b, delta, key, reason, ref) ==
    LET after == r.bal[b] + delta
        entry == [delta |-> delta, after |-> after, key |-> key, reason |-> reason, ref |-> ref]
    IN  Booked(r, [r.bal EXCEPT ![b] = after], [r.txns EXCEPT ![b] = Append(@, entry)])

Hold(r, amt)    == [r EXCEPT !.held = @ + amt]
Unhold(r, amt)  == [r EXCEPT !.held = @ - amt]
(* Mutant: the capture moves the balance and writes no WalletTxn. *)
CaptureNoEntry(r, amt, key) == [r EXCEPT !.held = @ - amt, !.bal["PRIMARY"] = @ - amt]

Capture(r, amt, key) == Unhold(Post(r, "PRIMARY", -amt, key, "MOVE", Null), amt)

(* The WalletLien row is created first, then lienBalance grows. *)
AddLien(r, l)    == [r EXCEPT !.liens = Append(@, l)]
SetFrozen(r, v)  == [r EXCEPT !.lien = v]
PlaceLien(r, amt) ==
    SetFrozen(AddLien(r, [status |-> "ACTIVE", amount |-> amt, recovered |-> 0]), r.lien + amt)

Outstanding(l) == l.amount - l.recovered

(* Give `remaining` of the freeze back; the column never goes below zero. *)
ReleaseFreeze(r, remaining) == SetFrozen(r, Floor0(r.lien - remaining))

SetLien(r, i, l) == [r EXCEPT !.liens[i] = l]

(* Mutant: a status outside the enum. *)
CloseLienTypo(r, i) == SetLien(r, i, [r.liens[i] EXCEPT !.status = "CLOSED"])

CloseLien(r, i) == SetLien(r, i, [r.liens[i] EXCEPT !.status = "RELEASED"])

(* One round of the recovery loop: `seen` is lien i as the loop read it.   *)
(* The amounts written come from that reading; the status is only written  *)
(* when the lien is full.                                                  *)
TakeAmount(r, seen) == Smaller(Outstanding(seen), Available(r))

(* Mutant: recovered money stays counted as frozen. *)
TakeFromUserFrozen(r, u, i, seen) ==
    LET s     == TakeAmount(r, seen)
        got   == seen.recovered + s
        after == IF got >= seen.amount THEN "RECOVERED" ELSE r.liens[i].status
    IN  SetLien(Post(r, "PRIMARY", -s, Null, "LIEN", <<u, i>>), i,
                [status |-> after, amount |-> seen.amount, recovered |-> got])

TakeFromUser(r, u, i, seen) ==
    LET s     == TakeAmount(r, seen)
        got   == seen.recovered + s
        after == IF got >= seen.amount THEN "RECOVERED" ELSE r.liens[i].status
    IN  SetLien(SetFrozen(Post(r, "PRIMARY", -s, Null, "LIEN", <<u, i>>), r.lien - s), i,
                [status |-> after, amount |-> seen.amount, recovered |-> got])

TakeToSuspense(r, s, u, i) == Post(r, "PRIMARY", s, Null, "LIEN", <<u, i>>)

(* The CHECK constraints on the User table. *)
CheckConstraints(r) == r.bal["PRIMARY"] >= 0 /\ r.held >= 0 /\ r.lien >= 0

(* The unique index on WalletTxn.idempotencyKey, restricted to one row's   *)
(* passbooks from position `from[b] + 1` on.                               *)
KeysFrom(r, from) ==
    (UNION { {r.txns[b][i].key : i \in (from[b] + 1)..Len(r.txns[b])} : b \in Books }) \ {Null}
Keys(r) == KeysFrom(r, [b \in Books |-> 0])

(* What every row must satisfy: funds reserved are funds owned, and no     *)
(* book is overdrawn.                                                      *)
Solvent(r) == /\ 0 <= r.held
              /\ r.held <= r.bal["PRIMARY"]
              /\ \A b \in Books : 0 <= r.bal[b]

(* balanceAfter continues from entry to entry and ends at the column. *)
Continuous(txns, bal) ==
    /\ \A i \in 1..Len(txns) :
         txns[i].after = (IF i = 1 THEN 0 ELSE txns[i - 1].after) + txns[i].delta
    /\ bal = IF Len(txns) = 0 THEN 0 ELSE txns[Len(txns)].after
=============================================================================
