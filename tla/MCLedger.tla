------------------------------ MODULE MCLedger ------------------------------
(* Small instances of Ledger and the properties that add up whole tables.  *)
EXTENDS Ledger, TLC

CONSTANTS u1, u2, k1, k2, k3

Move(kind, u, b, amt, key) == [kind |-> kind, user |-> u, book |-> b, amt |-> amt, key |-> key]

(* Two liable users whose credits, each delivered more than once, are swept *)
(* into one suspense account, and debits and holds racing for the same money. *)
AllMoves ==
    { Move("credit",  u1, "PRIMARY", 3, k1),
      Move("credit",  u2, "PRIMARY", 1, k2),
      Move("debit",   u1, "PRIMARY", 1, k3),
      Move("hold",    u1, "PRIMARY", 1, Null),
      Move("unhold",  u1, "PRIMARY", 1, Null),
      Move("capture", u1, "PRIMARY", 1, Null),
      Move("credit",  u2, "REVENUE", 1, Null),
      Move("debit",   u2, "REVENUE", 1, Null) }

(* One liable user funded twice, for the desk races. *)
DeskMoves ==
    { Move("credit", u1, "PRIMARY", 1, k1),
      Move("credit", u1, "PRIMARY", 2, k2) }

(* Money that is reserved while a lien is placed and free again later. *)
RecoverMoves ==
    { Move("credit", u1, "PRIMARY", 1, k1),
      Move("credit", u1, "PRIMARY", 1, k2),
      Move("hold",   u1, "PRIMARY", 1, Null),
      Move("unhold", u1, "PRIMARY", 1, Null) }

SpendMoves == DeskMoves \cup { Move("debit", u1, "PRIMARY", 1, Null) }

-----------------------------------------------------------------------------
TotalOver(f, n) == LET upTo[i \in 0..n] == IF i = 0 THEN 0 ELSE upTo[i - 1] + f[i] IN upTo[n]

ActiveOutstanding(r) ==
    TotalOver([i \in 1..Len(r.liens) |->
                 IF r.liens[i].status = "ACTIVE" THEN Outstanding(r.liens[i]) ELSE 0],
              Len(r.liens))

(* schema.prisma, WalletLien: "User.lienBalance is the sum of outstanding  *)
(* across a user's ACTIVE liens"; the integrity audit's LIEN_VS_ACTIVE.    *)
LienBalanceMatchesActive == \A u \in Retailers : row[u].lien = ActiveOutstanding(row[u])

(* Sum of the PRIMARY entries of account a with this reason and reference. *)
Moved(a, reason, ref) ==
    LET t == row[a].txns["PRIMARY"]
    IN  TotalOver([i \in 1..Len(t) |->
                     IF t[i].reason = reason THEN IF t[i].ref = ref THEN t[i].delta ELSE 0 ELSE 0],
                  Len(t))

(* Every recovered rupee is a double entry: what left the user under a     *)
(* lien is what the suspense account received for it and what the lien row *)
(* says was recovered, and never more than the lien.                       *)
RecoveryIsDoubleEntry ==
    \A u \in Retailers : \A i \in 1..Len(row[u].liens) :
        LET l == row[u].liens[i] IN
        /\ -Moved(u, "LIEN", <<u, i>>) = l.recovered
        /\ Moved(Suspense, "LIEN", <<u, i>>) = l.recovered
        /\ l.recovered <= l.amount

(* The sum over a table of amounts. *)
SetTotal(f) ==
    LET sum[S \in SUBSET DOMAIN f] ==
            IF S = {} THEN 0 ELSE LET a == CHOOSE x \in S : TRUE IN f[a] + sum[S \ {a}]
    IN  sum[DOMAIN f]

(* With every desk operation racing: what one lien has moved, by recovery  *)
(* or by reversal, left one passbook and entered another, though the lien  *)
(* row itself may be wrong about it (ledger_recover_race).                 *)
EachLienBalances ==
    \A u \in Retailers, i \in 1..MaxLiens, reason \in {"LIEN", "REVERSAL"} :
        SetTotal([a \in Accounts |-> Moved(a, reason, <<u, i>>)]) = 0

(* Liens create no money and lose none: the PRIMARY balances of all users  *)
(* and the suspense account add up to what callers paid in and took out.   *)
Requested(t) ==
    TotalOver([i \in 1..Len(t) |-> IF t[i].reason = "MOVE" THEN t[i].delta ELSE 0], Len(t))

MoneyConserved ==
    SetTotal([a \in Accounts |-> row[a].bal["PRIMARY"]])
        = SetTotal([a \in Accounts |-> Requested(row[a].txns["PRIMARY"])])

(* sweepLiensForUser: "Safe to run repeatedly - it only ever moves         *)
(* outstanding, currently-available money": no lien takes more than it is. *)
NeverRecoversMoreThanOwed ==
    \A u \in Retailers : \A i \in 1..Len(row[u].liens) :
        -Moved(u, "LIEN", <<u, i>>) <= row[u].liens[i].amount

(* reverseWalletLien: a lien "can never re-capture its own reversal": once *)
(* its recovered money was returned, no entry takes it back for that lien. *)
ReversalNotRecaptured ==
    \A u \in Retailers :
        LET t == row[u].txns["PRIMARY"] IN
        \A i, j \in 1..Len(t) :
            i < j /\ t[i].reason = "REVERSAL" /\ t[j].reason = "LIEN" => t[i].ref # t[j].ref

(* ledger.ts: "money owed under a lien never becomes spendable".  Whatever *)
(* credits the PRIMARY book leaves free money only when no lien is left,   *)
(* and spending or reserving never eats into the frozen part.              *)
Credited(old, new) ==
    \E i \in (Len(old.txns["PRIMARY"]) + 1)..Len(new.txns["PRIMARY"]) : new.txns["PRIMARY"][i].delta > 0

FrozenMoneyStaysFrozen ==
    [][ \A u \in Retailers :
          /\ Credited(row[u], row'[u]) => row'[u].lien = 0 \/ Available(row'[u]) = 0
          /\ row'[u].liens = row[u].liens /\ Spendable(row'[u]) < Spendable(row[u])
               => Available(row'[u]) >= row'[u].lien ]_row

(* Oldest first: a younger lien is never paid while an older one is open.  *)
OldestLienFirst ==
    [][ \A u \in Retailers : \A i, j \in 1..Len(row[u].liens) :
          /\ i < j
          /\ row'[u].liens[j].recovered > row[u].liens[j].recovered
          => row'[u].liens[i].status # "ACTIVE" ]_row
=============================================================================
