------------------------------- MODULE Reserves -------------------------------
(***************************************************************************)
(* What the service rails promise about a retailer's money: a reserve is   *)
(* held while the payment is open, then kept (the payment was made) or     *)
(* returned (it was not); a return made in error is taken back once.       *)
(***************************************************************************)
CONSTANT Calls

VARIABLE money

Init == money = [c \in Calls |-> "none"]

Change(c, from, to) == money[c] = from /\ money' = [money EXCEPT ![c] = to]

Hold(c)    == Change(c, "none", "held")
Keep(c)    == Change(c, "held", "kept")
Return(c)  == Change(c, "held", "returned")
Correct(c) == Change(c, "returned", "kept")

Next == \E c \in Calls : Hold(c) \/ Keep(c) \/ Return(c) \/ Correct(c)

Spec == Init /\ [][Next]_money
=============================================================================
