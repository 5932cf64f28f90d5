------------------------------- MODULE MCPayout -------------------------------
(* Small instances of Payout. *)
EXTENDS Payout, TLC

Symm == Permutations(Payouts) \cup Permutations(Runs)
=============================================================================
