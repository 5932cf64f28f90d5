---------------------------- MODULE MCServiceTxn ----------------------------
(* Small instances of ServiceTxn. *)
EXTENDS ServiceTxn, TLC

CONSTANTS c1, c2

OwnKeys == [c \in Calls |-> c]
SameKey == [c \in Calls |-> c1]

AllRecon == [c \in Calls |-> IF c = c1 THEN "bbps" ELSE "recharge"]
Mixed    == [c \in Calls |-> IF c = c1 THEN "recharge" ELSE "plain"]

NoTwins  == {}
TwinPair == {<<c1, c2>>, <<c2, c1>>}

Symm == Permutations(Orders) \cup Permutations(Finalizers)
=============================================================================
