---------------------------- MODULE MCSubsystems ----------------------------
(***************************************************************************)
(* The money components around the ledger, and the settlement of payouts,  *)
(* checked in one run.  No two of them share a row or a ledger key, so an  *)
(* interleaving of two shows nothing that one alone does not: a behaviour  *)
(* is of one of them (`part`) and the others stay in their initial state.  *)
(***************************************************************************)
EXTENDS PosSettlement, QrClaims, QrRotation, TopUp, T1Settlement, IdempotencyKeys, Payout, TLC

CONSTANTS t1, t2, s1, s2

VARIABLE part

MdrAndPoll == [t \in TopUps |-> IF t = t1 THEN "mdr" ELSE "poll"]

CodeOrder == [c \in Codes |-> IF c = s1 THEN 1 ELSE 2]

partVars == <<part, posVars, qrVars, rotVars, topupVars, t1Vars, keyVars, vars>>

PartInit ==
    /\ part \in {"pos", "claims", "rotation", "topup", "t1", "keys", "payout"}
    /\ PosInit /\ QrInit /\ RotInit /\ TopUpInit /\ T1Init /\ KeysInit /\ Init
    /\ part # "keys" => request = CHOOSE q \in [Requests -> KeysAsked] : TRUE
    /\ part # "payout" => row = [p \in Payouts |-> [status |-> "none", ref |-> Null]] /\ ~twins

PartNext ==
    /\ UNCHANGED part
    /\ \/ part = "pos"      /\ PosNext
       \/ part = "claims"   /\ QrNext
       \/ part = "rotation" /\ RotNext
       \/ part = "topup"    /\ TopUpNext
       \/ part = "t1"       /\ T1Next
       \/ part = "keys"     /\ KeysNext
       \/ part = "payout"   /\ Next
    /\ part # "pos"      => UNCHANGED posVars
    /\ part # "claims"   => UNCHANGED qrVars
    /\ part # "rotation" => UNCHANGED rotVars
    /\ part # "topup"    => UNCHANGED topupVars
    /\ part # "t1"       => UNCHANGED t1Vars
    /\ part # "keys"     => UNCHANGED keyVars
    /\ part # "payout"   => UNCHANGED vars

(* The components whose code promises that something happens are fair. *)
PartSpec ==
    /\ PartInit /\ [][PartNext]_partVars
    /\ \/ part = "pos"      /\ PosFair
       \/ part = "rotation" /\ RotFair
       \/ part = "keys"     /\ KeysFair
       \/ part = "payout"   /\ Fairness
       \/ part \in {"claims", "topup", "t1"}

-----------------------------------------------------------------------------
(* Type invariant: the components'. *)
SubsystemsTypeOK ==
    PosTypeOK /\ QrTypeOK /\ RotTypeOK /\ TopUpTypeOK /\ T1TypeOK /\ KeysTypeOK
=============================================================================
