------------------------------ MODULE Disbursal ------------------------------
(***************************************************************************)
(* The life of one payout as the header of src/src/lib/payout/service.ts   *)
(* draws it: funds are held from the submission on, the transfer is handed *)
(* to the rail once, and the hold ends in exactly one way; only a          *)
(* transfer that was paid can come back later.                             *)
(***************************************************************************)
CONSTANT Payouts

VARIABLE stage

Init == \E W \in SUBSET Payouts :
            stage = [p \in Payouts |-> IF p \in W THEN "asked" ELSE "none"]

Change(p, from, to) == stage[p] \in from /\ stage' = [stage EXCEPT ![p] = to]

Submit(p)  == Change(p, {"none"}, "approved")
Approve(p) == Change(p, {"asked"}, "approved")
HandOff(p) == Change(p, {"approved"}, "handed off")
Capture(p) == Change(p, {"approved", "handed off"}, "captured")
Release(p) == Change(p, {"asked", "approved", "handed off"}, "released")
Reverse(p) == Change(p, {"captured"}, "reversed")

Next == \E p \in Payouts :
            Submit(p) \/ Approve(p) \/ HandOff(p) \/ Capture(p) \/ Release(p) \/ Reverse(p)

Spec == Init /\ [][Next]_stage
=============================================================================
