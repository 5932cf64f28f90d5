-------------------------------- MODULE TopUp --------------------------------
(***************************************************************************)
(* Wallet top-ups: initiateTopup and settleTopup of                        *)
(* src/src/lib/wallet/topup.ts, handleTopupCapture of                      *)
(* src/src/lib/settlement/pg.ts, and the two callers that settle: the      *)
(* Chagans webhook and the retailer's status check, which polls the other  *)
(* gateways.  A database transaction is a step, a read outside one too.    *)
(***************************************************************************)
EXTENDS Integers, FiniteSets

CONSTANTS
    TopUps,     \* WALLET_TOPUP Transaction rows
    Gateway,    \* top-up -> "mdr" (webhook only) or "poll"
    TopUpRuns   \* concurrent handler executions

ASSUME TopUpsAssumption  == TopUps # {}
ASSUME GatewayAssumption == Gateway \in [TopUps -> {"mdr", "poll"}]

VARIABLES
    topup,      \* top-up -> its Transaction status
    ordered,    \* top-ups whose partnerTxnId is stored
    pgEntry,    \* top-ups with a PgSettlementEntry
    topupCredit,\* top-up -> what the wallet got under its key: "nothing", "asked", "other"
    payment,    \* top-up -> what became of the payment at the gateway
    topupRun    \* run -> what it is doing

topupVars == <<topup, ordered, pgEntry, topupCredit, payment, topupRun>>

OpenTopUp == {"INITIATED", "PROCESSING"}

TopUpIdle == [at |-> "idle", t |-> CHOOSE t \in TopUps : TRUE, amount |-> "asked"]

TopUpInit ==
    /\ topup = [t \in TopUps |-> "none"]
    /\ ordered = {}
    /\ pgEntry = {}
    /\ topupCredit = [t \in TopUps |-> "nothing"]
    /\ payment = [t \in TopUps |-> "none"]
    /\ topupRun = [r \in TopUpRuns |-> TopUpIdle]

-----------------------------------------------------------------------------
TopUpGo(r, w)    == topupRun' = [topupRun EXCEPT ![r] = w]
TopUpAt(r, at)   == TopUpGo(r, [topupRun[r] EXCEPT !.at = at])
TopUpEnd(r)      == TopUpGo(r, TopUpIdle)
SetTopUp(t, s)   == topup' = [topup EXCEPT ![t] = s]
SetIfOpen(t, s)  == IF topup[t] \in OpenTopUp THEN SetTopUp(t, s) ELSE UNCHANGED topup

(* Its ledger key names the top-up: a second credit moves nothing. *)
CreditTopUp(t, amount) ==
    topupCredit' = [topupCredit EXCEPT ![t] = IF @ = "nothing" THEN amount ELSE @]

-----------------------------------------------------------------------------
(* initiateTopup. *)

InitiateTopup(r, t) ==
    /\ topupRun[r].at = "idle"
    /\ topup[t] = "none"
    /\ SetTopUp(t, "INITIATED")
    /\ TopUpGo(r, [TopUpIdle EXCEPT !.at = "collect", !.t = t])
    /\ UNCHANGED <<ordered, pgEntry, topupCredit, payment>>

(* The gateway takes the order or not; a lost answer reads as a refusal.   *)
CollectCall(r) ==
    LET t == topupRun[r].t IN
    /\ topupRun[r].at = "collect"
    /\ \/ payment' = [payment EXCEPT ![t] = "open"] /\ \E at \in {"accepted", "refused"} : TopUpAt(r, at)
       \/ UNCHANGED payment /\ TopUpAt(r, "refused")
    /\ UNCHANGED <<topup, ordered, pgEntry, topupCredit>>

CollectAccepted(r) ==
    LET t == topupRun[r].t IN
    /\ topupRun[r].at = "accepted"
    /\ SetTopUp(t, "PROCESSING")
    /\ ordered' = ordered \cup {t}
    /\ TopUpEnd(r)
    /\ UNCHANGED <<pgEntry, topupCredit, payment>>

CollectRefused(r) ==
    /\ topupRun[r].at = "refused"
    /\ SetTopUp(topupRun[r].t, "FAILED")
    /\ TopUpEnd(r)
    /\ UNCHANGED <<ordered, pgEntry, topupCredit, payment>>

-----------------------------------------------------------------------------
(* The customer pays, or the gateway reports a failure it may take back.   *)
PaymentChanges(t) ==
    /\ \/ payment[t] \in {"open", "failed"} /\ payment' = [payment EXCEPT ![t] = "paid"]
       \/ payment[t] = "open" /\ payment' = [payment EXCEPT ![t] = "failed"]
    /\ UNCHANGED <<topup, ordered, pgEntry, topupCredit, topupRun>>

(* Mutant: the captured amount is not compared with the one asked for. *)
AnyAmount(amount) == FALSE

(* "asked" is every amount at most one rupee away from the one asked for.  *)
IsAmountMismatch(amount) == amount # "asked"

(* Anything the route cannot read as PAID or FAILED it calls EXPIRED, so   *)
(* an order may be reported dead in any state; PAID only when it was paid. *)
Webhook(r, t) ==
    /\ topupRun[r].at = "idle"
    /\ Gateway[t] = "mdr"
    /\ t \in ordered
    /\ topup[t] \in OpenTopUp
    /\ \/ TopUpGo(r, [at |-> "fail", t |-> t, amount |-> "asked"])
       \/ \E amount \in {"asked", "other"} :
            /\ payment[t] = "paid"
            /\ TopUpGo(r, [at |-> IF IsAmountMismatch(amount) THEN "hold" ELSE "capture",
                           t |-> t, amount |-> amount])
    /\ UNCHANGED <<topup, ordered, pgEntry, topupCredit, payment>>

(* The retailer's status check on a gateway that can be asked: by its own  *)
(* reference for the order, or by the portal's when none was stored.       *)
StatusCheck(r, t) ==
    /\ topupRun[r].at = "idle"
    /\ Gateway[t] = "poll"
    /\ topup[t] \in OpenTopUp
    /\ payment[t] \in {"paid", "failed"}
    /\ TopUpGo(r, [at |-> IF payment[t] = "paid" THEN "claim" ELSE "fail", t |-> t, amount |-> "asked"])
    /\ UNCHANGED <<topup, ordered, pgEntry, topupCredit, payment>>

FailOrHold(r) ==
    LET w == topupRun[r] IN
    /\ w.at \in {"fail", "hold"}
    /\ SetIfOpen(w.t, IF w.at = "fail" THEN "FAILED" ELSE "HOLD")
    /\ TopUpEnd(r)
    /\ UNCHANGED <<ordered, pgEntry, topupCredit, payment>>

ClaimPaid(r) ==
    LET t == topupRun[r].t IN
    /\ topupRun[r].at = "claim"
    /\ SetIfOpen(t, "SUCCESS")
    /\ IF topup[t] \in OpenTopUp THEN CreditTopUp(t, "asked") ELSE UNCHANGED topupCredit
    /\ TopUpEnd(r)
    /\ UNCHANGED <<ordered, pgEntry, payment>>

-----------------------------------------------------------------------------
(* handleTopupCapture. *)

CaptureLookup(r) ==
    /\ topupRun[r].at = "capture"
    /\ IF topupRun[r].t \in pgEntry THEN TopUpEnd(r)
       ELSE \E at \in {"credit", "unpriced"} : TopUpAt(r, at)
    /\ UNCHANGED <<topup, ordered, pgEntry, topupCredit, payment>>

(* No scheme: written whatever became of the row. *)
Unpriced(r) ==
    /\ topupRun[r].at = "unpriced"
    /\ SetTopUp(topupRun[r].t, "FAILED")
    /\ TopUpEnd(r)
    /\ UNCHANGED <<ordered, pgEntry, topupCredit, payment>>

(* Entry, status and credit in one transaction, which the unique index on  *)
(* the entry lets through once.                                            *)
CreditCaptured(r) ==
    LET w == topupRun[r]  t == w.t IN
    /\ w.at = "credit"
    /\ IF t \in pgEntry THEN UNCHANGED <<topup, pgEntry, topupCredit>>
       ELSE /\ pgEntry' = pgEntry \cup {t}
            /\ SetTopUp(t, "SUCCESS")
            /\ CreditTopUp(t, w.amount)
    /\ TopUpEnd(r)
    /\ UNCHANGED <<ordered, payment>>

TopUpCrash(r) ==
    /\ topupRun[r].at # "idle"
    /\ TopUpEnd(r)
    /\ UNCHANGED <<topup, ordered, pgEntry, topupCredit, payment>>

-----------------------------------------------------------------------------
TopUpStep(r) ==
    \/ CollectCall(r) \/ CollectAccepted(r) \/ CollectRefused(r) \/ FailOrHold(r) \/ ClaimPaid(r)
    \/ CaptureLookup(r) \/ Unpriced(r) \/ CreditCaptured(r)

TopUpNext ==
    \/ \E t \in TopUps : PaymentChanges(t)
    \/ \E r \in TopUpRuns :
         \/ TopUpStep(r) \/ TopUpCrash(r)
         \/ \E t \in TopUps : InitiateTopup(r, t) \/ Webhook(r, t) \/ StatusCheck(r, t)

TopUpSpec == TopUpInit /\ [][TopUpNext]_topupVars

-----------------------------------------------------------------------------
(* Properties. *)

TopUpTypeOK ==
    /\ topup \in [TopUps -> OpenTopUp \cup {"none", "SUCCESS", "FAILED", "HOLD"}]
    /\ ordered \subseteq TopUps /\ pgEntry \subseteq TopUps
    /\ topupCredit \in [TopUps -> {"nothing", "asked", "other"}]
    /\ payment \in [TopUps -> {"none", "open", "paid", "failed"}]
    /\ topupRun \in [TopUpRuns ->
         [at : {"idle", "collect", "accepted", "refused", "fail", "hold", "claim", "capture",
                "unpriced", "credit"}, t : TopUps, amount : {"asked", "other"}]]

(* "Never auto-credit a different amount", nor a payment not made, nor     *)
(* show a top-up as done that was not credited; on a webhook-only gateway  *)
(* the credit and the settlement entry exist together, through any         *)
(* crossing of PAID, FAILED and repeated webhooks.                         *)
TopUpCreditsMatch ==
    \A t \in TopUps :
        /\ topupCredit[t] \in {"nothing", "asked"}
        /\ topup[t] = "SUCCESS" => topupCredit[t] = "asked"
        /\ topupCredit[t] # "nothing" => payment[t] = "paid"
        /\ Gateway[t] = "mdr" => (t \in pgEntry <=> topupCredit[t] # "nothing")
=============================================================================
