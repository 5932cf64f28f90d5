------------------------------- MODULE QrClaims -------------------------------
(***************************************************************************)
(* Claims for payments collected on a static QR code:                      *)
(* src/src/lib/qr/claims.ts.  A retailer submits a claim, one admin (two,  *)
(* for a large one) approves it, the retailer's button or the daily cron   *)
(* settles it, and an admin may claw a settled one back.                   *)
(*                                                                         *)
(* A run reads the claim in one step and acts on what it read in another.  *)
(* A refusal that changes nothing - price, funds, a note left out - is a   *)
(* run that ends.                                                          *)
(***************************************************************************)
EXTENDS Integers, FiniteSets

CONSTANTS
    Claims,     \* payments a retailer may claim
    Large,      \* those above secondApprovalThreshold
    Admins,     \* reviewers
    Nobody,     \* an approver column left NULL
    QrRuns      \* concurrent handler executions

ASSUME ClaimsAssumption == Claims # {}
ASSUME LargeAssumption  == Large \subseteq Claims
ASSUME NobodyAssumption == Nobody \notin Admins

VARIABLES
    qrClaim,    \* claim -> status, firstApprovedById, reviewedById
    qrLedger,   \* claim -> the ledger keys its money moved under
    qrRun       \* run -> what it read and is about to do

qrVars == <<qrClaim, qrLedger, qrRun>>

Reviewable == {"PENDING", "AWAITING_SECOND_APPROVAL"}

NoClaim == [status |-> "none", first |-> Nobody, reviewed |-> Nobody]
QrIdle  == [at |-> "idle", c |-> CHOOSE c \in Claims : TRUE, by |-> Nobody, read |-> "none"]

QrInit ==
    /\ qrClaim = [c \in Claims |-> NoClaim]
    /\ qrLedger = [c \in Claims |-> {}]
    /\ qrRun = [r \in QrRuns |-> QrIdle]

-----------------------------------------------------------------------------
QrBegin(r, c, at, by) ==
    /\ qrRun[r].at = "idle"
    /\ qrRun' = [qrRun EXCEPT ![r] = [at |-> at, c |-> c, by |-> by, read |-> qrClaim[c].status]]
    /\ UNCHANGED <<qrClaim, qrLedger>>

QrEnd(r) == qrRun' = [qrRun EXCEPT ![r] = QrIdle]

SetClaim(c, v) == qrClaim' = [qrClaim EXCEPT ![c] = v]

SubmitQrClaim(c) ==
    /\ qrClaim[c].status = "none"
    /\ SetClaim(c, [NoClaim EXCEPT !.status = "PENDING"])
    /\ UNCHANGED <<qrLedger, qrRun>>

-----------------------------------------------------------------------------
(* Review. *)

(* The first approval of a large claim only stages it; nobody gives both.  *)
ApproveQrClaim(r, c, a) ==
    /\ qrClaim[c].status \in Reviewable
    /\ IF qrClaim[c].status = "PENDING" /\ c \in Large
       THEN QrBegin(r, c, "stage", a)
       ELSE /\ qrClaim[c].status = "AWAITING_SECOND_APPROVAL" => qrClaim[c].first # a
            /\ QrBegin(r, c, "approve", a)

(* Mutant: the staging writes over what another admin decided meanwhile. *)
StageUnguarded(r) ==
    LET w == qrRun[r] IN
    /\ w.at = "stage"
    /\ SetClaim(w.c, [qrClaim[w.c] EXCEPT !.status = "AWAITING_SECOND_APPROVAL", !.first = w.by])
    /\ QrEnd(r)
    /\ UNCHANGED qrLedger

StageApproval(r) ==
    LET w == qrRun[r]  q == qrClaim[w.c] IN
    /\ w.at = "stage"
    /\ IF q.status = "PENDING"
       THEN SetClaim(w.c, [q EXCEPT !.status = "AWAITING_SECOND_APPROVAL", !.first = w.by])
       ELSE UNCHANGED qrClaim
    /\ QrEnd(r)
    /\ UNCHANGED qrLedger

FinalApproval(r) ==
    LET w == qrRun[r]  q == qrClaim[w.c] IN
    /\ w.at = "approve"
    /\ IF q.status = w.read
       THEN SetClaim(w.c, [q EXCEPT !.status = "SETTLEABLE", !.reviewed = w.by])
       ELSE UNCHANGED qrClaim
    /\ QrEnd(r)
    /\ UNCHANGED qrLedger

RejectQrClaim(c, a) ==
    /\ qrClaim[c].status \in Reviewable
    /\ SetClaim(c, [qrClaim[c] EXCEPT !.status = "REJECTED", !.reviewed = a])
    /\ UNCHANGED <<qrLedger, qrRun>>

-----------------------------------------------------------------------------
(* Settlement: the button and the cron list settleable claims, price them  *)
(* and claim the row together with the credit.  A ledger key moves once.   *)

SettleClaim(r, c) == qrClaim[c].status = "SETTLEABLE" /\ QrBegin(r, c, "settle", Nobody)

(* Mutant: the settlement does not look at the row again. *)
SettleUnclaimed(r) ==
    LET w == qrRun[r] IN
    /\ w.at = "settle"
    /\ SetClaim(w.c, [qrClaim[w.c] EXCEPT !.status = "SETTLED"])
    /\ qrLedger' = [qrLedger EXCEPT ![w.c] = @ \cup {"qrsettle"}]
    /\ QrEnd(r)

CreditClaim(r) ==
    LET w == qrRun[r]  q == qrClaim[w.c] IN
    /\ w.at = "settle"
    /\ IF q.status = "SETTLEABLE"
       THEN /\ SetClaim(w.c, [q EXCEPT !.status = "SETTLED"])
            /\ qrLedger' = [qrLedger EXCEPT ![w.c] = @ \cup {"qrsettle"}]
       ELSE UNCHANGED <<qrClaim, qrLedger>>
    /\ QrEnd(r)

(* Debits what was credited, or fails as a whole for lack of funds. *)
ClawbackQrClaim(r, c, a) == qrClaim[c].status = "SETTLED" /\ QrBegin(r, c, "claw", a)

DebitClaim(r) ==
    LET w == qrRun[r]  q == qrClaim[w.c] IN
    /\ w.at = "claw"
    /\ IF q.status = w.read
       THEN /\ SetClaim(w.c, [q EXCEPT !.status = "CLAWED_BACK", !.reviewed = w.by])
            /\ qrLedger' = [qrLedger EXCEPT ![w.c] = @ \cup {"qrclaim-clawback"}]
       ELSE UNCHANGED <<qrClaim, qrLedger>>
    /\ QrEnd(r)

(* Refused, failed or dead before the write. *)
QrGiveUp(r) ==
    /\ qrRun[r].at # "idle"
    /\ QrEnd(r)
    /\ UNCHANGED <<qrClaim, qrLedger>>

-----------------------------------------------------------------------------
QrStep(r) ==
    StageApproval(r) \/ FinalApproval(r) \/ CreditClaim(r) \/ DebitClaim(r) \/ QrGiveUp(r)

QrNext ==
    \/ \E c \in Claims :
         SubmitQrClaim(c) \/ \E a \in Admins : RejectQrClaim(c, a)
    \/ \E r \in QrRuns :
         \/ QrStep(r)
         \/ \E c \in Claims :
              \/ SettleClaim(r, c)
              \/ \E a \in Admins : ApproveQrClaim(r, c, a) \/ ClawbackQrClaim(r, c, a)

QrSpec == QrInit /\ [][QrNext]_qrVars

-----------------------------------------------------------------------------
(* Properties. *)

Statuses == Reviewable \cup {"none", "SETTLEABLE", "SETTLED", "REJECTED", "CLAWED_BACK"}

QrTypeOK ==
    /\ qrClaim \in [Claims -> [status : Statuses, first : Admins \cup {Nobody},
                               reviewed : Admins \cup {Nobody}]]
    /\ qrLedger \in [Claims -> SUBSET {"qrsettle", "qrclaim-clawback"}]
    /\ qrRun \in [QrRuns -> [at : {"idle", "stage", "approve", "settle", "claw"}, c : Claims,
                             by : Admins \cup {Nobody}, read : Statuses]]

(* "A racing instant-button click and T+1 sweep can never both pay out",   *)
(* and neither pays a claim an admin rejected or clawed back meanwhile: a  *)
(* claim's money is in the wallet exactly while the claim is SETTLED.      *)
QrMoneyMatchesStatus ==
    \A c \in Claims :
        qrLedger[c] = CASE qrClaim[c].status = "SETTLED"     -> {"qrsettle"}
                        [] qrClaim[c].status = "CLAWED_BACK" -> {"qrsettle", "qrclaim-clawback"}
                        [] OTHER                             -> {}

(* "The finalizing admin must differ from the first approver", whatever    *)
(* approvals of one large claim race each other on stale reads.            *)
QrLargeNeedsTwo ==
    \A c \in Large :
        qrClaim[c].status \in {"SETTLEABLE", "SETTLED"} =>
            /\ qrClaim[c].first \in Admins
            /\ qrClaim[c].reviewed \in Admins \ {qrClaim[c].first}
=============================================================================
