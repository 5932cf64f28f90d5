---------------------------- MODULE PosSettlement ----------------------------
(***************************************************************************)
(* Settling card swipes to the retailer who held the terminal:             *)
(* src/src/lib/settlement/pos.ts with what feeds it - the capture and      *)
(* reversal webhooks, the ten-minute settle sweep over the mirror, the     *)
(* mirror sync that pulls the partner's feed and calls reversals, and the  *)
(* T+1 cron, the instant safety net and the dashboard button that pay.     *)
(*                                                                         *)
(* A run is one execution of one of them on one capture; every database    *)
(* statement is a step, because nothing here is one transaction.  Reading  *)
(* the holder, the user, the scheme and the instant budget only decides    *)
(* between turning a capture away, queueing and paying it, so it is a      *)
(* choice; so is the cron's due window, which only delays or withholds.    *)
(***************************************************************************)
EXTENDS Integers, FiniteSets

CONSTANTS
    Captures,   \* swipes that were captured at a terminal
    PosRuns     \* concurrent handler executions

ASSUME CapturesAssumption == Captures # {}

VARIABLES
    posTruth,   \* capture -> its state at the partner
    posListed,  \* captures whose swipe date is still in the lookback of the feed sweep
    posMirror,  \* capture -> its PosTransactionMirror status, or "none"
    posEntry,   \* capture -> its PosSettlementEntry: status and mode
    posCredit,  \* capture -> the ledger keys under which the wallet was credited
    posRun      \* run -> what it is doing

posVars == <<posTruth, posListed, posMirror, posEntry, posCredit, posRun>>

Modes    == {"T1", "INSTANT"}
Reversed == {"VOIDED", "FAILED"}        \* VOIDED stands for REFUNDED too

NoEntry == [status |-> "none", mode |-> "T1"]
PosIdle == [at |-> "idle", c |-> CHOOSE c \in Captures : TRUE, via |-> "none",
            seen |-> "none", prior |-> "none"]

PosInit ==
    /\ posTruth = [c \in Captures |-> "CAPTURED"]
    /\ posListed = Captures
    /\ posMirror = [c \in Captures |-> "none"]
    /\ posEntry = [c \in Captures |-> NoEntry]
    /\ posCredit = [c \in Captures |-> {}]
    /\ posRun = [r \in PosRuns |-> PosIdle]

-----------------------------------------------------------------------------
PosGo(r, w)  == posRun' = [posRun EXCEPT ![r] = w]
PosAt(r, at) == PosGo(r, [posRun[r] EXCEPT !.at = at])
PosEnd(r)    == PosGo(r, PosIdle)

PosStart(r, c, at, via) ==
    /\ posRun[r].at = "idle"
    /\ PosGo(r, [PosIdle EXCEPT !.at = at, !.c = c, !.via = via])
    /\ UNCHANGED <<posTruth, posListed, posMirror, posEntry, posCredit>>

SetEntry(c, e)        == posEntry' = [posEntry EXCEPT ![c] = e]
SetEntryStatus(c, s)  == posEntry' = [posEntry EXCEPT ![c].status = s]

(* Mutant: the sweeps key the credit by the entry's id. *)
SettleKeyByPath(path) == path

(* Every path that pays names the capture, so a second credit is a replay. *)
SettleKey(path) == "pos-settle"

CreditCapture(c, path) == posCredit' = [posCredit EXCEPT ![c] = @ \cup {SettleKey(path)}]

-----------------------------------------------------------------------------
(* handlePosCapture, from the webhook (delivered late or twice) and from   *)
(* the settle sweep over captured mirror rows. *)

CaptureWebhook(r, c) == PosStart(r, c, "lookup", "webhook")

(* The settle sweep has a lookback of its own, by default a day longer     *)
(* than the feed's; how long it goes on listing a capture is left open.    *)
MirrorSettle(r, c) == posMirror[c] = "CAPTURED" /\ PosStart(r, c, "lookup", "sweep")

(* The webhook mirrors the capture when it is done with it; a sweep ends.  *)
CaptureDone(r) == IF posRun[r].via = "webhook" THEN PosAt(r, "mirror") ELSE PosEnd(r)

(* Already processed, or nobody's terminal, no active user, no scheme.     *)
TurnAway(r) ==
    /\ posRun[r].at = "lookup"
    /\ CaptureDone(r)
    /\ UNCHANGED <<posTruth, posListed, posMirror, posEntry, posCredit>>

(* Mutant: a capture that was credited counts as already processed. *)
AcceptUncredited(r) ==
    /\ posRun[r].at = "lookup"
    /\ posEntry[posRun[r].c].status = "none" /\ posCredit[posRun[r].c] = {}
    /\ \E at \in {"pay", "queue"} : PosAt(r, at)
    /\ UNCHANGED <<posTruth, posListed, posMirror, posEntry, posCredit>>

Accept(r) ==
    /\ posRun[r].at = "lookup"
    /\ posEntry[posRun[r].c].status = "none"
    /\ \E at \in {"pay", "queue"} : PosAt(r, at)
    /\ UNCHANGED <<posTruth, posListed, posMirror, posEntry, posCredit>>

(* The instant credit; when it fails the entry is parked for the safety net. *)
PayNow(r) ==
    LET c == posRun[r].c IN
    /\ posRun[r].at = "pay"
    /\ \/ CreditCapture(c, "capture") /\ PosAt(r, "paid")
       \/ UNCHANGED posCredit /\ PosAt(r, "unpaid")
    /\ UNCHANGED <<posTruth, posListed, posMirror, posEntry>>

(* transactionRef is unique: the second of two concurrent inserts fails.   *)
CreateEntry(r) ==
    LET c == posRun[r].c  at == posRun[r].at IN
    /\ at \in {"paid", "unpaid", "queue"}
    /\ IF posEntry[c].status # "none" THEN UNCHANGED posEntry
       ELSE SetEntry(c, [status |-> IF at = "paid" THEN "SETTLED" ELSE "PENDING",
                         mode   |-> IF at = "queue" THEN "T1" ELSE "INSTANT"])
    /\ CaptureDone(r)
    /\ UNCHANGED <<posTruth, posListed, posMirror, posCredit>>

MirrorCapture(r) ==
    /\ posRun[r].at = "mirror"
    /\ posMirror' = [posMirror EXCEPT ![posRun[r].c] = "CAPTURED"]
    /\ PosEnd(r)
    /\ UNCHANGED <<posTruth, posListed, posEntry, posCredit>>

-----------------------------------------------------------------------------
(* handlePosReversal, from the webhook, from the mirror sync and from its  *)
(* second pass. *)

ReversalWebhook(r, c) == posTruth[c] = "VOIDED" /\ PosStart(r, c, "flip", "VOIDED")

(* upsertMirrorFromFeed: a page of the feed, which holds the swipes of the *)
(* last days, and a snapshot of the mirror, then the writes, then the      *)
(* reversals it classified.                                                *)
FeedPage(r, c) ==
    /\ posRun[r].at = "idle" /\ c \in posListed
    /\ PosGo(r, [PosIdle EXCEPT !.at = "upsert", !.c = c, !.via = "feed",
                                !.seen = posTruth[c], !.prior = posMirror[c]])
    /\ UNCHANGED <<posTruth, posListed, posMirror, posEntry, posCredit>>

ClassifyMirrorReversal(next, prior) ==
    \/ next = "VOIDED" /\ prior # "VOIDED"
    \/ next = "FAILED" /\ prior = "CAPTURED"

UpsertMirror(r) ==
    LET w == posRun[r] IN
    /\ w.at = "upsert"
    /\ posMirror' = [posMirror EXCEPT ![w.c] = w.seen]
    /\ IF ClassifyMirrorReversal(w.seen, w.prior)
       THEN PosGo(r, [PosIdle EXCEPT !.at = "flip", !.c = w.c, !.via = w.seen])
       ELSE PosEnd(r)
    /\ UNCHANGED <<posTruth, posListed, posEntry, posCredit>>

(* Mutant: the second pass looks at instant entries only. *)
InstantOrphans(c) == posEntry[c] = [status |-> "PENDING", mode |-> "INSTANT"] /\ posMirror[c] \in Reversed

(* A pending entry over a mirror row that is no capture any more. *)
Orphaned(c) == posEntry[c].status = "PENDING" /\ posMirror[c] \in Reversed

OrphanPass(r, c) == Orphaned(c) /\ PosStart(r, c, "flip", posMirror[c])

FlipMirror(r) ==
    LET w == posRun[r] IN
    /\ w.at = "flip"
    /\ posMirror' = IF posMirror[w.c] = "none" THEN posMirror ELSE [posMirror EXCEPT ![w.c] = w.via]
    /\ PosAt(r, "read")
    /\ UNCHANGED <<posTruth, posListed, posEntry, posCredit>>

ReadEntry(r) ==
    /\ posRun[r].at = "read"
    /\ IF posEntry[posRun[r].c].status \in {"none", "REVERSED"} THEN PosEnd(r) ELSE PosAt(r, "reverse")
    /\ UNCHANGED <<posTruth, posListed, posMirror, posEntry, posCredit>>

(* Written whatever became of the entry since it was read; money that left *)
(* stays out, for the desk to claw back.                                   *)
ReverseEntry(r) ==
    /\ posRun[r].at = "reverse"
    /\ SetEntryStatus(posRun[r].c, "REVERSED")
    /\ PosEnd(r)
    /\ UNCHANGED <<posTruth, posListed, posMirror, posCredit>>

-----------------------------------------------------------------------------
(* settleEntry on a PENDING entry: the T+1 cron, the instant safety net    *)
(* and the retailer's button, which takes entries of either mode at T0. *)

SettleVia(c) ==
    {"button"} \cup (IF posEntry[c].mode = "T1" THEN {"cron"} ELSE {"net"})

SettlePending(r, c) ==
    /\ posEntry[c].status = "PENDING"
    /\ \E via \in SettleVia(c) : PosStart(r, c, "verify", via)

Genuine(c) == posMirror[c] \notin Reversed

(* Holder and price refuse and leave the entry; the mirror closes it.      *)
Verify(r) ==
    LET c == posRun[r].c IN
    /\ posRun[r].at = "verify"
    /\ \/ PosEnd(r)
       \/ ~Genuine(c) /\ PosAt(r, "reverse")
       \/ Genuine(c) /\ PosAt(r, "credit")
    /\ UNCHANGED <<posTruth, posListed, posMirror, posEntry, posCredit>>

(* An exception: the crons mark the entry FAILED, the button leaves it.    *)
SettleThrows(r) == IF posRun[r].via = "button" THEN PosEnd(r) ELSE PosAt(r, "fail")

CreditEntry(r) ==
    /\ posRun[r].at = "credit"
    /\ \/ CreditCapture(posRun[r].c, posRun[r].via) /\ PosAt(r, "settle")
       \/ UNCHANGED posCredit /\ SettleThrows(r)
    /\ UNCHANGED <<posTruth, posListed, posMirror, posEntry>>

(* Written whatever became of the entry since it was listed. *)
MarkSettled(r) ==
    LET c == posRun[r].c IN
    /\ posRun[r].at = "settle"
    /\ \/ /\ SetEntry(c, [status |-> "SETTLED",
                          mode   |-> IF posRun[r].via = "cron" THEN posEntry[c].mode ELSE "INSTANT"])
          /\ PosEnd(r)
       \/ UNCHANGED posEntry /\ SettleThrows(r)
    /\ UNCHANGED <<posTruth, posListed, posMirror, posCredit>>

MarkFailed(r) ==
    /\ posRun[r].at = "fail"
    /\ SetEntryStatus(posRun[r].c, "FAILED")
    /\ PosEnd(r)
    /\ UNCHANGED <<posTruth, posListed, posMirror, posCredit>>

-----------------------------------------------------------------------------
(* A swipe is voided, refunded or declined after all. *)
PartnerReverses(c) ==
    /\ posTruth[c] = "CAPTURED"
    /\ \E s \in Reversed : posTruth' = [posTruth EXCEPT ![c] = s]
    /\ UNCHANGED <<posListed, posMirror, posEntry, posCredit, posRun>>

(* The days pass, and the swipe falls out of the feed's lookback. *)
LeavesFeed(c) ==
    /\ posListed' = posListed \ {c}
    /\ UNCHANGED <<posTruth, posMirror, posEntry, posCredit, posRun>>

(* The process dies between two statements. *)
PosCrash(r) ==
    /\ posRun[r].at # "idle"
    /\ PosEnd(r)
    /\ UNCHANGED <<posTruth, posListed, posMirror, posEntry, posCredit>>

PosStep(r) ==
    \/ TurnAway(r) \/ Accept(r) \/ PayNow(r) \/ CreateEntry(r) \/ MirrorCapture(r)
    \/ UpsertMirror(r) \/ FlipMirror(r) \/ ReadEntry(r) \/ ReverseEntry(r)
    \/ Verify(r) \/ CreditEntry(r) \/ MarkSettled(r) \/ MarkFailed(r)

PosNext ==
    \/ \E c \in Captures : PartnerReverses(c) \/ LeavesFeed(c)
    \/ \E r \in PosRuns :
         \/ PosStep(r)
         \/ PosCrash(r)
         \/ \E c \in Captures :
              \/ CaptureWebhook(r, c) \/ MirrorSettle(r, c) \/ ReversalWebhook(r, c)
              \/ FeedPage(r, c) \/ OrphanPass(r, c) \/ SettlePending(r, c)

PosSpec == PosInit /\ [][PosNext]_posVars

(* The sweeps are scheduled every few minutes and look at every row, the   *)
(* feed and the settle sweep at every recent one; runs go on, and stop     *)
(* dying at some time; a retailer in good standing is not turned away for  *)
(* ever.  Webhooks may never come.                                         *)
PosFair ==
    /\ \A c \in Captures :
         /\ SF_posVars(\E r \in PosRuns : FeedPage(r, c))
         /\ SF_posVars(\E r \in PosRuns : OrphanPass(r, c))
         /\ SF_posVars(c \in posListed /\ \E r \in PosRuns : MirrorSettle(r, c))
    /\ SF_posVars(\E r \in PosRuns : Accept(r))
    /\ \A r \in PosRuns : WF_posVars(PosStep(r))
    /\ <>[][\A r \in PosRuns : PosCrash(r) => PosStep(r)]_posVars

-----------------------------------------------------------------------------
(* Properties. *)

PosTypeOK ==
    /\ posTruth \in [Captures -> {"CAPTURED"} \cup Reversed]
    /\ posListed \subseteq Captures
    /\ posMirror \in [Captures -> {"none", "CAPTURED"} \cup Reversed]
    /\ posEntry \in [Captures -> [status : {"none", "PENDING", "SETTLED", "REVERSED", "FAILED"},
                                  mode : Modes]]
    /\ posCredit \in [Captures -> SUBSET {"pos-settle"}]
    /\ posRun \in [PosRuns ->
         [at : {"idle", "lookup", "pay", "paid", "unpaid", "queue", "mirror", "upsert", "flip", "read",
                "reverse", "verify", "credit", "settle", "fail"},
          c : Captures,
          via : {"none", "webhook", "sweep", "feed", "button", "cron", "net"} \cup Reversed,
          seen : {"none", "CAPTURED"} \cup Reversed,
          prior : {"none", "CAPTURED"} \cup Reversed]]

(* "No double credit": however many webhooks, sweeps and clicks pay one    *)
(* capture, and wherever they are cut off, the wallet got its net once;    *)
(* and an entry never claims a payment that did not happen.                *)
PosPaidOnce ==
    \A c \in Captures :
        /\ Cardinality(posCredit[c]) <= 1
        /\ posEntry[c].status = "SETTLED" => posCredit[c] # {}

(* "This second pass catches ALL such orphans": no entry of a swipe that   *)
(* was reversed stays queued for payment, whichever webhook or feed change *)
(* was lost, overtaken by the entry's creation or flipped back - unless    *)
(* the swipe fell out of the feed's lookback before the mirror learned of  *)
(* the reversal, when nothing but a webhook still tells.                   *)
PosVoidsClose ==
    \A c \in Captures :
        posTruth[c] # "CAPTURED" /\ posEntry[c].status = "PENDING"
            ~> \/ posEntry[c].status # "PENDING"
               \/ c \notin posListed /\ Genuine(c)

(* A crash after the instant credit leaves money without an entry; while   *)
(* the capture stands and its retailer stays eligible, a later sweep       *)
(* records it, unless the swipe falls out of the feed's lookback before.   *)
PosPaymentsRecorded ==
    \A c \in Captures :
        posCredit[c] # {} /\ posEntry[c].status = "none"
            ~> posEntry[c].status # "none" \/ posTruth[c] # "CAPTURED" \/ c \notin posListed

(* handlePosReversal moves an entry still PENDING to REVERSED "so the T+1  *)
(* / instant crons skip it.  No money moved - nothing to claw back": no    *)
(* sweep and no button credits it after that.                              *)
PosReversedSkipped ==
    [][\A c \in Captures, r \in PosRuns :
         /\ posEntry[c].status = "REVERSED" /\ posCredit[c] = {}
         /\ posRun[r].c = c /\ posRun[r].at = "credit"
         => posCredit'[c] = {}]_posVars
=============================================================================
