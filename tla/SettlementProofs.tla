-------------------------- MODULE SettlementProofs --------------------------
(***************************************************************************)
(* Proofs about the components that credit a retailer once for money that  *)
(* arrived: PosSettlement, TopUp and T1Settlement.  They share no variable; *)
(* each part stands alone.                                                 *)
(***************************************************************************)
EXTENDS PosSettlement, TopUp, T1Settlement, FiniteSetTheorems, TLAPS

-----------------------------------------------------------------------------
(* Proofs about PosSettlement, for any number of captures and handlers,    *)
(* dying at will.  A capture is paid once because every path credits      *)
(* under one key, and no entry claims a payment that did not happen        *)
(* because a run that is about to write SETTLED has credited before - a    *)
(* fact about the run, whatever others made of the entry meanwhile.        *)
PosRunType ==
    [at : {"idle", "lookup", "pay", "paid", "unpaid", "queue", "mirror", "upsert", "flip", "read",
           "reverse", "verify", "credit", "settle", "fail"},
     c : Captures,
     via : {"none", "webhook", "sweep", "feed", "button", "cron", "net"} \cup Reversed,
     seen : {"none", "CAPTURED"} \cup Reversed,
     prior : {"none", "CAPTURED"} \cup Reversed]

PosEntryType == [status : {"none", "PENDING", "SETTLED", "REVERSED", "FAILED"}, mode : Modes]

(* A run that will write SETTLED has credited its capture; one that flips  *)
(* the mirror carries the state it was reversed to. *)
PosCredits(w) == w.at \in {"paid", "settle"} => posCredit[w.c] # {}

PosCarries(w) == w.at = "flip" => w.via \in Reversed

PosInv ==
    /\ PosTypeOK
    /\ \A r \in PosRuns : PosCredits(posRun[r]) /\ PosCarries(posRun[r])
    /\ \A c \in Captures : posEntry[c].status = "SETTLED" => posCredit[c] # {}

-----------------------------------------------------------------------------
LEMMA PosIdleTyped == PosIdle \in PosRunType /\ PosIdle.at = "idle"
  BY CapturesAssumption DEF PosIdle, PosRunType

LEMMA PosInitInv == PosInit => PosInv
  <1> SUFFICES ASSUME PosInit PROVE PosInv OBVIOUS
  <1> USE PosIdleTyped DEF PosInit
  <1>1. PosTypeOK
    BY DEF PosTypeOK, PosRunType, NoEntry, Modes
  <1>2. \A r \in PosRuns : PosCredits(posRun[r]) /\ PosCarries(posRun[r])
    BY DEF PosCredits, PosCarries
  <1>3. \A c \in Captures : posEntry[c].status # "SETTLED"
    BY DEF NoEntry
  <1> QED BY <1>1, <1>2, <1>3 DEF PosInv

LEMMA PosTypes ==
    ASSUME PosInv
    PROVE  /\ posRun \in [PosRuns -> PosRunType] /\ posEntry \in [Captures -> PosEntryType]
           /\ posCredit \in [Captures -> SUBSET {"pos-settle"}]
           /\ \A r \in PosRuns : posRun[r] \in PosRunType /\ posRun[r].c \in Captures
  BY DEF PosInv, PosTypeOK, PosRunType, PosEntryType

(* A step of one run: it goes to w, may write the entry of one capture and *)
(* credit it; SETTLED and a run that says it paid follow a credit.         *)
LEMMA PosRunKeeps ==
    ASSUME PosInv, NEW r \in PosRuns, NEW w \in PosRunType, NEW c \in Captures, NEW e \in PosEntryType,
           PosGo(r, w), posEntry' = [posEntry EXCEPT ![c] = e],
           posTruth' \in [Captures -> {"CAPTURED"} \cup Reversed],
           posListed' \subseteq Captures,
           posMirror' \in [Captures -> {"none", "CAPTURED"} \cup Reversed],
           UNCHANGED posCredit \/ posCredit' = [posCredit EXCEPT ![c] = @ \cup {"pos-settle"}],
           w.at \in {"paid", "settle"} => posCredit'[w.c] # {}, PosCarries(w),
           e.status = "SETTLED" => posCredit'[c] # {}
    PROVE  PosInv'
  <1>0. /\ posCredit' \in [Captures -> SUBSET {"pos-settle"}]
        /\ \A d \in Captures : posCredit[d] # {} => posCredit'[d] # {}
    BY PosTypes
  <1>1. posRun' \in [PosRuns -> PosRunType] /\ posRun'[r] = w /\ \A s \in PosRuns \ {r} : posRun'[s] = posRun[s]
    BY PosTypes DEF PosGo
  <1>2. posEntry' \in [Captures -> PosEntryType] /\ posEntry'[c] = e
        /\ \A d \in Captures \ {c} : posEntry'[d] = posEntry[d]
    BY PosTypes
  <1>3. PosTypeOK'
    BY <1>0, <1>1, <1>2 DEF PosTypeOK, PosRunType, PosEntryType
  <1>4. ASSUME NEW s \in PosRuns PROVE PosCredits(posRun[s])' /\ PosCarries(posRun[s])'
    BY <1>0, <1>1, PosTypes DEF PosInv, PosCredits, PosCarries
  <1>5. \A d \in Captures : posEntry'[d].status = "SETTLED" => posCredit'[d] # {}
    BY <1>0, <1>2 DEF PosInv
  <1> QED BY <1>3, <1>4, <1>5 DEF PosInv

(* A run that goes on or ends without a credit. *)
LEMMA PosGoKeeps ==
    ASSUME PosInv, NEW r \in PosRuns, NEW w \in PosRunType, PosGo(r, w),
           UNCHANGED <<posTruth, posListed, posEntry, posCredit>>,
           posMirror' \in [Captures -> {"none", "CAPTURED"} \cup Reversed],
           w.at \notin {"paid", "settle"}, PosCarries(w)
    PROVE  PosInv'
  <1>1. PICK c \in Captures : TRUE
    BY CapturesAssumption
  <1>2. posEntry[c] \in PosEntryType /\ posEntry' = [posEntry EXCEPT ![c] = posEntry[c]]
    BY PosTypes
  <1>3. posTruth' \in [Captures -> {"CAPTURED"} \cup Reversed] /\ posListed' \subseteq Captures
    BY DEF PosInv, PosTypeOK
  <1>4. posEntry[c].status = "SETTLED" => posCredit'[c] # {}
    BY DEF PosInv
  <1> QED BY <1>2, <1>3, <1>4, PosRunKeeps

LEMMA AtKeeps ==
    ASSUME PosInv, NEW r \in PosRuns,
           NEW at \in {"idle", "lookup", "pay", "unpaid", "queue", "mirror", "upsert", "read",
                      "reverse", "verify", "credit", "fail"},
           PosAt(r, at), UNCHANGED <<posTruth, posListed, posEntry, posCredit>>,
           posMirror' \in [Captures -> {"none", "CAPTURED"} \cup Reversed]
    PROVE  PosInv'
  <1> DEFINE w == [posRun[r] EXCEPT !.at = at]
  <1>1. posRun[r] \in PosRunType
    BY PosTypes
  <1>2. w \in PosRunType /\ w.at = at /\ PosCarries(w)
    BY <1>1 DEF PosRunType, PosCarries
  <1>3. PosGo(r, w)
    BY DEF PosAt, PosInv, PosTypeOK
  <1> HIDE DEF w
  <1> QED BY <1>2, <1>3, PosGoKeeps

LEMMA PosEndKeeps ==
    ASSUME PosInv, NEW r \in PosRuns, PosEnd(r), UNCHANGED <<posTruth, posListed, posEntry, posCredit>>,
           posMirror' \in [Captures -> {"none", "CAPTURED"} \cup Reversed]
    PROVE  PosInv'
  BY PosIdleTyped, PosGoKeeps DEF PosEnd, PosCarries

LEMMA PosUnchanged ==
    ASSUME PosInv
    PROVE  /\ posMirror \in [Captures -> {"none", "CAPTURED"} \cup Reversed]
           /\ posTruth \in [Captures -> {"CAPTURED"} \cup Reversed]
           /\ posListed \subseteq Captures
  BY DEF PosInv, PosTypeOK

LEMMA PosDoneKeeps ==
    ASSUME PosInv, NEW r \in PosRuns, CaptureDone(r) \/ SettleThrows(r),
           UNCHANGED <<posTruth, posListed, posMirror, posEntry, posCredit>>
    PROVE  PosInv'
  BY AtKeeps, PosEndKeeps, PosUnchanged DEF CaptureDone, SettleThrows

(* A run of some handler begins. *)
LEMMA StartKeeps ==
    ASSUME PosInv, NEW r \in PosRuns, NEW c \in Captures,
           NEW at \in {"lookup", "flip", "verify"},
           NEW via \in {"webhook", "sweep", "button", "cron", "net"} \cup Reversed,
           PosStart(r, c, at, via), at = "flip" => via \in Reversed
    PROVE  PosInv'
  <1> DEFINE w == [PosIdle EXCEPT !.at = at, !.c = c, !.via = via]
  <1>1. w \in PosRunType /\ w.at = at /\ PosCarries(w)
    BY PosIdleTyped DEF PosRunType, PosCarries
  <1>2. PosGo(r, w) /\ UNCHANGED <<posTruth, posListed, posMirror, posEntry, posCredit>>
    BY DEF PosStart
  <1> HIDE DEF w
  <1> QED BY <1>1, <1>2, PosUnchanged, PosGoKeeps

-----------------------------------------------------------------------------
LEMMA PayKeeps == ASSUME PosInv, NEW r \in PosRuns, PayNow(r) PROVE PosInv'
  <1> DEFINE c == posRun[r].c
             w == [posRun[r] EXCEPT !.at = "paid"]
  <1>0. c \in Captures /\ posRun[r] \in PosRunType /\ UNCHANGED <<posTruth, posListed, posMirror, posEntry>>
    BY PosTypes DEF PayNow
  <1>1. CASE UNCHANGED posCredit /\ PosAt(r, "unpaid")
    BY <1>0, <1>1, AtKeeps, PosUnchanged
  <1>2. CASE CreditCapture(c, "capture") /\ PosAt(r, "paid")
    <2>1. w \in PosRunType /\ w.at = "paid" /\ w.c = c /\ PosGo(r, w) /\ PosCarries(w)
      BY <1>0, <1>2 DEF PosRunType, PosAt, PosCarries
    <2>2. posCredit' = [posCredit EXCEPT ![c] = @ \cup {"pos-settle"}] /\ posCredit'[c] # {}
      BY <1>0, <1>2, PosTypes DEF CreditCapture, SettleKey
    <2>3. posEntry[c] \in PosEntryType /\ posEntry' = [posEntry EXCEPT ![c] = posEntry[c]]
      BY <1>0, PosTypes
    <2> HIDE DEF w
    <2> QED BY <1>0, <1>2, <2>1, <2>2, <2>3, PosUnchanged, PosRunKeeps
  <1> QED BY <1>1, <1>2 DEF PayNow

LEMMA CreateKeeps == ASSUME PosInv, NEW r \in PosRuns, CreateEntry(r) PROVE PosInv'
  <1> DEFINE c == posRun[r].c
             e == [status |-> IF posRun[r].at = "paid" THEN "SETTLED" ELSE "PENDING",
                   mode   |-> IF posRun[r].at = "queue" THEN "T1" ELSE "INSTANT"]
  <1>0. c \in Captures /\ posRun[r] \in PosRunType /\ UNCHANGED <<posTruth, posListed, posMirror, posCredit>>
    BY PosTypes DEF CreateEntry
  <1>1. CASE UNCHANGED posEntry
    BY <1>0, <1>1, PosDoneKeeps DEF CreateEntry
  <1>2. CASE SetEntry(c, e)
    <2>1. e \in PosEntryType
      BY DEF PosEntryType, Modes
    <2>2. e.status = "SETTLED" => posCredit[c] # {}
      BY <1>0 DEF PosInv, PosCredits
    <2>3. posEntry' = [posEntry EXCEPT ![c] = e]
      BY <1>2 DEF SetEntry
    <2>4. CASE PosEnd(r)
      <3> HIDE DEF e
      <3> QED BY <1>0, <2>1, <2>2, <2>3, <2>4, PosIdleTyped, PosUnchanged, PosRunKeeps DEF PosEnd, PosCarries
    <2>5. CASE PosAt(r, "mirror")
      <3> DEFINE w == [posRun[r] EXCEPT !.at = "mirror"]
      <3>1. w \in PosRunType /\ w.at = "mirror" /\ PosGo(r, w) /\ PosCarries(w)
        BY <1>0, <2>5 DEF PosRunType, PosAt, PosCarries
      <3> HIDE DEF e, w
      <3> QED BY <1>0, <2>1, <2>2, <2>3, <3>1, PosUnchanged, PosRunKeeps
    <2> QED BY <2>4, <2>5 DEF CreateEntry, CaptureDone
  <1> QED BY <1>1, <1>2 DEF CreateEntry

(* A status written at the end of a run. *)
LEMMA PosCloseKeeps ==
    ASSUME PosInv, NEW r \in PosRuns, NEW status \in {"REVERSED", "FAILED"},
           SetEntryStatus(posRun[r].c, status), PosEnd(r),
           UNCHANGED <<posTruth, posListed, posMirror, posCredit>>
    PROVE  PosInv'
  <1> DEFINE c == posRun[r].c
             e == [posEntry[c] EXCEPT !.status = status]
  <1>1. c \in Captures /\ posEntry[c] \in PosEntryType
    BY PosTypes
  <1>2. e \in PosEntryType /\ e.status = status
    BY <1>1 DEF PosEntryType
  <1>3. posEntry' = [posEntry EXCEPT ![c] = e]
    BY DEF SetEntryStatus
  <1> HIDE DEF e
  <1> QED BY <1>1, <1>2, <1>3, PosIdleTyped, PosUnchanged, PosRunKeeps DEF PosEnd, PosCarries

LEMMA PosCreditKeeps == ASSUME PosInv, NEW r \in PosRuns, CreditEntry(r) PROVE PosInv'
  <1> DEFINE c == posRun[r].c
             w == [posRun[r] EXCEPT !.at = "settle"]
  <1>0. c \in Captures /\ posRun[r] \in PosRunType /\ UNCHANGED <<posTruth, posListed, posMirror, posEntry>>
    BY PosTypes DEF CreditEntry
  <1>1. CASE UNCHANGED posCredit /\ SettleThrows(r)
    BY <1>0, <1>1, PosDoneKeeps
  <1>2. CASE CreditCapture(c, posRun[r].via) /\ PosAt(r, "settle")
    <2>1. w \in PosRunType /\ w.at = "settle" /\ w.c = c /\ PosGo(r, w) /\ PosCarries(w)
      BY <1>0, <1>2 DEF PosRunType, PosAt, PosCarries
    <2>2. posCredit' = [posCredit EXCEPT ![c] = @ \cup {"pos-settle"}] /\ posCredit'[c] # {}
      BY <1>0, <1>2, PosTypes DEF CreditCapture, SettleKey
    <2>3. posEntry[c] \in PosEntryType /\ posEntry' = [posEntry EXCEPT ![c] = posEntry[c]]
      BY <1>0, PosTypes
    <2> HIDE DEF w
    <2> QED BY <1>0, <2>1, <2>2, <2>3, PosUnchanged, PosRunKeeps
  <1> QED BY <1>1, <1>2 DEF CreditEntry

LEMMA SettledKeeps == ASSUME PosInv, NEW r \in PosRuns, MarkSettled(r) PROVE PosInv'
  <1> DEFINE c == posRun[r].c
             e == [status |-> "SETTLED",
                   mode   |-> IF posRun[r].via = "cron" THEN posEntry[c].mode ELSE "INSTANT"]
  <1>0. /\ c \in Captures /\ posEntry[c] \in PosEntryType /\ posCredit[c] # {}
        /\ UNCHANGED <<posTruth, posListed, posMirror, posCredit>>
    BY PosTypes DEF MarkSettled, PosInv, PosCredits
  <1>1. CASE UNCHANGED posEntry /\ SettleThrows(r)
    BY <1>0, <1>1, PosDoneKeeps
  <1>2. CASE SetEntry(c, e) /\ PosEnd(r)
    <2>1. e \in PosEntryType /\ posEntry' = [posEntry EXCEPT ![c] = e]
      BY <1>0, <1>2 DEF PosEntryType, Modes, SetEntry
    <2> HIDE DEF e
    <2> QED BY <1>0, <1>2, <2>1, PosIdleTyped, PosUnchanged, PosRunKeeps DEF PosEnd, PosCarries
  <1> QED BY <1>1, <1>2 DEF MarkSettled

(* The mirror sync. *)
LEMMA FeedKeeps == ASSUME PosInv, NEW r \in PosRuns, NEW c \in Captures, FeedPage(r, c) PROVE PosInv'
  <1> DEFINE w == [PosIdle EXCEPT !.at = "upsert", !.c = c, !.via = "feed",
                                  !.seen = posTruth[c], !.prior = posMirror[c]]
  <1>0. /\ posTruth[c] \in {"none", "CAPTURED"} \cup Reversed
        /\ posMirror[c] \in {"none", "CAPTURED"} \cup Reversed
    BY PosUnchanged
  <1>1. w \in PosRunType /\ w.at = "upsert" /\ PosCarries(w)
    BY <1>0, PosIdleTyped DEF PosRunType, PosCarries
  <1>2. PosGo(r, w) /\ UNCHANGED <<posTruth, posListed, posMirror, posEntry, posCredit>>
    BY DEF FeedPage
  <1> HIDE DEF w
  <1> QED BY <1>1, <1>2, PosUnchanged, PosGoKeeps

LEMMA UpsertKeeps == ASSUME PosInv, NEW r \in PosRuns, UpsertMirror(r) PROVE PosInv'
  <1> DEFINE w == posRun[r]
             v == [PosIdle EXCEPT !.at = "flip", !.c = w.c, !.via = w.seen]
  <1>0. w \in PosRunType
    BY PosTypes
  <1>1. /\ posMirror' \in [Captures -> {"none", "CAPTURED"} \cup Reversed]
        /\ UNCHANGED <<posTruth, posListed, posEntry, posCredit>>
    BY <1>0, PosUnchanged DEF UpsertMirror, PosRunType
  <1>2. CASE PosEnd(r)
    BY <1>1, <1>2, PosUnchanged, PosEndKeeps
  <1>3. CASE ClassifyMirrorReversal(w.seen, w.prior) /\ PosGo(r, v)
    <2>1. w.seen \in Reversed /\ w.c \in Captures
      BY <1>0, <1>3 DEF ClassifyMirrorReversal, Reversed, PosRunType
    <2>2. v \in PosRunType /\ v.at = "flip" /\ PosCarries(v)
      BY <2>1, PosIdleTyped DEF PosRunType, PosCarries
    <2> HIDE DEF v
    <2> QED BY <1>1, <1>3, <2>2, PosUnchanged, PosGoKeeps
  <1> QED BY <1>2, <1>3 DEF UpsertMirror

LEMMA FlipKeeps == ASSUME PosInv, NEW r \in PosRuns, FlipMirror(r) PROVE PosInv'
  <1>1. posRun[r].via \in Reversed /\ PosAt(r, "read") /\ UNCHANGED <<posTruth, posListed, posEntry, posCredit>>
    BY DEF FlipMirror, PosInv, PosCarries
  <1>2. posMirror' \in [Captures -> {"none", "CAPTURED"} \cup Reversed]
    BY <1>1, PosUnchanged DEF FlipMirror
  <1> QED BY <1>1, <1>2, AtKeeps

LEMMA PosStepKeeps == ASSUME PosInv, NEW r \in PosRuns, PosStep(r) \/ PosCrash(r) PROVE PosInv'
  <1>1. ASSUME TurnAway(r) PROVE PosInv'
    BY <1>1, PosDoneKeeps DEF TurnAway
  <1>2. ASSUME Accept(r) PROVE PosInv'
    BY <1>2, AtKeeps, PosUnchanged DEF Accept
  <1>3. ASSUME MirrorCapture(r) PROVE PosInv'
    <2>1. posMirror' \in [Captures -> {"none", "CAPTURED"} \cup Reversed]
      BY <1>3, PosUnchanged DEF MirrorCapture
    <2> QED BY <1>3, <2>1, PosEndKeeps, PosUnchanged DEF MirrorCapture
  <1>4. ASSUME ReadEntry(r) PROVE PosInv'
    BY <1>4, AtKeeps, PosEndKeeps, PosUnchanged DEF ReadEntry
  <1>5. ASSUME ReverseEntry(r) \/ MarkFailed(r) PROVE PosInv'
    BY <1>5, PosCloseKeeps DEF ReverseEntry, MarkFailed
  <1>6. ASSUME Verify(r) PROVE PosInv'
    BY <1>6, AtKeeps, PosEndKeeps, PosUnchanged DEF Verify
  <1>7. ASSUME PosCrash(r) PROVE PosInv'
    BY <1>7, PosEndKeeps, PosUnchanged DEF PosCrash
  <1> QED BY <1>1, <1>2, <1>3, <1>4, <1>5, <1>6, <1>7, PayKeeps, CreateKeeps, UpsertKeeps,
             FlipKeeps, PosCreditKeeps, SettledKeeps DEF PosStep

LEMMA PosBeginKeeps ==
    ASSUME PosInv, NEW r \in PosRuns, NEW c \in Captures,
           \/ CaptureWebhook(r, c) \/ MirrorSettle(r, c) \/ ReversalWebhook(r, c)
           \/ FeedPage(r, c) \/ OrphanPass(r, c) \/ SettlePending(r, c)
    PROVE  PosInv'
  <1>1. ASSUME CaptureWebhook(r, c) \/ MirrorSettle(r, c) PROVE PosInv'
    BY <1>1, StartKeeps DEF CaptureWebhook, MirrorSettle
  <1>2. ASSUME ReversalWebhook(r, c) \/ OrphanPass(r, c) PROVE PosInv'
    BY <1>2, StartKeeps DEF ReversalWebhook, OrphanPass, Orphaned, Reversed
  <1>3. ASSUME SettlePending(r, c) PROVE PosInv'
    BY <1>3, StartKeeps DEF SettlePending, SettleVia
  <1> QED BY <1>1, <1>2, <1>3, FeedKeeps

LEMMA WorldKeeps ==
    ASSUME PosInv, NEW c \in Captures, PartnerReverses(c) \/ LeavesFeed(c) PROVE PosInv'
  <1>1. posTruth' \in [Captures -> {"CAPTURED"} \cup Reversed] /\ posListed' \subseteq Captures
    BY PosUnchanged DEF PartnerReverses, LeavesFeed
  <1>2. UNCHANGED <<posMirror, posEntry, posCredit, posRun>>
    BY DEF PartnerReverses, LeavesFeed
  <1> QED BY <1>1, <1>2 DEF PosInv, PosTypeOK, PosCredits, PosCarries

LEMMA PosNextInv == PosInv /\ [PosNext]_posVars => PosInv'
  <1> SUFFICES ASSUME PosInv, [PosNext]_posVars PROVE PosInv' OBVIOUS
  <1>1. CASE UNCHANGED posVars
    BY <1>1 DEF posVars, PosInv, PosTypeOK, PosCredits, PosCarries
  <1>2. CASE PosNext
    BY <1>2, WorldKeeps, PosStepKeeps, PosBeginKeeps DEF PosNext
  <1> QED BY <1>1, <1>2

LEMMA PosAlwaysInv == PosSpec => []PosInv
  BY PosInitInv, PosNextInv, PTL DEF PosSpec

-----------------------------------------------------------------------------
(* Type correctness of mirror, entries, credits and runs, for any number   *)
(* of captures and handlers (settlement/pos.ts and its callers). *)
THEOREM SwipesTyped == PosSpec => []PosTypeOK
  BY PosAlwaysInv, PTL DEF PosInv

(* handlePosCapture and settleEntry: however many webhooks, sweeps and     *)
(* clicks pay one capture, whatever dies in between, its wallet is         *)
(* credited once, and a SETTLED entry was paid. *)
THEOREM PaidOnce == PosSpec => []PosPaidOnce
  <1>1. PosInv => PosPaidOnce
    <2> SUFFICES ASSUME PosInv, NEW c \in Captures
                 PROVE  Cardinality(posCredit[c]) <= 1 /\ (posEntry[c].status = "SETTLED" => posCredit[c] # {})
      BY DEF PosPaidOnce
    <2>1. posCredit[c] = {} \/ posCredit[c] = {"pos-settle"}
      BY PosTypes
    <2>2. Cardinality({}) = 0 /\ Cardinality({"pos-settle"}) = 1
      BY FS_EmptySet, FS_Singleton, Zenon
    <2>3. Cardinality(posCredit[c]) <= 1
      BY <2>1, <2>2
    <2> QED BY <2>3 DEF PosInv
  <1> QED BY <1>1, PosAlwaysInv, PTL

-----------------------------------------------------------------------------
(* Proofs about TopUp, for any number of top-ups and handlers, on gateways *)
(* of either kind.  The credit matches because a run that is about to pay  *)
(* carries the amount that was asked, of a payment that was made - and a   *)
(* payment that was made stays made, since the one call that opens an      *)
(* order comes before there is one.                                        *)
PayingRun == {"capture", "credit", "unpriced"}

TopUpRunType == [at : {"idle", "collect", "accepted", "refused", "fail", "hold", "claim", "capture",
                  "unpriced", "credit"}, t : TopUps, amount : {"asked", "other"}]

(* What a run that is about to pay knows. *)
TopUpKnows ==
    \A r \in TopUpRuns :
        /\ topupRun[r].at \in PayingRun =>
             /\ topupRun[r].amount = "asked" /\ payment[topupRun[r].t] = "paid"
             /\ Gateway[topupRun[r].t] = "mdr"
        /\ topupRun[r].at = "claim" =>
             payment[topupRun[r].t] = "paid" /\ Gateway[topupRun[r].t] = "poll"

(* An order is opened by one call, when the payment does not exist.        *)
OpenedOnce ==
    /\ \A r \in TopUpRuns : topupRun[r].at = "collect" =>
         topup[topupRun[r].t] # "none" /\ payment[topupRun[r].t] = "none"
    /\ \A r, s \in TopUpRuns :
         topupRun[r].at = "collect" /\ topupRun[s].at = "collect" /\ topupRun[r].t = topupRun[s].t => r = s
    /\ \A t \in TopUps : topup[t] = "none" => payment[t] = "none"

TopUpInv == TopUpTypeOK /\ TopUpKnows /\ OpenedOnce /\ TopUpCreditsMatch

-----------------------------------------------------------------------------
LEMMA TopUpIdleTyped == TopUpIdle \in TopUpRunType /\ TopUpIdle.at = "idle"
  BY TopUpsAssumption DEF TopUpIdle, TopUpRunType

LEMMA TopUpInitInv == TopUpInit => TopUpInv
  <1> SUFFICES ASSUME TopUpInit PROVE TopUpInv OBVIOUS
  <1> USE TopUpIdleTyped DEF TopUpInit
  <1>1. TopUpTypeOK
    BY DEF TopUpTypeOK, TopUpRunType, OpenTopUp
  <1>2. TopUpKnows /\ OpenedOnce
    BY DEF TopUpKnows, OpenedOnce, PayingRun
  <1>3. TopUpCreditsMatch
    BY DEF TopUpCreditsMatch
  <1> QED BY <1>1, <1>2, <1>3 DEF TopUpInv

LEMMA TopUpTypes ==
    ASSUME TopUpInv
    PROVE  topupRun \in [TopUpRuns -> TopUpRunType] /\ \A r \in TopUpRuns : topupRun[r].t \in TopUps
  BY DEF TopUpInv, TopUpTypeOK, TopUpRunType

(* A run that moves on, or begins, and changes nothing else: it has to     *)
(* know what its next step relies on. *)
LEMMA TopUpRunKeeps ==
    ASSUME TopUpInv, NEW r \in TopUpRuns, NEW w \in TopUpRunType, TopUpGo(r, w),
           UNCHANGED <<topup, ordered, pgEntry, topupCredit, payment>>,
           w.at # "collect",
           w.at \in PayingRun => w.amount = "asked" /\ payment[w.t] = "paid" /\ Gateway[w.t] = "mdr",
           w.at = "claim" => payment[w.t] = "paid" /\ Gateway[w.t] = "poll"
    PROVE  TopUpInv'
  <1> USE DEF TopUpInv, TopUpGo
  <1>1. TopUpTypeOK'
    BY DEF TopUpTypeOK, TopUpRunType
  <1>2. TopUpKnows' /\ OpenedOnce'
    BY TopUpTypes DEF TopUpKnows, OpenedOnce
  <1>3. TopUpCreditsMatch'
    BY DEF TopUpCreditsMatch
  <1> QED BY <1>1, <1>2, <1>3

(* A run ends and leaves its top-up in some state that exists; SUCCESS     *)
(* only with the credit. *)
LEMMA TopUpStatusKeeps ==
    ASSUME TopUpInv, NEW r \in TopUpRuns, NEW t \in TopUps,
           NEW status \in OpenTopUp \cup {"SUCCESS", "FAILED", "HOLD"},
           TopUpEnd(r), SetTopUp(t, status), ordered' \in SUBSET TopUps, UNCHANGED payment,
           \/ status # "SUCCESS" /\ UNCHANGED <<topupCredit, pgEntry>>
           \/ /\ status = "SUCCESS" /\ CreditTopUp(t, "asked") /\ payment[t] = "paid"
              /\ \/ pgEntry' = pgEntry \cup {t}
                 \/ UNCHANGED pgEntry /\ Gateway[t] = "poll"
    PROVE  TopUpInv'
  <1> USE DEF TopUpInv, TopUpEnd, TopUpGo, SetTopUp
  <1>1. TopUpTypeOK'
    <2>1. topup' \in [TopUps -> OpenTopUp \cup {"none", "SUCCESS", "FAILED", "HOLD"}] /\ pgEntry' \subseteq TopUps
      BY DEF TopUpTypeOK
    <2>2. topupCredit' \in [TopUps -> {"nothing", "asked", "other"}]
      BY DEF TopUpTypeOK, CreditTopUp
    <2>3. topupRun' \in [TopUpRuns -> TopUpRunType]
      BY TopUpTypes, TopUpIdleTyped
    <2> QED BY <2>1, <2>2, <2>3 DEF TopUpTypeOK, TopUpRunType
  <1>2. TopUpKnows'
    BY TopUpTypes, TopUpIdleTyped DEF TopUpKnows, PayingRun
  <1>3. OpenedOnce'
    BY TopUpTypes, TopUpIdleTyped DEF OpenedOnce, TopUpTypeOK, OpenTopUp
  <1>4. TopUpCreditsMatch'
    <2>1. \A u \in TopUps \ {t} : topup'[u] = topup[u] /\ topupCredit'[u] = topupCredit[u]
                                   /\ (u \in pgEntry' <=> u \in pgEntry)
      BY DEF TopUpTypeOK, CreditTopUp
    <2>2. topup'[t] = status
      BY DEF TopUpTypeOK
    <2>3. CASE UNCHANGED <<topupCredit, pgEntry>> /\ status # "SUCCESS"
      BY <2>1, <2>2, <2>3 DEF TopUpCreditsMatch
    <2>4. CASE status = "SUCCESS"
      <3>1. topupCredit'[t] = "asked"
        BY <2>4 DEF CreditTopUp, TopUpTypeOK, TopUpCreditsMatch
      <3>2. payment'[t] = "paid" /\ (Gateway[t] = "mdr" => t \in pgEntry')
        BY <2>4
      <3> QED BY <2>1, <2>2, <3>1, <3>2 DEF TopUpCreditsMatch
    <2> QED BY <2>3, <2>4
  <1> QED BY <1>1, <1>2, <1>3, <1>4

-----------------------------------------------------------------------------
LEMMA InitiateKeeps ==
    ASSUME TopUpInv, NEW r \in TopUpRuns, NEW t \in TopUps, InitiateTopup(r, t) PROVE TopUpInv'
  <1> DEFINE w == [TopUpIdle EXCEPT !.at = "collect", !.t = t]
  <1>0. w \in TopUpRunType /\ w.at = "collect" /\ w.t = t
    BY TopUpIdleTyped DEF TopUpRunType
  <1>1. /\ topup[t] = "none" /\ topup' = [topup EXCEPT ![t] = "INITIATED"]
        /\ topupRun' = [topupRun EXCEPT ![r] = w]
        /\ UNCHANGED <<ordered, pgEntry, topupCredit, payment>>
    BY DEF InitiateTopup, SetTopUp, TopUpGo
  <1> HIDE DEF w
  <1> USE DEF TopUpInv
  <1>2. TopUpTypeOK'
    BY <1>0, <1>1 DEF TopUpTypeOK, OpenTopUp, TopUpRunType
  <1>3. TopUpKnows'
    BY <1>0, <1>1, TopUpTypes DEF TopUpKnows, PayingRun
  <1>4. OpenedOnce'
    BY <1>0, <1>1, TopUpTypes DEF OpenedOnce, TopUpTypeOK
  <1>5. TopUpCreditsMatch'
    BY <1>1 DEF TopUpCreditsMatch, TopUpTypeOK
  <1> QED BY <1>2, <1>3, <1>4, <1>5

LEMMA CollectKeeps == ASSUME TopUpInv, NEW r \in TopUpRuns, CollectCall(r) PROVE TopUpInv'
  <1> DEFINE t == topupRun[r].t
  <1>0. /\ t \in TopUps /\ topupRun[r] \in TopUpRunType /\ topupRun[r].at = "collect"
        /\ payment[t] = "none" /\ topup[t] # "none"
        /\ UNCHANGED <<topup, ordered, pgEntry, topupCredit>>
    BY TopUpTypes DEF TopUpInv, OpenedOnce, CollectCall
  <1>1. PICK at \in {"accepted", "refused"} : TopUpAt(r, at)
    BY DEF CollectCall
  <1> DEFINE w == [topupRun[r] EXCEPT !.at = at]
  <1>2. w \in TopUpRunType /\ w.at = at /\ w.t = t
    BY <1>0 DEF TopUpRunType
  <1>3. TopUpGo(r, w)
    BY <1>1 DEF TopUpAt
  <1>4. CASE UNCHANGED payment
    <2> HIDE DEF w
    <2> QED BY <1>0, <1>2, <1>3, <1>4, TopUpRunKeeps DEF PayingRun
  <1>5. CASE payment' = [payment EXCEPT ![t] = "open"]
    <2> HIDE DEF w
    <2> USE DEF TopUpInv
    <2>0. topupRun' = [topupRun EXCEPT ![r] = w]
      BY <1>3 DEF TopUpGo
    <2>1. TopUpTypeOK'
      BY <1>0, <1>2, <1>5, <2>0 DEF TopUpTypeOK, TopUpRunType
    <2>2. TopUpKnows' /\ OpenedOnce'
      BY <1>0, <1>2, <1>5, <2>0, TopUpTypes DEF TopUpKnows, OpenedOnce, PayingRun, TopUpTypeOK
    <2>3. TopUpCreditsMatch'
      BY <1>0, <1>5 DEF TopUpCreditsMatch, TopUpTypeOK
    <2> QED BY <2>1, <2>2, <2>3
  <1> QED BY <1>4, <1>5 DEF CollectCall

LEMMA PaymentKeeps == ASSUME TopUpInv, NEW t \in TopUps, PaymentChanges(t) PROVE TopUpInv'
  <1>0. PICK p \in {"paid", "failed"} :
          /\ payment[t] \in {"open", "failed"} /\ payment' = [payment EXCEPT ![t] = p]
          /\ UNCHANGED <<topup, ordered, pgEntry, topupCredit, topupRun>>
    BY DEF PaymentChanges
  <1> USE DEF TopUpInv, TopUpTypeOK
  <1>1. TopUpTypeOK'
    BY <1>0
  <1>2. TopUpKnows' /\ OpenedOnce'
    BY <1>0, TopUpTypes DEF TopUpKnows, OpenedOnce
  <1>3. TopUpCreditsMatch'
    BY <1>0 DEF TopUpCreditsMatch
  <1> QED BY <1>1, <1>2, <1>3

(* A webhook reports a payment as paid only when it is, and a capture goes *)
(* on only with the amount that was asked. *)
LEMMA WebhookKeeps ==
    ASSUME TopUpInv, NEW r \in TopUpRuns, NEW t \in TopUps, Webhook(r, t) \/ StatusCheck(r, t)
    PROVE  TopUpInv'
  <1>1. PICK at \in {"fail", "hold", "capture", "claim"}, amount \in {"asked", "other"} :
          /\ TopUpGo(r, [at |-> at, t |-> t, amount |-> amount])
          /\ at = "capture" => amount = "asked" /\ payment[t] = "paid" /\ Gateway[t] = "mdr"
          /\ at = "claim" => payment[t] = "paid" /\ Gateway[t] = "poll"
          /\ UNCHANGED <<topup, ordered, pgEntry, topupCredit, payment>>
    BY DEF Webhook, StatusCheck, IsAmountMismatch
  <1>2. [at |-> at, t |-> t, amount |-> amount] \in TopUpRunType
    BY DEF TopUpRunType
  <1> QED BY <1>1, <1>2, TopUpRunKeeps DEF PayingRun

LEMMA TopUpStepKeeps == ASSUME TopUpInv, NEW r \in TopUpRuns, TopUpStep(r) \/ TopUpCrash(r) PROVE TopUpInv'
  <1> DEFINE t == topupRun[r].t
  <1>0. t \in TopUps /\ topupRun[r] \in TopUpRunType
    BY TopUpTypes
  <1>e. ASSUME TopUpEnd(r), UNCHANGED <<topup, ordered, pgEntry, topupCredit, payment>> PROVE TopUpInv'
    BY <1>e, TopUpIdleTyped, TopUpRunKeeps DEF TopUpEnd, PayingRun
  <1>1. CASE CollectAccepted(r) \/ CollectRefused(r) \/ Unpriced(r)
    <2>1. /\ TopUpEnd(r) /\ ordered' \in SUBSET TopUps
          /\ \E status \in {"PROCESSING", "FAILED"} : SetTopUp(t, status)
          /\ UNCHANGED <<pgEntry, topupCredit, payment>>
      BY <1>0, <1>1 DEF CollectAccepted, CollectRefused, Unpriced, TopUpInv, TopUpTypeOK
    <2> QED BY <1>0, <2>1, TopUpStatusKeeps DEF OpenTopUp
  <1>2. CASE FailOrHold(r)
    <2>0. TopUpEnd(r) /\ UNCHANGED <<ordered, pgEntry, topupCredit, payment>> /\ ordered \in SUBSET TopUps
      BY <1>2 DEF FailOrHold, TopUpInv, TopUpTypeOK
    <2>1. CASE UNCHANGED topup
      BY <1>e, <2>0, <2>1
    <2>2. CASE \E status \in {"HOLD", "FAILED"} : SetTopUp(t, status)
      BY <1>0, <2>0, <2>2, TopUpStatusKeeps
    <2> QED BY <1>2, <2>1, <2>2 DEF FailOrHold, SetIfOpen
  <1>3. CASE ClaimPaid(r)
    <2>0. /\ TopUpEnd(r) /\ UNCHANGED <<ordered, pgEntry, payment>> /\ ordered \in SUBSET TopUps
          /\ payment[t] = "paid" /\ Gateway[t] = "poll"
      BY <1>3 DEF ClaimPaid, TopUpInv, TopUpTypeOK, TopUpKnows
    <2>1. CASE topup[t] \in OpenTopUp
      <3>1. SetTopUp(t, "SUCCESS") /\ CreditTopUp(t, "asked")
        BY <1>3, <2>1 DEF ClaimPaid, SetIfOpen
      <3> QED BY <1>0, <2>0, <3>1, TopUpStatusKeeps
    <2>2. CASE topup[t] \notin OpenTopUp
      BY <1>3, <1>e, <2>0, <2>2 DEF ClaimPaid, SetIfOpen
    <2> QED BY <2>1, <2>2
  <1>4. CASE CaptureLookup(r)
    <2>1. CASE t \in pgEntry
      BY <1>4, <1>e, <2>1 DEF CaptureLookup
    <2>2. CASE t \notin pgEntry
      <3>1. PICK at \in {"credit", "unpriced"} : TopUpAt(r, at)
        BY <1>4, <2>2 DEF CaptureLookup
      <3> DEFINE w == [topupRun[r] EXCEPT !.at = at]
      <3>2. w \in TopUpRunType /\ w.at = at /\ w.t = t /\ w.amount = topupRun[r].amount
        BY <1>0 DEF TopUpRunType
      <3>3. w.amount = "asked" /\ payment[w.t] = "paid" /\ Gateway[w.t] = "mdr"
        BY <1>4, <3>2 DEF CaptureLookup, TopUpInv, TopUpKnows, PayingRun
      <3>4. TopUpGo(r, w)
        BY <3>1 DEF TopUpAt
      <3> HIDE DEF w
      <3> QED BY <1>4, <3>2, <3>3, <3>4, TopUpRunKeeps DEF CaptureLookup, PayingRun
    <2> QED BY <2>1, <2>2
  <1>5. CASE CreditCaptured(r)
    <2>1. CASE t \in pgEntry
      BY <1>5, <1>e, <2>1 DEF CreditCaptured
    <2>2. CASE t \notin pgEntry
      <3>1. topupRun[r].amount = "asked" /\ payment[t] = "paid"
        BY <1>5 DEF CreditCaptured, TopUpInv, TopUpKnows, PayingRun
      <3>2. /\ TopUpEnd(r) /\ SetTopUp(t, "SUCCESS") /\ CreditTopUp(t, "asked")
            /\ pgEntry' = pgEntry \cup {t} /\ UNCHANGED <<ordered, payment>> /\ ordered \in SUBSET TopUps
        BY <1>5, <2>2, <3>1 DEF CreditCaptured, TopUpInv, TopUpTypeOK
      <3> QED BY <1>0, <3>1, <3>2, TopUpStatusKeeps
    <2> QED BY <2>1, <2>2
  <1>6. CASE TopUpCrash(r)
    BY <1>6, <1>e DEF TopUpCrash
  <1> QED BY <1>1, <1>2, <1>3, <1>4, <1>5, <1>6, CollectKeeps DEF TopUpStep

LEMMA TopUpNextInv == TopUpInv /\ [TopUpNext]_topupVars => TopUpInv'
  <1> SUFFICES ASSUME TopUpInv, [TopUpNext]_topupVars PROVE TopUpInv' OBVIOUS
  <1>1. CASE UNCHANGED topupVars
    BY <1>1 DEF topupVars, TopUpInv, TopUpTypeOK, TopUpKnows, OpenedOnce, TopUpCreditsMatch
  <1>2. CASE TopUpNext
    BY <1>2, PaymentKeeps, TopUpStepKeeps, InitiateKeeps, WebhookKeeps DEF TopUpNext
  <1> QED BY <1>1, <1>2

LEMMA TopUpAlwaysInv == TopUpSpec => []TopUpInv
  BY TopUpInitInv, TopUpNextInv, PTL DEF TopUpSpec

-----------------------------------------------------------------------------
(* Type correctness of top-ups, payments and runs, for any number of them  *)
(* (topup.ts, handleTopupCapture of pg.ts). *)
THEOREM TopUpsTyped == TopUpSpec => []TopUpTypeOK
  BY TopUpAlwaysInv, PTL DEF TopUpInv

(* settleTopup and handleTopupCapture credit what was asked, once, and     *)
(* only a payment that was made, whatever webhooks, polls and crashes come *)
(* in whatever order. *)
THEOREM CreditsMatch == TopUpSpec => []TopUpCreditsMatch
  BY TopUpAlwaysInv, PTL DEF TopUpInv

-----------------------------------------------------------------------------
(* Proofs about T1Settlement, for every balance, float and ceiling.  The   *)
(* invariant says of each trigger, place by place, what it has debited and *)
(* credited so far; a trigger that stopped in the middle keeps a slot that *)
(* reads SKIPPED and "in progress".                                        *)
T1Capped(n) == n \in Nat /\ n <= PerTxnCap /\ n <= DailyCap

(* What a trigger has moved, where it is. *)
T1Moved(g) ==
    /\ settling[g].at \in {"start", "read", "caps", "debit"} => debited[g] = 0 /\ credited[g] = 0
    /\ settling[g].at = "caps" => settling[g].amount > 0 /\ settling[g].amount <= PerTxnCap
    /\ settling[g].at \in {"debit", "credit", "link", "success"} =>
         settling[g].amount > 0 /\ T1Capped(settling[g].amount)
    /\ settling[g].at = "credit" => debited[g] = settling[g].amount /\ credited[g] = 0
    /\ settling[g].at \in {"link", "success"} =>
         debited[g] = settling[g].amount /\ credited[g] = settling[g].amount
    /\ T1Capped(debited[g]) /\ credited[g] \in {0, debited[g]}

(* What its slot says. *)
T1Booked(g) ==
    /\ settling[g].at = "start" <=> slot[g].status = "none"
    /\ slot[g].detail = "none" <=> slot[g].status = "none"
    /\ settling[g].at \notin {"start", "over"} => slot[g].status = "SKIPPED" /\ slot[g].detail = "in progress"
    /\ slot[g].status = "none" => debited[g] = 0
    /\ slot[g].detail = "finished" =>
         /\ slot[g].status = "SUCCESS" =>
              credited[g] = slot[g].amount /\ debited[g] = slot[g].amount /\ slot[g].amount > 0
         /\ slot[g].status = "SKIPPED" => debited[g] = 0
    /\ slot[g].detail = "in progress" => slot[g].status = "SKIPPED"

T1Inv ==
    /\ T1TypeOK
    /\ AepsBalance >= 0
    /\ \A g \in RunTriggers : T1Moved(g) /\ T1Booked(g)

T1SlotType ==
    [status : {"none", "SKIPPED", "SUCCESS", "FAILED"}, detail : {"none", "in progress", "finished"},
     amount : Nat]
RunType  == [at : {"start", "read", "caps", "debit", "credit", "link", "success", "alert", "over"}, amount : Nat]

-----------------------------------------------------------------------------
LEMMA T1InitInv == T1Init => T1Inv
  <1> SUFFICES ASSUME T1Init PROVE T1Inv OBVIOUS
  <1> USE T1Assumption DEF T1Init
  <1>1. T1TypeOK
    BY DEF T1TypeOK
  <1>2. AepsBalance >= 0
    BY DEF AepsBalance, RunTriggers
  <1>3. ASSUME NEW g \in RunTriggers PROVE T1Moved(g) /\ T1Booked(g)
    <2>1. /\ slot[g].status = "none" /\ slot[g].detail = "none" /\ settling[g].at = "start"
          /\ debited[g] = 0 /\ credited[g] = 0 /\ T1Capped(0)
      BY DEF T1Capped
    <2> QED BY <2>1 DEF T1Moved, T1Booked
  <1> QED BY <1>1, <1>2, <1>3 DEF T1Inv

LEMMA LowerFacts ==
    ASSUME NEW a \in Int, NEW b \in Int
    PROVE  Lower(a, b) \in {a, b} /\ Lower(a, b) <= a /\ Lower(a, b) <= b
  BY DEF Lower

LEMMA T1Types ==
    ASSUME T1Inv
    PROVE  /\ slot \in [RunTriggers -> T1SlotType] /\ settling \in [RunTriggers -> RunType]
           /\ debited \in [RunTriggers -> Nat] /\ credited \in [RunTriggers -> Nat]
           /\ AepsBalance \in Int /\ SettledToday \in Nat
  <1>1. /\ slot \in [RunTriggers -> T1SlotType] /\ settling \in [RunTriggers -> RunType]
        /\ debited \in [RunTriggers -> Nat] /\ credited \in [RunTriggers -> Nat]
    BY DEF T1Inv, T1TypeOK, T1SlotType, RunType
  <1>2. AepsBalance \in Int
    BY <1>1, T1Assumption DEF AepsBalance, RunTriggers
  <1>3. \A g \in RunTriggers : SettledBy(g) \in Nat
    BY <1>1 DEF SettledBy, T1SlotType
  <1>4. SettledToday \in Nat
    BY <1>3 DEF SettledToday, RunTriggers
  <1> QED BY <1>1, <1>2, <1>4

(* A step of one trigger: it is enough to look at that trigger.            *)
LEMMA TriggerKeeps ==
    ASSUME T1Inv, NEW g \in RunTriggers, NEW s \in T1SlotType, NEW n \in RunType,
           NEW d \in Nat, NEW k \in Nat,
           slot' = [slot EXCEPT ![g] = s], settling' = [settling EXCEPT ![g] = n],
           debited' = [debited EXCEPT ![g] = d], credited' = [credited EXCEPT ![g] = k],
           AepsBalance' >= 0, T1Moved(g)', T1Booked(g)'
    PROVE  T1Inv'
  <1>1. T1TypeOK'
    BY T1Types DEF T1TypeOK, T1SlotType, RunType
  <1>2. ASSUME NEW h \in RunTriggers, h # g PROVE T1Moved(h)' /\ T1Booked(h)'
    <2>1. /\ slot'[h] = slot[h] /\ settling'[h] = settling[h]
          /\ debited'[h] = debited[h] /\ credited'[h] = credited[h]
      BY <1>2, T1Types
    <2>2. T1Moved(h) /\ T1Booked(h)
      BY DEF T1Inv
    <2>3. T1Moved(h)'
      BY <2>1, <2>2 DEF T1Moved, T1Capped
    <2>4. T1Booked(h)'
      BY <2>1, <2>2 DEF T1Booked
    <2> QED BY <2>3, <2>4
  <1> QED BY <1>1, <1>2 DEF T1Inv

(* What a trigger is before its step. *)
LEMMA T1Before ==
    ASSUME T1Inv, NEW g \in RunTriggers
    PROVE  /\ T1Moved(g) /\ T1Booked(g) /\ AepsBalance >= 0
           /\ slot[g] \in T1SlotType /\ settling[g] \in RunType /\ debited[g] \in Nat /\ credited[g] \in Nat
           /\ slot = [slot EXCEPT ![g] = slot[g]]
           /\ debited = [debited EXCEPT ![g] = debited[g]] /\ credited = [credited EXCEPT ![g] = credited[g]]
  BY T1Types DEF T1Inv

(* Nothing is debited: the balance stays. *)
LEMMA BalanceStays == ASSUME T1Inv, UNCHANGED debited PROVE AepsBalance' >= 0
  BY DEF T1Inv, AepsBalance

(* A trigger that moves on with an amount and changes nothing else. *)
LEMMA T1GoKeeps ==
    ASSUME T1Inv, NEW g \in RunTriggers, NEW n \in Nat,
           NEW at \in {"caps", "debit", "success", "alert", "over"},
           T1At(g, at, n), UNCHANGED <<slot, debited, credited>>,
           settling[g].at # "start",
           at \notin {"over"} => settling[g].at # "over",
           at = "caps" => settling[g].at = "read" /\ n > 0 /\ n <= PerTxnCap,
           at = "debit" => settling[g].at = "caps" /\ n > 0 /\ T1Capped(n),
           at = "success" => settling[g].at = "link" /\ n = settling[g].amount
    PROVE  T1Inv'
  <1>1. [at |-> at, amount |-> n] \in RunType
    BY DEF RunType
  <1>2. settling' = [settling EXCEPT ![g] = [at |-> at, amount |-> n]]
    BY DEF T1At
  <1>3. settling'[g].at = at /\ settling'[g].amount = n
    BY <1>2, T1Types
  <1>4. T1Moved(g)'
    BY <1>3, T1Before DEF T1Moved, T1Capped
  <1>5. T1Booked(g)'
    BY <1>3, T1Before DEF T1Booked, T1Moved
  <1> QED BY <1>1, <1>2, <1>4, <1>5, T1Before, BalanceStays, TriggerKeeps

(* A trigger that finishes its slot. *)
LEMMA FinishKeeps ==
    ASSUME T1Inv, NEW g \in RunTriggers, NEW n \in Nat,
           NEW status \in {"SKIPPED", "SUCCESS", "FAILED"},
           T1Finish(g, status, n), UNCHANGED <<debited, credited>>,
           status = "SUCCESS" => settling[g].at = "success" /\ n = settling[g].amount,
           status = "SKIPPED" => settling[g].at \in {"read", "caps"}
    PROVE  T1Inv'
  <1> DEFINE s == [status |-> status, detail |-> "finished", amount |-> n]
             w == [at |-> "over", amount |-> 0]
  <1>1. /\ s \in T1SlotType /\ w \in RunType /\ s.status = status /\ s.amount = n
        /\ s.detail = "finished" /\ w.at = "over"
    BY DEF T1SlotType, RunType
  <1>2. slot' = [slot EXCEPT ![g] = s] /\ settling' = [settling EXCEPT ![g] = w]
    BY DEF T1Finish, T1At
  <1> HIDE DEF s, w
  <1>3. settling'[g] = w /\ slot'[g] = s
    BY <1>2, T1Types
  <1>4. T1Moved(g)'
    BY <1>1, <1>3, T1Before DEF T1Moved
  <1>5. T1Booked(g)'
    BY <1>1, <1>3, T1Before DEF T1Booked, T1Moved
  <1> QED BY <1>1, <1>2, <1>4, <1>5, T1Before, BalanceStays, TriggerKeeps

-----------------------------------------------------------------------------
LEMMA T1ClaimKeeps == ASSUME T1Inv, NEW g \in RunTriggers, ClaimSlot(g) PROVE T1Inv'
  <1> DEFINE s == [slot[g] EXCEPT !.status = "SKIPPED", !.detail = "in progress"]
             w == [at |-> "read", amount |-> 0]
  <1>1. /\ s \in T1SlotType /\ s.status = "SKIPPED" /\ s.detail = "in progress" /\ w \in RunType /\ w.at = "read"
    BY T1Before DEF T1SlotType, RunType
  <1>2. /\ slot' = [slot EXCEPT ![g] = s] /\ settling' = [settling EXCEPT ![g] = w]
        /\ settling[g].at = "start" /\ UNCHANGED <<debited, credited>>
    BY DEF ClaimSlot, T1At
  <1> HIDE DEF s, w
  <1>3. settling'[g] = w /\ slot'[g] = s
    BY <1>2, T1Types
  <1>4. T1Moved(g)' /\ T1Booked(g)'
    BY <1>1, <1>2, <1>3, T1Before DEF T1Moved, T1Booked
  <1> QED BY <1>1, <1>2, <1>4, T1Before, BalanceStays, TriggerKeeps

LEMMA ReadBalanceKeeps == ASSUME T1Inv, NEW g \in RunTriggers, ReadBalance(g) PROVE T1Inv'
  <1> DEFINE sweepable == AepsBalance - KeepBalance
             n == Lower(sweepable, PerTxnCap)
  <1>1. sweepable \in Int /\ sweepable > 0 /\ PerTxnCap \in Nat /\ PerTxnCap > 0
    BY T1Types, T1Assumption DEF ReadBalance
  <1>2. n \in Nat /\ n > 0 /\ n <= PerTxnCap
    BY <1>1, LowerFacts
  <1>3. settling[g].at = "read" /\ T1At(g, "caps", n) /\ UNCHANGED <<slot, debited, credited>>
    BY DEF ReadBalance
  <1> HIDE DEF n
  <1> QED BY <1>2, <1>3, T1GoKeeps

LEMMA ReadCapKeeps == ASSUME T1Inv, NEW g \in RunTriggers, ReadDailyCap(g) PROVE T1Inv'
  <1> DEFINE remaining == DailyCap - SettledToday
             n == Lower(settling[g].amount, remaining)
  <1>0. remaining \in Int /\ remaining <= DailyCap
    BY T1Types, T1Assumption
  <1>1. CASE remaining > 0
    <2>1. settling[g].amount \in Nat /\ settling[g].amount > 0 /\ settling[g].amount <= PerTxnCap
      BY T1Before DEF ReadDailyCap, T1Moved, RunType
    <2>2. n \in Nat /\ n > 0 /\ T1Capped(n)
      BY <1>0, <1>1, <2>1, LowerFacts, T1Assumption DEF T1Capped
    <2>3. settling[g].at = "caps" /\ T1At(g, "debit", n) /\ UNCHANGED <<slot, debited, credited>>
      BY <1>1 DEF ReadDailyCap
    <2> HIDE DEF n
    <2> QED BY <2>2, <2>3, T1GoKeeps
  <1>2. CASE ~(remaining > 0)
    BY <1>2, FinishKeeps DEF ReadDailyCap
  <1> QED BY <1>1, <1>2

LEMMA T1DebitKeeps == ASSUME T1Inv, NEW g \in RunTriggers, DebitAeps(g) PROVE T1Inv'
  <1> DEFINE n == settling[g].amount
             w == [at |-> "credit", amount |-> n]
  <1>0. n \in Nat /\ settling[g].at = "debit" /\ n > 0 /\ T1Capped(n) /\ debited[g] = 0 /\ credited[g] = 0
    BY T1Before DEF DebitAeps, T1Moved, RunType
  <1>1. CASE UNCHANGED debited /\ LegFails(g)
    BY <1>0, <1>1, T1GoKeeps DEF DebitAeps, LegFails
  <1>2. CASE AepsBalance >= n /\ debited' = [debited EXCEPT ![g] = n] /\ T1At(g, "credit", n)
    <2>1. AepsBalance' >= 0
      BY <1>0, <1>2, T1Types, T1Assumption DEF AepsBalance, RunTriggers
    <2>2. w \in RunType /\ w.at = "credit" /\ w.amount = n /\ settling' = [settling EXCEPT ![g] = w]
      BY <1>0, <1>2 DEF RunType, T1At
    <2>3. UNCHANGED <<slot, credited>>
      BY DEF DebitAeps
    <2> HIDE DEF w
    <2>4. settling'[g] = w /\ debited'[g] = n
      BY <1>2, <2>2, T1Types
    <2>5. T1Moved(g)' /\ T1Booked(g)'
      BY <1>0, <2>2, <2>3, <2>4, T1Before DEF T1Moved, T1Booked, T1Capped
    <2> QED BY <1>0, <1>2, <2>1, <2>2, <2>3, <2>5, T1Before, TriggerKeeps
  <1> QED BY <1>1, <1>2 DEF DebitAeps

LEMMA T1CreditKeeps == ASSUME T1Inv, NEW g \in RunTriggers, CreditPrimary(g) PROVE T1Inv'
  <1> DEFINE n == settling[g].amount
             w == [at |-> "link", amount |-> n]
  <1>0. /\ n \in Nat /\ settling[g].at = "credit" /\ n > 0 /\ T1Capped(n)
        /\ debited[g] = n /\ credited[g] = 0 /\ UNCHANGED <<slot, debited>>
    BY T1Before DEF CreditPrimary, T1Moved, RunType
  <1>1. CASE UNCHANGED credited /\ LegFails(g)
    BY <1>0, <1>1, T1GoKeeps DEF LegFails
  <1>2. CASE credited' = [credited EXCEPT ![g] = n] /\ T1At(g, "link", n)
    <2>2. w \in RunType /\ w.at = "link" /\ w.amount = n /\ settling' = [settling EXCEPT ![g] = w]
      BY <1>0, <1>2 DEF RunType, T1At
    <2> HIDE DEF w
    <2>4. settling'[g] = w /\ credited'[g] = n
      BY <1>2, <2>2, T1Types
    <2>5. T1Moved(g)' /\ T1Booked(g)'
      BY <1>0, <2>2, <2>4, T1Before DEF T1Moved, T1Booked, T1Capped
    <2> QED BY <1>0, <1>2, <2>2, <2>5, T1Before, BalanceStays, TriggerKeeps
  <1> QED BY <1>1, <1>2 DEF CreditPrimary

LEMMA LinkKeeps == ASSUME T1Inv, NEW g \in RunTriggers, LinkLegs(g) PROVE T1Inv'
  <1>1. settling[g].amount \in Nat
    BY T1Before DEF RunType
  <1> QED BY <1>1, T1GoKeeps DEF LinkLegs, LegFails

LEMMA T1StepKeeps == ASSUME T1Inv, NEW g \in RunTriggers, T1Step(g) PROVE T1Inv'
  <1>1. ASSUME Skip(g) PROVE T1Inv'
    BY <1>1, FinishKeeps DEF Skip
  <1>2. ASSUME FinishSuccess(g) PROVE T1Inv'
    <2>1. settling[g].amount \in Nat
      BY T1Before DEF RunType
    <2> QED BY <1>2, <2>1, FinishKeeps DEF FinishSuccess
  <1>3. ASSUME FinishFailed(g) PROVE T1Inv'
    BY <1>3, FinishKeeps DEF FinishFailed
  <1>4. ASSUME T1Crash(g) PROVE T1Inv'
    BY <1>4, T1GoKeeps DEF T1Crash
  <1> QED BY <1>1, <1>2, <1>3, <1>4, T1ClaimKeeps, ReadBalanceKeeps, ReadCapKeeps, T1DebitKeeps,
             T1CreditKeeps, LinkKeeps DEF T1Step

LEMMA T1NextInv == T1Inv /\ [T1Next]_t1Vars => T1Inv'
  <1> SUFFICES ASSUME T1Inv, [T1Next]_t1Vars PROVE T1Inv' OBVIOUS
  <1>1. CASE UNCHANGED t1Vars
    <2>1. T1TypeOK' /\ AepsBalance' >= 0
      BY <1>1 DEF t1Vars, T1Inv, T1TypeOK, AepsBalance
    <2>2. \A g \in RunTriggers : T1Moved(g)' /\ T1Booked(g)'
      <3> SUFFICES ASSUME NEW g \in RunTriggers PROVE T1Moved(g)' /\ T1Booked(g)'
        OBVIOUS
      <3>1. T1Moved(g) /\ T1Booked(g)
        BY DEF T1Inv
      <3>2. T1Moved(g)'
        BY <1>1, <3>1 DEF t1Vars, T1Moved, T1Capped
      <3>3. T1Booked(g)'
        BY <1>1, <3>1 DEF t1Vars, T1Booked
      <3> QED BY <3>2, <3>3
    <2> QED BY <2>1, <2>2 DEF T1Inv
  <1>2. CASE T1Next
    BY <1>2, T1StepKeeps DEF T1Next
  <1> QED BY <1>1, <1>2

LEMMA T1AlwaysInv == T1Spec => []T1Inv
  BY T1InitInv, T1NextInv, PTL DEF T1Spec

-----------------------------------------------------------------------------
(* Type correctness of the slots and the two books' legs, for every        *)
(* balance and every ceiling (settleUser of t1.ts). *)
THEOREM SlotsTyped == T1Spec => []T1TypeOK
  BY T1AlwaysInv, PTL DEF T1Inv

(* settleUser, whatever its triggers interleave and wherever it stops: a   *)
(* SUCCESS moved its amount through both books within the ceilings, a run  *)
(* that finished SKIPPED nothing; money between the books belongs to a     *)
(* slot that reads FAILED or still SKIPPED "in progress", and the AEPS     *)
(* book is never overdrawn. *)
THEOREM BooksAgree == T1Spec => []T1BooksAgree
  <1>1. T1Inv => T1BooksAgree
    <2> SUFFICES ASSUME T1Inv, NEW g \in RunTriggers
                 PROVE  /\ credited[g] \in {0, debited[g]}
                        /\ debited[g] <= Lower(PerTxnCap, DailyCap)
                        /\ slot[g].status = "SUCCESS" => credited[g] = slot[g].amount /\ slot[g].amount > 0
                        /\ slot[g].status = "SKIPPED" /\ slot[g].detail = "finished" => debited[g] = 0
                        /\ debited[g] # credited[g] =>
                             slot[g].status = "FAILED" \/ slot[g].detail = "in progress"
      BY DEF T1BooksAgree, T1Inv
    <2>1. /\ slot[g].status \in {"none", "SKIPPED", "SUCCESS", "FAILED"}
          /\ slot[g].detail \in {"none", "in progress", "finished"}
          /\ slot[g].amount \in Nat /\ debited[g] \in Nat /\ credited[g] \in Nat
      BY T1Before DEF T1SlotType
    <2>2. credited[g] \in {0, debited[g]} /\ debited[g] <= Lower(PerTxnCap, DailyCap)
      BY T1Before DEF T1Moved, T1Capped, Lower
    <2>3. CASE slot[g].detail \in {"none", "in progress"}
      BY <2>1, <2>2, <2>3, T1Before DEF T1Booked
    <2>4. CASE slot[g].detail = "finished"
      <3>1. slot[g].status = "SUCCESS" => credited[g] = slot[g].amount /\ slot[g].amount > 0
        BY <2>4, T1Before DEF T1Booked
      <3>2. slot[g].status = "SUCCESS" => credited[g] = debited[g]
        BY <2>4, T1Before DEF T1Booked
      <3>3. slot[g].status = "SKIPPED" => debited[g] = 0 /\ credited[g] = 0
        BY <2>2, <2>4, T1Before DEF T1Booked
      <3>4. slot[g].status # "none"
        BY <2>4, T1Before DEF T1Booked
      <3>5. debited[g] # credited[g] => slot[g].status = "FAILED"
        BY <2>1, <3>2, <3>3, <3>4
      <3> QED BY <2>2, <3>1, <3>3, <3>5
    <2> QED BY <2>1, <2>3, <2>4
  <1> QED BY <1>1, T1AlwaysInv, PTL
=============================================================================
