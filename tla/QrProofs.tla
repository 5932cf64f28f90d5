------------------------------ MODULE QrProofs ------------------------------
(***************************************************************************)
(* Proofs about QrClaims, for every set of claims, admins and handler      *)
(* executions, and the type of QrRotation.  Of the claims both safety properties need to know what a run read before *)
(* it acts: a clawback read SETTLED, and the second approval of a large    *)
(* claim read it AWAITING_SECOND_APPROVAL with another admin's name in it, *)
(* a name that no step changes afterwards.                                 *)
(***************************************************************************)
EXTENDS QrClaims, QrRotation, TLAPS

QrRunType == [at : {"idle", "stage", "approve", "settle", "claw"}, c : Claims,
            by : Admins \cup {Nobody}, read : Statuses]
QrClaimType == [status : Statuses, first : Admins \cup {Nobody}, reviewed : Admins \cup {Nobody}]

(* What a run read when it began. *)
ReadsBack ==
    \A r \in QrRuns :
        /\ qrRun[r].at = "claw" => qrRun[r].read = "SETTLED"
        /\ qrRun[r].at = "approve" => qrRun[r].read \in Reviewable
        /\ qrRun[r].at \in {"stage", "approve"} => qrRun[r].by \in Admins

(* A large claim waits for its second approval with the first one named,   *)
(* and whoever is about to give the second is somebody else.               *)
QrStaged ==
    /\ \A c \in Large : qrClaim[c].status = "AWAITING_SECOND_APPROVAL" => qrClaim[c].first \in Admins
    /\ \A r \in QrRuns :
         qrRun[r].at = "approve" /\ qrRun[r].c \in Large =>
             /\ qrRun[r].read = "AWAITING_SECOND_APPROVAL"
             /\ qrClaim[qrRun[r].c].status \notin {"none", "PENDING"}
             /\ qrClaim[qrRun[r].c].first \in Admins \ {qrRun[r].by}

QrInv == QrTypeOK /\ ReadsBack /\ QrStaged /\ QrMoneyMatchesStatus /\ QrLargeNeedsTwo

-----------------------------------------------------------------------------
LEMMA QrIdleTyped == QrIdle \in QrRunType /\ QrIdle.at = "idle"
  BY ClaimsAssumption DEF QrIdle, QrRunType, Statuses

LEMMA QrInitInv == QrInit => QrInv
  <1> SUFFICES ASSUME QrInit PROVE QrInv OBVIOUS
  <1> USE DEF QrInit
  <1>1. QrTypeOK
    BY QrIdleTyped DEF QrTypeOK, QrRunType, NoClaim, Statuses
  <1>2. ReadsBack /\ QrStaged
    BY QrIdleTyped, LargeAssumption DEF ReadsBack, QrStaged, NoClaim
  <1>3. QrMoneyMatchesStatus /\ QrLargeNeedsTwo
    BY LargeAssumption DEF QrMoneyMatchesStatus, QrLargeNeedsTwo, NoClaim
  <1> QED BY <1>1, <1>2, <1>3 DEF QrInv

(* Whatever ends a run and leaves the claims alone keeps the invariant.    *)
LEMMA QrEndKeeps ==
    ASSUME QrInv, NEW r \in QrRuns, QrEnd(r), UNCHANGED <<qrClaim, qrLedger>>
    PROVE  QrInv'
  <1>1. QrTypeOK'
    BY QrIdleTyped DEF QrInv, QrTypeOK, QrEnd, QrRunType
  <1>2. ReadsBack' /\ QrStaged'
    BY QrIdleTyped DEF QrInv, QrTypeOK, QrEnd, ReadsBack, QrStaged
  <1>3. QrMoneyMatchesStatus' /\ QrLargeNeedsTwo'
    BY DEF QrInv, QrMoneyMatchesStatus, QrLargeNeedsTwo
  <1> QED BY <1>1, <1>2, <1>3 DEF QrInv

(* A run that begins with what it read. *)
LEMMA QrBeginKeeps ==
    ASSUME QrInv, NEW r \in QrRuns, NEW c \in Claims,
           NEW at \in {"stage", "approve", "settle", "claw"}, NEW by \in Admins \cup {Nobody},
           QrBegin(r, c, at, by),
           at = "claw" => qrClaim[c].status = "SETTLED",
           at = "approve" => qrClaim[c].status \in Reviewable,
           at \in {"stage", "approve"} => by \in Admins,
           at = "approve" /\ c \in Large =>
               qrClaim[c].status = "AWAITING_SECOND_APPROVAL" /\ qrClaim[c].first # by
    PROVE  QrInv'
  <1>1. QrTypeOK'
    BY DEF QrInv, QrTypeOK, QrBegin, Statuses, Reviewable
  <1>2. ReadsBack' /\ QrStaged'
    BY DEF QrInv, QrTypeOK, QrBegin, ReadsBack, QrStaged
  <1>3. QrMoneyMatchesStatus' /\ QrLargeNeedsTwo'
    BY DEF QrInv, QrBegin, QrMoneyMatchesStatus, QrLargeNeedsTwo
  <1> QED BY <1>1, <1>2, <1>3 DEF QrInv

-----------------------------------------------------------------------------
(* What a claim's ledger keys must be under a status. *)
MovedUnder(status) ==
    CASE status = "SETTLED"     -> {"qrsettle"}
      [] status = "CLAWED_BACK" -> {"qrsettle", "qrclaim-clawback"}
      [] OTHER                  -> {}

(* One claim is written: the new row says what it must, and a claim that   *)
(* was staged keeps its first approver.                                    *)
LEMMA QrWriteKeeps ==
    ASSUME QrInv, NEW c \in Claims, NEW v \in QrClaimType, SetClaim(c, v),
           qrLedger' = [qrLedger EXCEPT ![c] = MovedUnder(v.status)],
           qrRun' \in [QrRuns -> QrRunType], \A r \in QrRuns : qrRun'[r] \in {qrRun[r], QrIdle},
           c \in Large /\ v.status = "AWAITING_SECOND_APPROVAL" => v.first \in Admins,
           c \in Large /\ v.status \in {"SETTLEABLE", "SETTLED"} =>
               v.first \in Admins /\ v.reviewed \in Admins \ {v.first},
           c \in Large /\ qrClaim[c].status \notin {"none", "PENDING"} =>
               v.status \notin {"none", "PENDING"} /\ v.first = qrClaim[c].first
    PROVE  QrInv'
  <1> USE DEF QrInv, SetClaim
  <1>0. qrClaim \in [Claims -> QrClaimType] /\ qrClaim' = [qrClaim EXCEPT ![c] = v]
    BY DEF QrTypeOK, QrClaimType
  <1>1. QrTypeOK'
    <2>1. MovedUnder(v.status) \in SUBSET {"qrsettle", "qrclaim-clawback"}
      BY DEF MovedUnder
    <2> QED BY <1>0, <2>1 DEF QrTypeOK, QrClaimType, QrRunType
  <1>2. ReadsBack'
    BY QrIdleTyped DEF ReadsBack
  <1>3. QrStaged'
    <2>1. \A d \in Large : qrClaim'[d].status = "AWAITING_SECOND_APPROVAL" => qrClaim'[d].first \in Admins
      BY <1>0, LargeAssumption DEF QrStaged
    <2>2. ASSUME NEW r \in QrRuns, qrRun'[r].at = "approve", qrRun'[r].c \in Large
          PROVE  /\ qrRun'[r].read = "AWAITING_SECOND_APPROVAL"
                 /\ qrClaim'[qrRun'[r].c].status \notin {"none", "PENDING"}
                 /\ qrClaim'[qrRun'[r].c].first \in Admins \ {qrRun'[r].by}
      <3>1. qrRun'[r] = qrRun[r]
        BY <2>2, QrIdleTyped
      <3>2. /\ qrRun[r].read = "AWAITING_SECOND_APPROVAL"
            /\ qrClaim[qrRun[r].c].status \notin {"none", "PENDING"}
            /\ qrClaim[qrRun[r].c].first \in Admins \ {qrRun[r].by}
        BY <2>2, <3>1 DEF QrStaged
      <3> QED BY <1>0, <2>2, <3>1, <3>2, LargeAssumption
    <2> QED BY <2>1, <2>2 DEF QrStaged
  <1>4. QrMoneyMatchesStatus'
    BY <1>0 DEF QrMoneyMatchesStatus, MovedUnder, QrTypeOK
  <1>5. QrLargeNeedsTwo'
    BY <1>0, LargeAssumption DEF QrLargeNeedsTwo
  <1> QED BY <1>1, <1>2, <1>3, <1>4, <1>5

(* What the current row and its ledger keys look like. *)
LEMMA QrRows ==
    ASSUME QrInv, NEW c \in Claims
    PROVE  /\ qrClaim[c] \in QrClaimType
           /\ qrLedger[c] = MovedUnder(qrClaim[c].status)
           /\ qrLedger = [qrLedger EXCEPT ![c] = MovedUnder(qrClaim[c].status)]
  BY DEF QrInv, QrTypeOK, QrClaimType, QrMoneyMatchesStatus, MovedUnder

LEMMA RunsTyped ==
    ASSUME QrInv
    PROVE  /\ qrRun \in [QrRuns -> QrRunType]
           /\ \A r \in QrRuns : QrEnd(r) => /\ qrRun' \in [QrRuns -> QrRunType]
                                            /\ \A s \in QrRuns : qrRun'[s] \in {qrRun[s], QrIdle}
  BY QrIdleTyped DEF QrInv, QrTypeOK, QrRunType, QrEnd

-----------------------------------------------------------------------------
LEMMA SubmitKeeps == ASSUME QrInv, NEW c \in Claims, SubmitQrClaim(c) PROVE QrInv'
  <1> DEFINE v == [NoClaim EXCEPT !.status = "PENDING"]
  <1>1. v \in QrClaimType /\ v.status = "PENDING"
    BY DEF NoClaim, QrClaimType, Statuses, Reviewable
  <1>2. SetClaim(c, v) /\ qrClaim[c].status = "none" /\ UNCHANGED <<qrLedger, qrRun>>
    BY DEF SubmitQrClaim
  <1>3. qrLedger' = [qrLedger EXCEPT ![c] = MovedUnder(v.status)]
    BY <1>1, <1>2, QrRows DEF MovedUnder
  <1> HIDE DEF v
  <1> QED BY <1>1, <1>2, <1>3, RunsTyped, QrWriteKeeps

LEMMA RejectKeeps == ASSUME QrInv, NEW c \in Claims, NEW a \in Admins, RejectQrClaim(c, a) PROVE QrInv'
  <1> DEFINE v == [qrClaim[c] EXCEPT !.status = "REJECTED", !.reviewed = a]
  <1>1. v \in QrClaimType /\ v.status = "REJECTED" /\ v.first = qrClaim[c].first
    BY QrRows DEF QrClaimType, Statuses
  <1>2. SetClaim(c, v) /\ qrClaim[c].status \in Reviewable /\ UNCHANGED <<qrLedger, qrRun>>
    BY DEF RejectQrClaim
  <1>3. qrLedger' = [qrLedger EXCEPT ![c] = MovedUnder(v.status)]
    BY <1>1, <1>2, QrRows DEF MovedUnder, Reviewable
  <1> HIDE DEF v
  <1> QED BY <1>1, <1>2, <1>3, RunsTyped, QrWriteKeeps

(* The steps that write a claim and end their run; a run that finds its    *)
(* claim changed just ends. *)
LEMMA StageKeeps == ASSUME QrInv, NEW r \in QrRuns, StageApproval(r) PROVE QrInv'
  <1> DEFINE c == qrRun[r].c
             v == [qrClaim[c] EXCEPT !.status = "AWAITING_SECOND_APPROVAL", !.first = qrRun[r].by]
  <1>0. c \in Claims /\ qrRun[r].by \in Admins
    BY RunsTyped DEF QrInv, ReadsBack, StageApproval, QrRunType
  <1>1. CASE qrClaim[c].status # "PENDING"
    BY <1>1, QrEndKeeps DEF StageApproval
  <1>2. CASE qrClaim[c].status = "PENDING"
    <2>1. v \in QrClaimType /\ v.status = "AWAITING_SECOND_APPROVAL" /\ v.first \in Admins
      BY <1>0, QrRows DEF QrClaimType, Statuses, Reviewable
    <2>2. SetClaim(c, v) /\ QrEnd(r) /\ UNCHANGED qrLedger
      BY <1>2 DEF StageApproval
    <2>3. qrLedger' = [qrLedger EXCEPT ![c] = MovedUnder(v.status)]
      BY <1>0, <1>2, <2>1, <2>2, QrRows DEF MovedUnder
    <2> HIDE DEF v, c
    <2> QED BY <1>0, <1>2, <2>1, <2>2, <2>3, RunsTyped, QrWriteKeeps
  <1> QED BY <1>1, <1>2

LEMMA FinalKeeps == ASSUME QrInv, NEW r \in QrRuns, FinalApproval(r) PROVE QrInv'
  <1> DEFINE c == qrRun[r].c
             v == [qrClaim[c] EXCEPT !.status = "SETTLEABLE", !.reviewed = qrRun[r].by]
  <1>0. c \in Claims /\ qrRun[r].by \in Admins /\ qrRun[r].read \in Reviewable
    BY RunsTyped DEF QrInv, ReadsBack, FinalApproval, QrRunType
  <1>1. CASE qrClaim[c].status # qrRun[r].read
    BY <1>1, QrEndKeeps DEF FinalApproval
  <1>2. CASE qrClaim[c].status = qrRun[r].read
    <2>1. v \in QrClaimType /\ v.status = "SETTLEABLE" /\ v.first = qrClaim[c].first /\ v.reviewed = qrRun[r].by
      BY <1>0, QrRows DEF QrClaimType, Statuses
    <2>2. SetClaim(c, v) /\ QrEnd(r) /\ UNCHANGED qrLedger
      BY <1>2 DEF FinalApproval
    <2>3. qrLedger' = [qrLedger EXCEPT ![c] = MovedUnder(v.status)]
      BY <1>0, <1>2, <2>1, <2>2, QrRows DEF MovedUnder, Reviewable
    <2>4. c \in Large => v.first \in Admins /\ v.reviewed \in Admins \ {v.first}
      BY <1>0, <2>1 DEF QrInv, QrStaged, FinalApproval
    <2> HIDE DEF v, c
    <2> QED BY <1>0, <2>1, <2>2, <2>3, <2>4, RunsTyped, QrWriteKeeps
  <1> QED BY <1>1, <1>2

LEMMA QrCreditKeeps == ASSUME QrInv, NEW r \in QrRuns, CreditClaim(r) PROVE QrInv'
  <1> DEFINE c == qrRun[r].c
             v == [qrClaim[c] EXCEPT !.status = "SETTLED"]
  <1>0. c \in Claims
    BY RunsTyped DEF QrRunType
  <1>1. CASE qrClaim[c].status # "SETTLEABLE"
    BY <1>1, QrEndKeeps DEF CreditClaim
  <1>2. CASE qrClaim[c].status = "SETTLEABLE"
    <2>1. /\ v \in QrClaimType /\ v.status = "SETTLED"
          /\ v.first = qrClaim[c].first /\ v.reviewed = qrClaim[c].reviewed
      BY <1>0, QrRows DEF QrClaimType, Statuses
    <2>2. SetClaim(c, v) /\ QrEnd(r) /\ qrLedger' = [qrLedger EXCEPT ![c] = @ \cup {"qrsettle"}]
      BY <1>2 DEF CreditClaim
    <2>3. qrLedger' = [qrLedger EXCEPT ![c] = MovedUnder(v.status)]
      <3>1. qrLedger[c] = {}
        BY <1>0, <1>2, QrRows DEF MovedUnder
      <3> QED BY <2>1, <2>2, <3>1 DEF MovedUnder
    <2>4. c \in Large => v.first \in Admins /\ v.reviewed \in Admins \ {v.first}
      BY <1>2, <2>1 DEF QrInv, QrLargeNeedsTwo
    <2> HIDE DEF v, c
    <2> QED BY <1>0, <2>1, <2>2, <2>3, <2>4, RunsTyped, QrWriteKeeps
  <1> QED BY <1>1, <1>2

LEMMA QrDebitKeeps == ASSUME QrInv, NEW r \in QrRuns, DebitClaim(r) PROVE QrInv'
  <1> DEFINE c == qrRun[r].c
             v == [qrClaim[c] EXCEPT !.status = "CLAWED_BACK", !.reviewed = qrRun[r].by]
  <1>0. c \in Claims /\ qrRun[r].by \in Admins \cup {Nobody} /\ qrRun[r].read = "SETTLED"
    BY RunsTyped DEF QrInv, ReadsBack, DebitClaim, QrRunType
  <1>1. CASE qrClaim[c].status # qrRun[r].read
    BY <1>1, QrEndKeeps DEF DebitClaim
  <1>2. CASE qrClaim[c].status = qrRun[r].read
    <2>0. qrClaim[c] \in QrClaimType /\ "CLAWED_BACK" \in Statuses
      BY <1>0, QrRows DEF Statuses
    <2>1. v \in QrClaimType /\ v.status = "CLAWED_BACK" /\ v.first = qrClaim[c].first
      BY <1>0, <2>0 DEF QrClaimType
    <2>2. SetClaim(c, v) /\ QrEnd(r) /\ qrLedger' = [qrLedger EXCEPT ![c] = @ \cup {"qrclaim-clawback"}]
      BY <1>2 DEF DebitClaim
    <2>3. qrLedger' = [qrLedger EXCEPT ![c] = MovedUnder(v.status)]
      <3>1. qrLedger[c] = {"qrsettle"}
        BY <1>0, <1>2, QrRows DEF MovedUnder
      <3> QED BY <2>1, <2>2, <3>1 DEF MovedUnder
    <2> HIDE DEF v, c
    <2> QED BY <1>0, <2>1, <2>2, <2>3, RunsTyped, QrWriteKeeps
  <1> QED BY <1>1, <1>2

LEMMA ApproveKeeps ==
    ASSUME QrInv, NEW r \in QrRuns, NEW c \in Claims, NEW a \in Admins, ApproveQrClaim(r, c, a)
    PROVE  QrInv'
  <1>1. CASE qrClaim[c].status = "PENDING" /\ c \in Large
    BY <1>1, QrBeginKeeps DEF ApproveQrClaim
  <1>2. CASE ~(qrClaim[c].status = "PENDING" /\ c \in Large)
    BY <1>2, QrBeginKeeps DEF ApproveQrClaim, Reviewable
  <1> QED BY <1>1, <1>2

LEMMA QrNextInv == QrInv /\ [QrNext]_qrVars => QrInv'
  <1> SUFFICES ASSUME QrInv, [QrNext]_qrVars PROVE QrInv' OBVIOUS
  <1>1. CASE UNCHANGED qrVars
    BY <1>1 DEF qrVars, QrInv, QrTypeOK, ReadsBack, QrStaged, QrMoneyMatchesStatus, QrLargeNeedsTwo
  <1>2. ASSUME NEW c \in Claims, SubmitQrClaim(c) PROVE QrInv'
    BY <1>2, SubmitKeeps
  <1>3. ASSUME NEW c \in Claims, NEW a \in Admins, RejectQrClaim(c, a) PROVE QrInv'
    BY <1>3, RejectKeeps
  <1>4. ASSUME NEW r \in QrRuns, QrStep(r) PROVE QrInv'
    BY <1>4, StageKeeps, FinalKeeps, QrCreditKeeps, QrDebitKeeps, QrEndKeeps DEF QrStep, QrGiveUp
  <1>5. ASSUME NEW r \in QrRuns, NEW c \in Claims, SettleClaim(r, c) PROVE QrInv'
    BY <1>5, QrBeginKeeps DEF SettleClaim
  <1>6. ASSUME NEW r \in QrRuns, NEW c \in Claims, NEW a \in Admins,
               ApproveQrClaim(r, c, a) \/ ClawbackQrClaim(r, c, a)
        PROVE  QrInv'
    BY <1>6, ApproveKeeps, QrBeginKeeps DEF ClawbackQrClaim
  <1> QED BY <1>1, <1>2, <1>3, <1>4, <1>5, <1>6 DEF QrNext

LEMMA QrAlwaysInv == QrSpec => []QrInv
  BY QrInitInv, QrNextInv, PTL DEF QrSpec

-----------------------------------------------------------------------------
(* Type correctness of the claims, their ledger keys and the runs, for any *)
(* number of them (claims.ts, all handlers). *)
THEOREM ClaimsTyped == QrSpec => []QrTypeOK
  BY QrAlwaysInv, PTL DEF QrInv

(* The button, the daily cron, reviews and clawbacks in any order pay a    *)
(* claim exactly while it is SETTLED (settleClaim's and clawbackQrClaim's  *)
(* conditional updates), whatever they read before. *)
THEOREM MoneyMatchesStatus == QrSpec => []QrMoneyMatchesStatus
  BY QrAlwaysInv, PTL DEF QrInv

(* No interleaving of approvals lets one admin pass a large claim alone    *)
(* (approveQrClaim's staging and its check of firstApprovedById). *)
THEOREM LargeNeedsTwo == QrSpec => []QrLargeNeedsTwo
  BY QrAlwaysInv, PTL DEF QrInv

-----------------------------------------------------------------------------
(* The live code: the columns stay well typed whatever changes meet the    *)
(* statements of a resolution.                                             *)
Candidate == [code : Codes, priority : Int]
ResolverType ==
    [at : {"idle", "list", "walk", "pause", "deactivate", "activate", "exhausted"},
     todo : SUBSET Candidate, off : SUBSET Codes]

LEMMA RotTypes ==
    ASSUME RotTypeOK
    PROVE  /\ resolver \in [Resolvers -> ResolverType] /\ NotResolving \in ResolverType
           /\ codePriority \in [Codes -> Int] /\ Candidates \in SUBSET Candidate
           /\ \A S \in SUBSET Candidate : First(S) \subseteq S /\ \A x \in First(S) : x.code \in Codes
  <1>1. resolver \in [Resolvers -> ResolverType] /\ NotResolving \in ResolverType
    BY DEF RotTypeOK, NotResolving, ResolverType, Candidate
  <1>2. codePriority \in [Codes -> Int] /\ codeEnabled \subseteq Codes
    BY DEF RotTypeOK
  <1>3. Candidates \in SUBSET Candidate
    BY <1>2 DEF Candidates, Candidate
  <1>4. \A S \in SUBSET Candidate : First(S) \subseteq S /\ \A x \in First(S) : x.code \in Codes
    BY DEF First, Candidate
  <1> QED BY <1>1, <1>2, <1>3, <1>4

LEMMA RotInitTyped == RotInit => RotTypeOK
  <1> SUFFICES ASSUME RotInit PROVE RotTypeOK OBVIOUS
  <1>1. codePriority \in [Codes -> Int] /\ codeEnabled = Codes
    BY DEF RotInit, DefaultPriority
  <1>2. codeLive \subseteq Codes
    BY <1>1 DEF RotInit, First, Candidates
  <1>3. resolver \in [Resolvers -> ResolverType]
    BY DEF RotInit, NotResolving, ResolverType, Candidate
  <1>4. changes \in 0..MaxChanges
    BY MaxChangesAssumption DEF RotInit
  <1> QED BY <1>1, <1>2, <1>3, <1>4 DEF RotInit, RotTypeOK, ResolverType, Candidate

(* A statement of resolver v: it stays well typed, and what it writes is.  *)
LEMMA ResolverTyped ==
    ASSUME RotTypeOK, NEW v \in Resolvers, ResetPauses(v) \/ ResolveStep(v)
    PROVE  \E w \in ResolverType : RotGo(v, w)
  <1>1. /\ resolver[v] \in ResolverType /\ NotResolving \in ResolverType
        /\ Candidates \in SUBSET Candidate
    BY RotTypes
  <1>2. codeLive \subseteq Codes
    BY DEF RotTypeOK
  <1>3. CASE ResetPauses(v) \/ ActivateWinner(v) \/ DeadlockVictim(v) \/ Exhausted(v)
    BY <1>1, <1>3 DEF ResetPauses, ActivateWinner, DeadlockVictim, Exhausted, NotResolving, ResolverType
  <1>4. CASE ListCandidates(v) \/ Walk(v) \/ Pause(v)
    BY <1>1, <1>4 DEF ListCandidates, Walk, Pause, ResolverType
  <1>5. CASE DeactivateOthers(v)
    BY <1>1, <1>2, <1>5 DEF DeactivateOthers, ResolverType
  <1> QED BY <1>3, <1>4, <1>5 DEF ResolveStep

LEMMA ResolveKeeps ==
    ASSUME RotTypeOK, NEW v \in Resolvers, ResetPauses(v) \/ ResolveStep(v)
    PROVE  RotTypeOK'
  <1>1. resolver' \in [Resolvers -> ResolverType]
    BY RotTypes, ResolverTyped DEF RotGo
  <1>2. UNCHANGED queueVars
    BY DEF ResetPauses, ResolveStep, ListCandidates, Walk, Pause, DeactivateOthers, ActivateWinner,
           DeadlockVictim, Exhausted
  <1>3. \A x \in First(resolver[v].todo) : x.code \in Codes
    BY RotTypes DEF ResolverType
  <1>4. codePaused' \in [Codes -> {"no", "today", "earlier"}] /\ codeLive' \subseteq Codes
    <2>0. codePaused \in [Codes -> {"no", "today", "earlier"}] /\ codeLive \subseteq Codes
      BY DEF RotTypeOK
    <2>1. CASE ResetPauses(v)
      BY <2>0, <2>1 DEF ResetPauses
    <2>2. CASE Pause(v)
      BY <1>3, <2>0, <2>2 DEF Pause
    <2>3. CASE ActivateWinner(v)
      BY <1>3, <2>0, <2>3 DEF ActivateWinner
    <2>4. CASE ListCandidates(v) \/ Walk(v) \/ DeactivateOthers(v) \/ DeadlockVictim(v) \/ Exhausted(v)
      BY <2>0, <2>4 DEF ListCandidates, Walk, DeactivateOthers, DeadlockVictim, Exhausted
    <2> QED BY <2>1, <2>2, <2>3, <2>4 DEF ResolveStep
  <1> QED BY <1>1, <1>2, <1>4 DEF RotTypeOK, queueVars, ResolverType, Candidate

LEMMA ChangeKeeps ==
    ASSUME RotTypeOK, Changed
    PROVE  changes' \in 0..MaxChanges /\ resolver' \in [Resolvers -> ResolverType]
  <1>1. changes \in 0..MaxChanges /\ changes < MaxChanges /\ changes' = changes + 1 /\ resolver' = resolver
    BY DEF RotTypeOK, Changed
  <1> QED BY <1>1, MaxChangesAssumption, RotTypes

LEMMA QueueKeeps ==
    ASSUME RotTypeOK, NEW c \in Codes,
           DisableQr(c) \/ EnableQr(c) \/ SetPriority(c) \/ MakeLiveNow(c) \/ Collect(c)
    PROVE  RotTypeOK'
  <1>0. Changed
    BY DEF DisableQr, EnableQr, SetPriority, MakeLiveNow, Collect
  <1>1. changes' \in 0..MaxChanges /\ resolver' \in [Resolvers -> ResolverType]
    BY <1>0, ChangeKeeps
  <1>2. Lowest \subseteq Int /\ Priorities \subseteq Int
    BY CodesAreOrdered DEF Lowest, DefaultPriority, RotTypeOK
  <1>3. codePriority' \in [Codes -> Int]
    BY <1>2 DEF RotTypeOK, DisableQr, EnableQr, SetPriority, MakeLiveNow, Collect
  <1>4. codeEnabled' \subseteq Codes /\ codeLive' \subseteq Codes /\ codeFull' \subseteq Codes
    BY DEF RotTypeOK, DisableQr, EnableQr, SetPriority, MakeLiveNow, Collect
  <1>5. codePaused' \in [Codes -> {"no", "today", "earlier"}]
    BY DEF RotTypeOK, DisableQr, EnableQr, SetPriority, MakeLiveNow, Collect
  <1> QED BY <1>1, <1>3, <1>4, <1>5 DEF RotTypeOK, ResolverType, Candidate

LEMMA MidnightKeeps == ASSUME RotTypeOK, Midnight PROVE RotTypeOK'
  <1>1. changes' \in 0..MaxChanges /\ resolver' \in [Resolvers -> ResolverType]
    BY ChangeKeeps DEF Midnight
  <1>2. codePaused' \in [Codes -> {"no", "today", "earlier"}]
    BY DEF RotTypeOK, Midnight
  <1> QED BY <1>1, <1>2 DEF RotTypeOK, Midnight, ResolverType, Candidate

(* Type correctness of the code columns and the resolutions, for any       *)
(* number of codes, priorities and concurrent calls (rotation.ts and the   *)
(* admin's PATCH). *)
THEOREM RotationTyped == RotSpec => []RotTypeOK
  <1>1. RotTypeOK /\ [RotNext]_rotVars => RotTypeOK'
    <2> SUFFICES ASSUME RotTypeOK, [RotNext]_rotVars PROVE RotTypeOK' OBVIOUS
    <2>1. CASE UNCHANGED rotVars
      BY <2>1 DEF rotVars, RotTypeOK
    <2>2. CASE RotNext
      BY <2>2, ResolveKeeps, QueueKeeps, MidnightKeeps DEF RotNext
    <2> QED BY <2>1, <2>2
  <1> QED BY <1>1, RotInitTyped, PTL DEF RotSpec
=============================================================================
