-------------------------- MODULE ServiceTxnProofs --------------------------
(***************************************************************************)
(* Proofs about ServiceTxn.  For any calls, keys, triggers and merged      *)
(* orders: the client's key debits once, SUCCESS is only written for an    *)
(* order the provider executed, and one order is charged once (SvcInv).    *)
(* The money of a reserve follows its row's status where keys are not      *)
(* reused and nobody finalizes a row whose call is still running           *)
(* (MoneyInv) - the two conditions that the runs service_same_key and      *)
(* service_double_refund show to be needed.                                *)
(* With running calls finalized as well, the money of the debited rows     *)
(* still follows their status, and no first failure report is refunded,    *)
(* while the provider merges no orders (LoneInv).                          *)
(***************************************************************************)
EXTENDS ServiceTxn, FiniteSetTheorems, TLAPS

TxnType == [status : {"none", "SUCCESS"} \cup NonTerminal \cup TerminalFailed,
            ref : Orders \cup {NoOrder}, refund : {"unset", "cooling", "due"}]

FinType == [at : {"idle", "dupcheck", "success", "gate", "close", "window", "schedule", "refund"},
            row : Calls, ref : Orders \cup {NoOrder}, terminal : TerminalFailed,
            after : {"window", "at once"}]

Paid(c) == placed[c] \in Orders /\ order[placed[c]] = "SUCCESS"

(* What a finalizer that is about to write SUCCESS has read. *)
Sure(w) == w.at \in {"dupcheck", "success"} => Paid(w.row) /\ w.ref = placed[w.row]

CallTrue(c) ==
    /\ placed[c] # NoOrder => order[placed[c]] # "none"
    /\ pc[c] \in {"idle", "reserve", "call"} => placed[c] = NoOrder
    /\ pc[c] \in {"dupcheck", "success", "duplicate"} => Paid(c)
    /\ txn[c].status = "SUCCESS" => Paid(c) /\ txn[c].ref = placed[c]

SvcInv ==
    /\ TypeOK
    /\ \A f \in Finalizers : Sure(fin[f])
    /\ \A c \in Calls : CallTrue(c)
    /\ OneSuccessPerOrder
    /\ KeyDebitedOnce

-----------------------------------------------------------------------------
LEMMA IdleTyped == Idle \in FinType /\ Idle.at = "idle"
  BY CallsAssumption DEF Idle, FinType, TerminalFailed

LEMMA InitInv == Init => SvcInv
  <1> SUFFICES ASSUME Init PROVE SvcInv OBVIOUS
  <1> USE DEF Init
  <1>1. TypeOK
    BY IdleTyped DEF TypeOK, NoRow, FinType
  <1>2. \A f \in Finalizers : Sure(fin[f])
    BY IdleTyped DEF Sure
  <1>3. \A c \in Calls : CallTrue(c)
    BY DEF CallTrue, NoRow
  <1>4. OneSuccessPerOrder /\ KeyDebitedOnce
    BY DEF OneSuccessPerOrder, KeyDebitedOnce, NoRow
  <1> QED BY <1>1, <1>2, <1>3, <1>4 DEF SvcInv

LEMMA Types ==
    ASSUME SvcInv
    PROVE  /\ txn \in [Calls -> TxnType] /\ fin \in [Finalizers -> FinType]
           /\ \A c \in Calls : /\ txn[c] \in TxnType /\ CallTrue(c)
                              /\ placed[c] \in Orders \cup {NoOrder}
           /\ \A f \in Finalizers : fin[f] \in FinType /\ fin[f].row \in Calls /\ Sure(fin[f])
  <1>1. txn \in [Calls -> TxnType] /\ fin \in [Finalizers -> FinType]
    BY DEF SvcInv, TypeOK, TxnType, FinType
  <1>2. \A c \in Calls : placed[c] \in Orders \cup {NoOrder}
    BY DEF SvcInv, TypeOK
  <1> QED BY <1>1, <1>2 DEF SvcInv, FinType

(* A finalizer moves and the rows stay. *)
LEMMA FinKeeps ==
    ASSUME SvcInv, NEW f \in Finalizers, NEW w \in FinType, Go(f, w), Sure(w),
           UNCHANGED <<rowVars, callVars, providerVars>>
    PROVE  SvcInv'
  <1> USE DEF rowVars, callVars, providerVars, Go
  <1>1. fin' \in [Finalizers -> FinType] /\ \A g \in Finalizers : fin'[g] = w \/ fin'[g] = fin[g]
    BY Types
  <1>2. TypeOK'
    BY <1>1 DEF SvcInv, TypeOK, FinType
  <1>3. \A g \in Finalizers : Sure(fin[g])'
    BY <1>1, Types DEF Sure, Paid
  <1>4. (\A c \in Calls : CallTrue(c)') /\ OneSuccessPerOrder' /\ KeyDebitedOnce'
    BY DEF SvcInv, CallTrue, Paid, OneSuccessPerOrder, KeyDebitedOnce
  <1> QED BY <1>2, <1>3, <1>4 DEF SvcInv

(* A call moves and the rows stay. *)
LEMMA CallKeeps ==
    ASSUME SvcInv, NEW c \in Calls,
           NEW to \in {"reserve", "settle", "dupcheck", "success", "duplicate", "done", "dead"},
           Move(c, to), UNCHANGED <<rowVars, fin, providerVars>>,
           answer' \in [Calls -> {"none", "paid", "pending", "declined", "unknown"}],
           to = "reserve" => pc[c] = "idle",
           to \in {"dupcheck", "success", "duplicate"} => Paid(c)
    PROVE  SvcInv'
  <1> USE DEF rowVars, providerVars, Move
  <1>1. pc' \in [Calls -> {"idle", "reserve", "call", "wait", "settle", "dupcheck", "success",
                           "duplicate", "done", "dead"}]
        /\ pc'[c] = to /\ \A d \in Calls \ {c} : pc'[d] = pc[d]
    BY DEF SvcInv, TypeOK
  <1>2. TypeOK'
    BY <1>1 DEF SvcInv, TypeOK
  <1>3. \A f \in Finalizers : Sure(fin[f])'
    BY DEF SvcInv, Sure, Paid
  <1>4. \A d \in Calls : CallTrue(d)'
    BY <1>1 DEF SvcInv, CallTrue, Paid
  <1>5. OneSuccessPerOrder' /\ KeyDebitedOnce'
    BY DEF SvcInv, OneSuccessPerOrder, KeyDebitedOnce
  <1> QED BY <1>2, <1>3, <1>4, <1>5 DEF SvcInv

(* Row c is written, and its money with it.  SUCCESS is only written for a *)
(* paid order that no other row has.                                       *)
LEMMA RowKeeps ==
    ASSUME SvcInv, NEW c \in Calls, NEW v \in TxnType, txn' = [txn EXCEPT ![c] = v],
           v.status = "SUCCESS" =>
             /\ Paid(c) /\ v.ref = placed[c]
             /\ txn[c].status = "SUCCESS" \/ ~OwnedElsewhere(c, placed[c]),
           pc' \in [Calls -> {"idle", "reserve", "call", "wait", "settle", "dupcheck", "success",
                              "duplicate", "done", "dead"}],
           \A d \in Calls : pc'[d] # pc[d] => pc'[d] = "done" \/ (pc[d] = "reserve" /\ pc'[d] = "call"),
           fin' \in [Finalizers -> FinType],
           \A f \in Finalizers : fin'[f] = fin[f] \/ fin'[f].at = "idle",
           reserved' \subseteq Calls, margin' \subseteq Calls,
           reversals' \in [Calls -> SUBSET {"call", "final"}], clawed' \in [Calls -> Nat],
           KeyDebitedOnce', UNCHANGED <<answer, providerVars>>
    PROVE  SvcInv'
  <1> USE DEF providerVars
  <1>1. txn' \in [Calls -> TxnType] /\ txn'[c] = v /\ \A d \in Calls \ {c} : txn'[d] = txn[d]
    BY Types
  <1>2. TypeOK'
    BY <1>1 DEF SvcInv, TypeOK, TxnType, FinType
  <1>3. \A f \in Finalizers : Sure(fin[f])'
    BY Types DEF Sure, Paid
  <1>4. \A d \in Calls : CallTrue(d)'
    BY <1>1, Types DEF CallTrue, Paid
  <1>5. OneSuccessPerOrder'
    <2> SUFFICES ASSUME NEW d \in Calls, NEW e \in Calls, d # e,
                        txn'[d].status = "SUCCESS", txn'[e].status = "SUCCESS", placed[d] = placed[e]
                 PROVE  FALSE
      BY DEF OneSuccessPerOrder
    <2>1. CASE d # c /\ e # c
      BY <2>1, <1>1 DEF SvcInv, OneSuccessPerOrder
    <2>2. ASSUME NEW x \in Calls \ {c}, v.status = "SUCCESS", txn[x].status = "SUCCESS",
                 placed[x] = placed[c]
          PROVE  FALSE
      <3>1. CASE txn[c].status = "SUCCESS"
        BY <2>2, <3>1 DEF SvcInv, OneSuccessPerOrder
      <3>2. CASE ~OwnedElsewhere(c, placed[c])
        BY <2>2, <3>2, Types DEF OwnedElsewhere, CallTrue
      <3> QED BY <2>2, <3>1, <3>2
    <2> QED BY <2>1, <2>2, <1>1
  <1> QED BY <1>2, <1>3, <1>4, <1>5 DEF SvcInv

-----------------------------------------------------------------------------
(* runTransaction. *)

LEMMA Moved ==
    ASSUME SvcInv, NEW c \in Calls, NEW to \in {"call", "done"}, Move(c, to), pc[c] = "reserve" \/ to = "done"
    PROVE  /\ pc' \in [Calls -> {"idle", "reserve", "call", "wait", "settle", "dupcheck", "success",
                                 "duplicate", "done", "dead"}]
           /\ \A d \in Calls : pc'[d] # pc[d] => pc'[d] = "done" \/ (pc[d] = "reserve" /\ pc'[d] = "call")
  BY DEF SvcInv, TypeOK, Move

LEMMA CallMoves ==
    ASSUME SvcInv, NEW c \in Calls, Begin(c) \/ Answer(c) \/ DuplicateCheck(c) \/ Crash(c)
    PROVE  SvcInv'
  <1>1. answer \in [Calls -> {"none", "paid", "pending", "declined", "unknown"}]
    BY DEF SvcInv, TypeOK
  <1>2. CASE Begin(c)
    BY <1>1, <1>2, CallKeeps DEF Begin
  <1>3. CASE Answer(c)
    <2>1. PICK a \in Answers(c) : answer' = [answer EXCEPT ![c] = a]
                                  /\ Move(c, IF a = "paid" THEN "dupcheck" ELSE "settle")
      BY <1>3 DEF Answer
    <2>2. placed[c] \in Orders \cup {NoOrder}
          /\ \A o \in Orders : order[o] \in {"none", "pending", "SUCCESS", "FAILED"}
      BY DEF SvcInv, TypeOK
    <2>3. a \in {"paid", "pending", "declined", "unknown"} /\ (a = "paid" => Paid(c))
      BY <2>1, <2>2, Types DEF Answers, CallTrue, Paid
    <2>4. answer' \in [Calls -> {"none", "paid", "pending", "declined", "unknown"}]
      BY <1>1, <2>1, <2>3
    <2> QED BY <1>3, <2>1, <2>3, <2>4, CallKeeps DEF Answer
  <1>4. CASE DuplicateCheck(c)
    BY <1>1, <1>4, CallKeeps, Types DEF DuplicateCheck, CallTrue
  <1>5. CASE Crash(c)
    BY <1>1, <1>5, CallKeeps DEF Crash
  <1> QED BY <1>2, <1>3, <1>4, <1>5

LEMMA Untouched ==
    ASSUME SvcInv
    PROVE  /\ reserved \subseteq Calls /\ margin \subseteq Calls /\ clawed \in [Calls -> Nat]
           /\ reversals \in [Calls -> SUBSET {"call", "final"}] /\ KeyDebitedOnce
  BY DEF SvcInv, TypeOK

LEMMA CallReversalTyped ==
    ASSUME SvcInv, NEW c \in Calls
    PROVE  /\ CallReversal(c) \in [Calls -> SUBSET {"call", "final"}]
           /\ FinalReversal(c) \in [Calls -> SUBSET {"call", "final"}]
  BY Untouched DEF CallReversal, FinalReversal

(* The reserve key is debited once because the debit looks for its entry.  *)
LEMMA ReserveKeeps == ASSUME SvcInv, NEW c \in Calls, Reserve(c) PROVE SvcInv'
  <1>1. CASE Move(c, "done") /\ UNCHANGED <<txn, reserved>>
    <2>1. answer' \in [Calls -> {"none", "paid", "pending", "declined", "unknown"}]
      BY DEF Reserve, SvcInv, TypeOK
    <2> QED BY <1>1, <2>1, CallKeeps DEF Reserve, rowVars
  <1>2. CASE txn' = [txn EXCEPT ![c].status = "PROCESSING"] /\ Move(c, "call")
    <2> DEFINE v == [txn[c] EXCEPT !.status = "PROCESSING"]
    <2>1. v \in TxnType /\ v.status = "PROCESSING"
      BY Types DEF TxnType, NonTerminal
    <2>2. txn' = [txn EXCEPT ![c] = v]
      BY <1>2
    <2>3. KeyDebitedOnce' /\ reserved' \subseteq Calls
      BY Untouched DEF Reserve, KeyDebitedOnce, KeyTaken
    <2> HIDE DEF v
    <2>4. /\ pc' \in [Calls -> {"idle", "reserve", "call", "wait", "settle", "dupcheck", "success",
                                 "duplicate", "done", "dead"}]
          /\ \A d \in Calls : pc'[d] # pc[d] => pc'[d] = "done" \/ (pc[d] = "reserve" /\ pc'[d] = "call")
      BY <1>2, Moved DEF Reserve
    <2>5. fin' \in [Finalizers -> FinType] /\ UNCHANGED <<reversals, clawed, margin, answer, fin, providerVars>>
      BY Types DEF Reserve
    <2> QED BY <2>1, <2>2, <2>3, <2>4, <2>5, Untouched, RowKeeps
  <1> QED BY <1>1, <1>2 DEF Reserve

(* The steps of a call that end it and write its row. *)
LEMMA CallEnds ==
    ASSUME SvcInv, NEW c \in Calls, NEW v \in TxnType, txn' = [txn EXCEPT ![c] = v], Move(c, "done"),
           v.status = "SUCCESS" =>
             /\ Paid(c) /\ v.ref = placed[c]
             /\ txn[c].status = "SUCCESS" \/ ~OwnedElsewhere(c, placed[c]),
           margin' \in {margin, margin \cup {c}}, reversals' \in {reversals, CallReversal(c)},
           UNCHANGED <<reserved, clawed, answer, fin, providerVars>>
    PROVE  SvcInv'
  <1>1. /\ pc' \in [Calls -> {"idle", "reserve", "call", "wait", "settle", "dupcheck", "success",
                               "duplicate", "done", "dead"}]
        /\ \A d \in Calls : pc'[d] # pc[d] => pc'[d] = "done" \/ (pc[d] = "reserve" /\ pc'[d] = "call")
    BY Moved
  <1>2. /\ margin' \subseteq Calls /\ reserved' \subseteq Calls /\ clawed' \in [Calls -> Nat]
        /\ reversals' \in [Calls -> SUBSET {"call", "final"}] /\ KeyDebitedOnce'
    BY Untouched, CallReversalTyped DEF KeyDebitedOnce
  <1>3. fin' \in [Finalizers -> FinType] /\ \A f \in Finalizers : fin'[f] = fin[f]
    BY Types
  <1> QED BY <1>1, <1>2, <1>3, RowKeeps

LEMMA KeepPendingKeeps == ASSUME SvcInv, NEW c \in Calls, KeepPending(c) PROVE SvcInv'
  <1> DEFINE v == [txn[c] EXCEPT !.ref = placed[c]]
  <1>1. v \in TxnType /\ v.status = txn[c].status /\ v.ref = placed[c]
    BY Types DEF TxnType
  <1>2. txn' = [txn EXCEPT ![c] = v]
    BY DEF KeepPending
  <1> HIDE DEF v
  <1>3. v.status = "SUCCESS" => Paid(c) /\ txn[c].status = "SUCCESS"
    BY <1>1, Types DEF CallTrue
  <1> QED BY <1>1, <1>2, <1>3, CallEnds DEF KeepPending

LEMMA SettleSuccessKeeps == ASSUME SvcInv, NEW c \in Calls, SettleSuccess(c) PROVE SvcInv'
  <1> DEFINE v == [txn[c] EXCEPT !.status = "SUCCESS", !.ref = placed[c]]
  <1>1. Paid(c) /\ placed[c] \in Orders /\ placed[c] # NoOrder
    BY Types, NoOrderAssumption DEF SettleSuccess, CallTrue, Paid
  <1>2. CASE IndexRefuses(c, placed[c])
    <2>1. answer' \in [Calls -> {"none", "paid", "pending", "declined", "unknown"}]
      BY DEF SettleSuccess, SvcInv, TypeOK
    <2> QED BY <1>1, <1>2, <2>1, CallKeeps DEF SettleSuccess
  <1>3. CASE ~IndexRefuses(c, placed[c])
    <2>1. v \in TxnType /\ v.status = "SUCCESS" /\ v.ref = placed[c]
      BY <1>1, Types DEF TxnType
    <2>2. txn' = [txn EXCEPT ![c] = v]
      BY <1>3 DEF SettleSuccess
    <2> HIDE DEF v
    <2>3. ~OwnedElsewhere(c, placed[c])
      BY <1>1, <1>3 DEF IndexRefuses
    <2> QED BY <1>1, <1>3, <2>1, <2>2, <2>3, CallEnds DEF SettleSuccess, CreditServiceMargin
  <1> QED BY <1>2, <1>3

LEMMA CallFailsKeeps ==
    ASSUME SvcInv, NEW c \in Calls, RefundDuplicateLeg(c) \/ HoldForReview(c) \/ FailAndRefund(c)
    PROVE  SvcInv'
  <1>1. CASE RefundDuplicateLeg(c)
    <2> DEFINE v == [txn[c] EXCEPT !.status = "REFUNDED", !.ref = placed[c]]
    <2>1. v \in TxnType /\ v.status = "REFUNDED"
      BY Types DEF TxnType, TerminalFailed
    <2>2. txn' = [txn EXCEPT ![c] = v]
      BY <1>1 DEF RefundDuplicateLeg
    <2> HIDE DEF v
    <2> QED BY <1>1, <2>1, <2>2, CallEnds DEF RefundDuplicateLeg
  <1>2. ASSUME NEW s \in {"NEEDS_REVIEW", "FAILED"}, txn' = [txn EXCEPT ![c].status = s],
               HoldForReview(c) \/ FailAndRefund(c)
        PROVE  SvcInv'
    <2> DEFINE v == [txn[c] EXCEPT !.status = s]
    <2>1. v \in TxnType /\ v.status = s
      BY Types DEF TxnType, NonTerminal, TerminalFailed
    <2>2. txn' = [txn EXCEPT ![c] = v]
      BY <1>2
    <2> HIDE DEF v
    <2> QED BY <1>2, <2>1, <2>2, CallEnds DEF HoldForReview, FailAndRefund
  <1> QED BY <1>1, <1>2 DEF HoldForReview, FailAndRefund

-----------------------------------------------------------------------------
(* The provider: it forgets no order, and takes back no success. *)
Remembers ==
    \A o \in Orders : /\ order[o] # "none" => order'[o] # "none"
                      /\ order[o] = "SUCCESS" => order'[o] = "SUCCESS"

LEMMA SendKeeps == ASSUME SvcInv, NEW c \in Calls, Send(c) PROVE SvcInv'
  <1> USE DEF rowVars, providerVars
  <1>0. placed \in [Calls -> Orders \cup {NoOrder}] /\ order \in [Orders -> {"none", "pending", "SUCCESS", "FAILED"}]
    BY DEF SvcInv, TypeOK
  <1>1. /\ placed[c] = NoOrder /\ pc[c] = "call" /\ txn[c].status # "SUCCESS"
        /\ UNCHANGED <<rowVars, answer, fin>>
    BY Types, NoOrderAssumption DEF Send, CallTrue, Paid
  <1>2. /\ pc' \in [Calls -> {"idle", "reserve", "call", "wait", "settle", "dupcheck", "success",
                               "duplicate", "done", "dead"}]
        /\ pc'[c] = "wait" /\ \A d \in Calls \ {c} : pc'[d] = pc[d]
    BY DEF Send, Move, SvcInv, TypeOK
  <1>3. PICK q \in Orders \cup {NoOrder} : placed' = [placed EXCEPT ![c] = q]
    BY <1>0, <1>1 DEF Send
  <1>4. /\ order' \in [Orders -> {"none", "pending", "SUCCESS", "FAILED"}] /\ Remembers
    <2>1. \/ order' = order
          \/ \E o \in Orders : order[o] = "none" /\ order' = [order EXCEPT ![o] = "pending"]
      BY DEF Send
    <2>2. CASE order' = order
      BY <2>2, <1>0 DEF Remembers
    <2>3. CASE \E o \in Orders : order[o] = "none" /\ order' = [order EXCEPT ![o] = "pending"]
      <3>1. PICK o \in Orders : order[o] = "none" /\ order' = [order EXCEPT ![o] = "pending"]
        BY <2>3
      <3>2. order' \in [Orders -> {"none", "pending", "SUCCESS", "FAILED"}]
        BY <3>1, <1>0
      <3>3. \A p \in Orders : order'[p] = order[p] \/ (order[p] = "none" /\ order'[p] = "pending")
        BY <3>1, <1>0
      <3> QED BY <3>2, <3>3 DEF Remembers
    <2> QED BY <2>1, <2>2, <2>3
  <1>5. placed'[c] # NoOrder => order'[placed'[c]] # "none"
    BY <1>0, <1>1, Types DEF Send, CallTrue
  <1>6. /\ placed' \in [Calls -> Orders \cup {NoOrder}] /\ \A d \in Calls \ {c} : placed'[d] = placed[d]
    BY <1>0, <1>3
  <1>7. TypeOK'
    BY <1>1, <1>2, <1>4, <1>6 DEF SvcInv, TypeOK
  <1>8. ASSUME NEW f \in Finalizers PROVE Sure(fin[f])'
    <2>1. Sure(fin[f]) /\ fin[f].row \in Calls
      BY Types
    <2>2. fin[f].at \in {"dupcheck", "success"} => fin[f].row # c
      BY <2>1, <1>1, NoOrderAssumption DEF Sure, Paid
    <2> QED BY <1>1, <1>4, <1>6, <2>1, <2>2 DEF Sure, Paid, Remembers
  <1>9. ASSUME NEW d \in Calls PROVE CallTrue(d)'
    <2>1. CASE d = c
      BY <2>1, <1>1, <1>2, <1>5 DEF CallTrue
    <2>2. CASE d # c
      BY <2>2, <1>1, <1>2, <1>4, <1>6, Types DEF CallTrue, Paid, Remembers
    <2> QED BY <2>1, <2>2
  <1>10. OneSuccessPerOrder' /\ KeyDebitedOnce'
    BY <1>1, <1>6 DEF SvcInv, OneSuccessPerOrder, KeyDebitedOnce
  <1> QED BY <1>7, <1>8, <1>9, <1>10 DEF SvcInv

LEMMA DecideKeeps == ASSUME SvcInv, NEW o \in Orders, Decide(o) PROVE SvcInv'
  <1> USE DEF rowVars, callVars
  <1>1. /\ order' \in [Orders -> {"none", "pending", "SUCCESS", "FAILED"}] /\ Remembers
    <2>1. order \in [Orders -> {"none", "pending", "SUCCESS", "FAILED"}]
      BY DEF SvcInv, TypeOK
    <2>2. PICK s \in {"SUCCESS", "FAILED"} :
              /\ order' = [order EXCEPT ![o] = s]
              /\ order[o] = "pending" \/ (order[o] = "FAILED" /\ s = "SUCCESS")
      BY DEF Decide
    <2> QED BY <2>1, <2>2 DEF Remembers
  <1>2. TypeOK'
    BY <1>1 DEF Decide, SvcInv, TypeOK
  <1>3. \A f \in Finalizers : Sure(fin[f])'
    BY <1>1, Types DEF Decide, Sure, Paid, Remembers
  <1>4. \A c \in Calls : CallTrue(c)'
    BY <1>1, Types DEF Decide, CallTrue, Paid, Remembers
  <1>5. OneSuccessPerOrder' /\ KeyDebitedOnce'
    BY DEF Decide, SvcInv, OneSuccessPerOrder, KeyDebitedOnce
  <1> QED BY <1>2, <1>3, <1>4, <1>5 DEF SvcInv

-----------------------------------------------------------------------------
(* Finalizers. *)

(* A row is written by somebody other than its call, which has nothing     *)
(* more to write - or writes it later all the same.                        *)
LEMMA FinWrites ==
    ASSUME SvcInv, NEW c \in Calls, NEW v \in TxnType, txn' = [txn EXCEPT ![c] = v],
           v.status = "SUCCESS" =>
             Paid(c) /\ v.ref = placed[c] /\ ~OwnedElsewhere(c, placed[c]),
           fin' \in [Finalizers -> FinType],
           \A f \in Finalizers : fin'[f] = fin[f] \/ fin'[f].at = "idle",
           margin' \in {margin, margin \cup {c}}, reversals' \in {reversals, FinalReversal(c)},
           clawed' \in [Calls -> Nat], UNCHANGED <<reserved, callVars, providerVars>>
    PROVE  SvcInv'
  <1>1. pc' \in [Calls -> {"idle", "reserve", "call", "wait", "settle", "dupcheck", "success",
                           "duplicate", "done", "dead"}]
        /\ pc' = pc /\ answer' = answer
    BY DEF SvcInv, TypeOK, callVars
  <1>2. /\ margin' \subseteq Calls /\ reserved' \subseteq Calls
        /\ reversals' \in [Calls -> SUBSET {"call", "final"}] /\ KeyDebitedOnce'
    BY Untouched, CallReversalTyped DEF KeyDebitedOnce
  <1> QED BY <1>1, <1>2, RowKeeps

LEMMA FinEnds ==
    ASSUME SvcInv, NEW f \in Finalizers, Go(f, Idle)
    PROVE  fin' \in [Finalizers -> FinType] /\ \A g \in Finalizers : fin'[g] = fin[g] \/ fin'[g].at = "idle"
  BY Types, IdleTyped DEF Go

LEMMA FinStarts ==
    ASSUME SvcInv, NEW f \in Finalizers, NEW c \in Calls, Poll(f, c) \/ ForceRefundNotFound(f, c)
    PROVE  SvcInv'
  <1>1. CASE Poll(f, c)
    <2> DEFINE w == [at |-> IF order[placed[c]] = "SUCCESS" THEN "dupcheck" ELSE "gate",
                     row |-> c, ref |-> placed[c], terminal |-> "FAILED", after |-> "window"]
    <2>1. w \in FinType
      BY Types DEF FinType, TerminalFailed
    <2>2. Sure(w)
      BY <1>1, Types DEF Poll, Sure, Paid
    <2>3. Go(f, w) /\ UNCHANGED <<rowVars, callVars, providerVars>>
      BY <1>1 DEF Poll
    <2> HIDE DEF w
    <2> QED BY <2>1, <2>2, <2>3, FinKeeps
  <1>2. CASE ForceRefundNotFound(f, c)
    <2> DEFINE w == [at |-> "gate", row |-> c, ref |-> txn[c].ref, terminal |-> "FAILED", after |-> "at once"]
    <2>1. w \in FinType /\ Sure(w)
      BY Types DEF FinType, TxnType, TerminalFailed, Sure
    <2>2. Go(f, w) /\ UNCHANGED <<rowVars, callVars, providerVars>>
      BY <1>2 DEF ForceRefundNotFound
    <2> HIDE DEF w
    <2> QED BY <2>1, <2>2, FinKeeps
  <1> QED BY <1>1, <1>2

(* The finalizer decides and goes on, or ends. *)
LEMMA FinDecides ==
    ASSUME SvcInv, NEW f \in Finalizers,
           FinDuplicateCheck(f) \/ PriorReversal(f) \/ Window(f) \/ Drop(f)
    PROVE  SvcInv'
  <1> DEFINE w == fin[f]
             v == [w EXCEPT !.at = "gate", !.terminal = "REFUNDED", !.after = "at once"]
  <1>0. w \in FinType /\ Sure(w) /\ UNCHANGED <<rowVars, callVars, providerVars>>
    BY Types DEF FinDuplicateCheck, PriorReversal, Window, Drop
  <1>1. CASE Go(f, Idle)
    BY <1>0, <1>1, FinKeeps, IdleTyped DEF Sure
  <1>2. CASE Go(f, v)
    <2>1. v \in FinType /\ v.at = "gate"
      BY <1>0 DEF FinType, TerminalFailed
    <2> HIDE DEF v
    <2> QED BY <1>0, <1>2, <2>1, FinKeeps DEF Sure
  <1>3. ASSUME NEW at \in {"success", "close", "refund", "window", "schedule"},
               at = "success" => w.at = "dupcheck", Go(f, [w EXCEPT !.at = at])
        PROVE  SvcInv'
    <2> DEFINE u == [w EXCEPT !.at = at]
    <2>1. u \in FinType /\ u.at = at /\ u.row = w.row /\ u.ref = w.ref
      BY <1>0 DEF FinType
    <2>2. Go(f, u)
      BY <1>3
    <2> HIDE DEF u
    <2> QED BY <1>0, <1>3, <2>1, <2>2, FinKeeps DEF Sure
  <1>4. CASE FinDuplicateCheck(f)
    BY <1>2, <1>3, <1>4 DEF FinDuplicateCheck
  <1>5. CASE PriorReversal(f)
    BY <1>3, <1>5 DEF PriorReversal
  <1>6. CASE Window(f)
    BY <1>1, <1>3, <1>6 DEF Window, AfterWindow
  <1>7. CASE Drop(f)
    BY <1>1, <1>7 DEF Drop
  <1> QED BY <1>4, <1>5, <1>6, <1>7

LEMMA ClaimSuccessKeeps == ASSUME SvcInv, NEW f \in Finalizers, ClaimSuccess(f) PROVE SvcInv'
  <1> DEFINE w == fin[f]
             u == [w EXCEPT !.at = "gate", !.terminal = "REFUNDED", !.after = "at once"]
  <1>0. PICK c \in Calls : c = w.row
    BY Types
  <1> DEFINE v == [status |-> "SUCCESS", ref |-> w.ref, refund |-> "unset"]
  <1>1. w \in FinType /\ Paid(c) /\ w.ref = placed[c] /\ UNCHANGED <<callVars, providerVars>>
    BY <1>0, Types DEF ClaimSuccess, Sure
  <1>2. CASE Go(f, Idle) /\ UNCHANGED rowVars
    BY <1>1, <1>2, FinKeeps, IdleTyped DEF Sure
  <1>3. CASE Go(f, u) /\ UNCHANGED rowVars
    <2>1. u \in FinType /\ u.at = "gate"
      BY <1>1 DEF FinType, TerminalFailed
    <2> HIDE DEF u
    <2> QED BY <1>1, <1>3, <2>1, FinKeeps DEF Sure
  <1>4. CASE /\ ~IndexRefuses(c, w.ref) /\ txn' = [txn EXCEPT ![c] = v] /\ CreditServiceMargin(c)
             /\ Go(f, Idle) /\ UNCHANGED <<reserved, reversals, clawed>>
    <2>1. v \in TxnType /\ v.status = "SUCCESS" /\ v.ref = placed[c]
      BY <1>1 DEF TxnType, Paid
    <2> HIDE DEF v
    <2>2. ~OwnedElsewhere(c, placed[c])
      BY <1>1, <1>4, NoOrderAssumption DEF IndexRefuses, Paid
    <2> QED BY <1>1, <1>4, <2>1, <2>2, FinEnds, FinWrites, Untouched DEF CreditServiceMargin
  <1> QED BY <1>0, <1>2, <1>3, <1>4 DEF ClaimSuccess

(* The steps that close a row, or hold it for the second report. *)
LEMMA FinClosesKeeps ==
    ASSUME SvcInv, NEW f \in Finalizers, CloseRefunded(f) \/ ScheduleRefund(f) \/ ClaimRefund(f)
    PROVE  SvcInv'
  <1> DEFINE w == fin[f]
  <1>0. PICK c \in Calls : c = w.row
    BY Types
  <1>1. /\ w \in FinType /\ Go(f, Idle) /\ margin' = margin /\ clawed' \in [Calls -> Nat]
        /\ UNCHANGED <<reserved, callVars, providerVars>> /\ reversals' \in {reversals, FinalReversal(c)}
    BY <1>0, Types, Untouched DEF CloseRefunded, ScheduleRefund, ClaimRefund
  <1>2. ASSUME NEW v \in TxnType, v.status # "SUCCESS", txn' = [txn EXCEPT ![c] = v] PROVE SvcInv'
    BY <1>1, <1>2, FinEnds, FinWrites
  <1>3. Terminal(w) \in TxnType /\ Terminal(w).status # "SUCCESS"
    BY <1>1 DEF Terminal, TxnType, FinType, TerminalFailed
  <1> DEFINE h == [status |-> "NEEDS_REVIEW", ref |-> w.ref, refund |-> "cooling"]
  <1>4. h \in TxnType /\ h.status # "SUCCESS"
    BY <1>1 DEF TxnType, FinType, NonTerminal
  <1>5. CASE UNCHANGED <<txn, reversals>>
    BY <1>1, <1>5, FinKeeps, IdleTyped DEF Sure, rowVars, CloseRefunded, ScheduleRefund, ClaimRefund
  <1>6. CASE txn' = [txn EXCEPT ![c] = Terminal(w)]
    BY <1>2, <1>3, <1>6
  <1>7. CASE txn' = [txn EXCEPT ![c] = h]
    BY <1>2, <1>4, <1>7
  <1> QED BY <1>0, <1>5, <1>6, <1>7 DEF CloseRefunded, ScheduleRefund, ClaimRefund

LEMMA CorrectKeeps == ASSUME SvcInv, NEW c \in Calls, CorrectTerminalToSuccess(c) PROVE SvcInv'
  <1> DEFINE v == [status |-> "SUCCESS", ref |-> placed[c], refund |-> "unset"]
  <1>1. Paid(c) /\ ~OwnedElsewhere(c, placed[c])
    BY Types DEF CorrectTerminalToSuccess, Paid, IndexRefuses
  <1>2. v \in TxnType /\ v.status = "SUCCESS" /\ v.ref = placed[c]
    BY <1>1 DEF TxnType, Paid
  <1>3. txn' = [txn EXCEPT ![c] = v]
    BY DEF CorrectTerminalToSuccess
  <1>4. clawed' \in [Calls -> Nat]
    <2>1. clawed \in [Calls -> Nat] /\ reversals[c] \subseteq {"call", "final"}
      BY Untouched
    <2>2. IsFiniteSet({"call", "final"})
      <3>1. IsFiniteSet({"call"}) /\ IsFiniteSet({"final"})
        BY FS_Singleton
      <3>2. {"call", "final"} = {"call"} \cup {"final"}
        OBVIOUS
      <3> QED BY <3>1, <3>2, FS_Union
    <2>3. Cardinality(reversals[c]) \in Nat
      BY <2>1, <2>2, FS_Subset, FS_CardinalityType
    <2> QED BY <2>1, <2>3 DEF CorrectTerminalToSuccess
  <1> HIDE DEF v
  <1>5. fin' \in [Finalizers -> FinType] /\ \A g \in Finalizers : fin'[g] = fin[g]
    BY Types DEF CorrectTerminalToSuccess
  <1> QED BY <1>1, <1>2, <1>3, <1>4, <1>5, FinWrites DEF CorrectTerminalToSuccess, CreditServiceMargin

LEMMA ElapseKeeps == ASSUME SvcInv, NEW c \in Calls, Elapse(c) PROVE SvcInv'
  <1> DEFINE v == [txn[c] EXCEPT !.refund = "due"]
  <1>1. v \in TxnType /\ v.status = txn[c].status /\ v.ref = txn[c].ref
    BY Types DEF TxnType
  <1>2. txn' = [txn EXCEPT ![c] = v]
    BY DEF Elapse
  <1> HIDE DEF v
  <1>3. v.status = "SUCCESS" => Paid(c) /\ v.ref = placed[c] /\ txn[c].status = "SUCCESS"
    BY <1>1, Types DEF CallTrue
  <1>4. /\ pc' \in [Calls -> {"idle", "reserve", "call", "wait", "settle", "dupcheck", "success",
                               "duplicate", "done", "dead"}]
        /\ pc' = pc /\ fin' \in [Finalizers -> FinType] /\ fin' = fin
        /\ UNCHANGED <<reserved, reversals, clawed, margin, answer, providerVars>>
    BY Types DEF Elapse, callVars, SvcInv, TypeOK
  <1>5. KeyDebitedOnce'
    BY <1>4, Untouched DEF KeyDebitedOnce
  <1> QED BY <1>1, <1>2, <1>3, <1>4, <1>5, Untouched, RowKeeps

LEMMA NextKeeps == SvcInv /\ [Next]_vars => SvcInv'
  <1> SUFFICES ASSUME SvcInv, [Next]_vars PROVE SvcInv' OBVIOUS
  <1>1. ASSUME NEW c \in Calls, CallStep(c) \/ Crash(c) \/ Elapse(c) \/ CorrectTerminalToSuccess(c)
        PROVE  SvcInv'
    BY <1>1, CallMoves, ReserveKeeps, SendKeeps, KeepPendingKeeps, SettleSuccessKeeps, CallFailsKeeps,
       ElapseKeeps, CorrectKeeps DEF CallStep
  <1>2. ASSUME NEW f \in Finalizers, FinStep(f) \/ Drop(f) PROVE SvcInv'
    BY <1>2, FinDecides, ClaimSuccessKeeps, FinClosesKeeps DEF FinStep
  <1>3. CASE UNCHANGED vars
    BY <1>3 DEF vars, SvcInv, TypeOK, Sure, CallTrue, Paid, OneSuccessPerOrder, KeyDebitedOnce
  <1> QED BY <1>1, <1>2, <1>3, DecideKeeps, FinStarts DEF Next

LEMMA ServiceInvariant == Spec => []SvcInv
  BY InitInv, NextKeeps, PTL DEF Spec

(* Every state is well typed. *)
THEOREM ServiceTyped == Spec => []TypeOK
  <1>1. SvcInv => TypeOK
    BY DEF SvcInv
  <1> QED BY <1>1, ServiceInvariant, PTL

(* transaction.ts debits under a key that names the client's: however many *)
(* clicks race on one key, one of them is debited.                         *)
THEOREM OneDebitPerKey == Spec => []KeyDebitedOnce
  <1>1. SvcInv => KeyDebitedOnce
    BY DEF SvcInv
  <1> QED BY <1>1, ServiceInvariant, PTL

(* The partial unique index and the pre-checks charge one provider order   *)
(* once, whoever of the call, the sweep and the desk settles it (RT0107).  *)
THEOREM OrdersChargedOnce == Spec => []OneSuccessPerOrder
  <1>1. SvcInv => OneSuccessPerOrder
    BY DEF SvcInv
  <1> QED BY <1>1, ServiceInvariant, PTL

(* No party writes SUCCESS for an order the provider did not execute. *)
THEOREM SuccessIsPaid == Spec => []SettledMeansPaid
  <1>1. SvcInv => SettledMeansPaid
    BY DEF SvcInv, CallTrue, Paid, SettledMeansPaid
  <1> QED BY <1>1, ServiceInvariant, PTL

-----------------------------------------------------------------------------
(* The money of a reserve, where every call has a key of its own and only  *)
(* the sweep and the desk finalize, which leave a running call alone.      *)

Disciplined == "prompt" \notin Triggers /\ \A c, d \in Calls : KeyOf[c] = KeyOf[d] => c = d

MoneyTrue(c) ==
    /\ InFlight(c) /\ pc[c] # "reserve" => c \in reserved /\ txn[c].status = "PROCESSING"
    /\ pc[c] \in {"idle", "reserve"} => c \notin reserved
    /\ c \notin reserved => txn[c].status = "none"
    /\ txn[c].status \in {"none"} \cup NonTerminal => reversals[c] = {} /\ clawed[c] = 0
    /\ txn[c].status \in TerminalFailed => (\E k : reversals[c] = {k}) /\ clawed[c] = 0
    /\ txn[c].status = "SUCCESS" => clawed[c] = Cardinality(reversals[c])

(* A finalizer works on a row whose call is over; one that found a reversal *)
(* has nothing to pay. *)
Later(w) ==
    /\ w.at # "idle" => ~InFlight(w.row) /\ w.row \in reserved
    /\ w.at = "close" => reversals[w.row] # {}

MoneyInv == (\A c \in Calls : MoneyTrue(c)) /\ \A f \in Finalizers : Later(fin[f])

(* What a step may do to the row of c and its reserve. *)
MoneyMoves(c) ==
    \/ txn'[c].status = txn[c].status /\ (c \in reserved' <=> c \in reserved)
    \/ c \notin reserved /\ c \in reserved' /\ txn'[c].status = "PROCESSING"
    \/ /\ c \in reserved /\ c \in reserved' /\ txn[c].status \in NonTerminal
       /\ txn'[c].status \in NonTerminal \cup TerminalFailed \cup {"SUCCESS"}
    \/ /\ c \in reserved /\ c \in reserved' /\ txn[c].status \in TerminalFailed
       /\ txn'[c].status = "SUCCESS"

LEMMA ReturnedIs ==
    ASSUME NEW c \in Calls, MoneyTrue(c), txn[c].status \in {"none", "SUCCESS"} \cup NonTerminal \cup TerminalFailed,
           Cardinality(reversals[c]) \in Nat
    PROVE  Returned(c) = IF txn[c].status \in TerminalFailed THEN 1 ELSE 0
  <1>1. CASE txn[c].status \in {"none"} \cup NonTerminal
    <2>1. Cardinality(reversals[c]) = 0
      BY <1>1, FS_EmptySet DEF MoneyTrue
    <2> QED BY <1>1, <2>1 DEF MoneyTrue, Returned, NonTerminal, TerminalFailed
  <1>2. CASE txn[c].status \in TerminalFailed
    <2>1. PICK k : reversals[c] = {k}
      BY <1>2 DEF MoneyTrue
    <2>2. Cardinality(reversals[c]) = 1
      BY <2>1, FS_Singleton, Zenon
    <2> QED BY <1>2, <2>2 DEF MoneyTrue, Returned
  <1>3. CASE txn[c].status = "SUCCESS"
    BY <1>3 DEF MoneyTrue, Returned, TerminalFailed
  <1> QED BY <1>1, <1>2, <1>3

LEMMA Counted ==
    ASSUME NEW S, S \subseteq {"call", "final"}
    PROVE  Cardinality(S) \in Nat
  <1>1. IsFiniteSet({"call"}) /\ IsFiniteSet({"final"})
    BY FS_Singleton
  <1>2. {"call", "final"} = {"call"} \cup {"final"}
    OBVIOUS
  <1>3. IsFiniteSet({"call", "final"})
    BY <1>1, <1>2, FS_Union
  <1> QED BY <1>3, FS_Subset, FS_CardinalityType

(* The state of a reserve, as Reserves counts it, is the row's status. *)
Purse(c) ==
    IF c \notin reserved THEN "none"
    ELSE IF txn[c].status \in TerminalFailed THEN "returned"
    ELSE IF txn[c].status = "SUCCESS" THEN "kept" ELSE "held"

LEMMA MoneyIsPurse == TypeOK /\ (\A c \in Calls : MoneyTrue(c)) => Money = [c \in Calls |-> Purse(c)]
  <1> SUFFICES ASSUME TypeOK, \A c \in Calls : MoneyTrue(c) PROVE Money = [c \in Calls |-> Purse(c)]
    OBVIOUS
  <1>1. ASSUME NEW c \in Calls PROVE Returned(c) = IF txn[c].status \in TerminalFailed THEN 1 ELSE 0
    <2>1. /\ txn[c].status \in {"none", "SUCCESS"} \cup NonTerminal \cup TerminalFailed
          /\ Cardinality(reversals[c]) \in Nat
      BY Counted DEF TypeOK
    <2> QED BY <2>1, ReturnedIs
  <1>2. \A c \in Calls : (Returned(c) > 0) <=> txn[c].status \in TerminalFailed
    BY <1>1
  <1> QED BY <1>2 DEF Money, Purse

LEMMA MoneyIsPurseNext ==
    (TypeOK /\ (\A c \in Calls : MoneyTrue(c)) => Money = [c \in Calls |-> Purse(c)])'
  BY MoneyIsPurse, PTL

(* A step that moves the money of c only. *)
LEMMA MoneySteps ==
    ASSUME SvcInv, SvcInv', MoneyInv, NEW c \in Calls,
           \A d \in Calls \ {c} : /\ txn'[d] = txn[d] /\ pc'[d] = pc[d] /\ clawed'[d] = clawed[d]
                                  /\ reversals'[d] = reversals[d] /\ (d \in reserved' <=> d \in reserved),
           MoneyTrue(c)', MoneyMoves(c),
           \A f \in Finalizers : Later(fin[f])'
    PROVE  MoneyInv' /\ [Reserves!Next]_Money
  <1>1. \A d \in Calls : MoneyTrue(d)'
    BY ZenonT(30) DEF MoneyInv, MoneyTrue, InFlight
  <1>2. Money = [d \in Calls |-> Purse(d)] /\ Money' = [d \in Calls |-> Purse(d)']
    <2>1. Money = [d \in Calls |-> Purse(d)]
      BY MoneyIsPurse DEF SvcInv, MoneyInv
    <2> QED BY <1>1, <2>1, MoneyIsPurseNext DEF SvcInv
  <1>3. \A d \in Calls \ {c} : Purse(d)' = Purse(d)
    BY DEF Purse
  <1>4. \/ Purse(c)' = Purse(c)
        \/ Purse(c) = "none" /\ Purse(c)' = "held"
        \/ Purse(c) = "held" /\ Purse(c)' \in {"kept", "returned"}
        \/ Purse(c) = "returned" /\ Purse(c)' = "kept"
    BY DEF MoneyMoves, Purse, NonTerminal, TerminalFailed
  <1> DEFINE to == Purse(c)'
  <1>5. Money' = [Money EXCEPT ![c] = to] /\ Money[c] = Purse(c)
    BY <1>2, <1>3
  <1>6. to = Purse(c) => Money' = Money
    BY <1>2, <1>3
  <1> HIDE DEF to
  <1>7. [Reserves!Next]_Money
    BY <1>4, <1>5, <1>6
       DEF to, Reserves!Next, Reserves!Change, Reserves!Hold, Reserves!Keep, Reserves!Return, Reserves!Correct
  <1>8. MoneyInv'
    BY <1>1 DEF MoneyInv
  <1> QED BY <1>7, <1>8

MoneyKept == MoneyInv' /\ [Reserves!Next]_Money

(* A finalizer moves. *)
LEMMA FinMoney ==
    ASSUME SvcInv, SvcInv', MoneyInv, NEW f \in Finalizers, NEW w \in FinType, Go(f, w), Later(w),
           UNCHANGED <<rowVars, callVars, providerVars>>
    PROVE  MoneyKept
  <1> USE DEF rowVars, callVars
  <1>1. PICK c \in Calls : TRUE
    BY CallsAssumption
  <1>2. MoneyTrue(c)' /\ MoneyMoves(c)
    BY DEF MoneyInv, MoneyTrue, MoneyMoves, InFlight
  <1>3. \A g \in Finalizers : fin'[g] = w \/ fin'[g] = fin[g]
    BY Types DEF Go
  <1>4. \A g \in Finalizers : Later(fin[g])'
    BY <1>3 DEF MoneyInv, Later, InFlight
  <1> QED BY <1>2, <1>4, MoneySteps DEF MoneyKept

(* A call moves. *)
LEMMA CallMoney ==
    ASSUME SvcInv, SvcInv', MoneyInv, NEW c \in Calls, NEW to, Move(c, to),
           UNCHANGED <<rowVars, fin>>,
           \/ to \in {"done", "dead"}
           \/ to = "reserve" /\ pc[c] = "idle"
           \/ InFlight(c) /\ pc[c] # "reserve" /\ to \in {"wait", "settle", "dupcheck", "success", "duplicate"}
    PROVE  MoneyKept
  <1> USE DEF rowVars
  <1>0. pc \in [Calls -> {"idle", "reserve", "call", "wait", "settle", "dupcheck", "success",
                          "duplicate", "done", "dead"}]
    BY DEF SvcInv, TypeOK
  <1>1. pc'[c] = to /\ \A d \in Calls \ {c} : pc'[d] = pc[d]
    BY <1>0 DEF Move
  <1>2. MoneyTrue(c)' /\ MoneyMoves(c)
    BY <1>1 DEF MoneyInv, MoneyTrue, MoneyMoves, InFlight
  <1>3. ASSUME NEW g \in Finalizers PROVE Later(fin[g])'
    <2>1. fin[g].row \in Calls /\ Later(fin[g])
      BY Types DEF MoneyInv
    <2>2. InFlight(fin[g].row)' => InFlight(fin[g].row) \/ (fin[g].row = c /\ pc[c] = "idle")
      BY <1>1, <2>1 DEF InFlight
    <2>3. pc[c] = "idle" => c \notin reserved
      BY DEF MoneyInv, MoneyTrue
    <2> QED BY <2>1, <2>2, <2>3 DEF Later
  <1> QED BY <1>1, <1>2, <1>3, MoneySteps DEF MoneyKept

(* A row is written with its money, by its call's last step or when the    *)
(* call is over. *)
LEMMA RowMoney ==
    ASSUME SvcInv, SvcInv', MoneyInv, NEW c \in Calls, c \in reserved, NEW v \in TxnType,
           txn' = [txn EXCEPT ![c] = v], reserved' = reserved,
           \A d \in Calls \ {c} : reversals'[d] = reversals[d] /\ clawed'[d] = clawed[d] /\ pc'[d] = pc[d],
           pc'[c] = "done" \/ (pc'[c] = pc[c] /\ ~InFlight(c)),
           reversals[c] \subseteq reversals'[c],
           \A f \in Finalizers : fin'[f] = fin[f] \/ fin'[f] = Idle,
           \/ v.status = txn[c].status /\ reversals'[c] = reversals[c] /\ clawed'[c] = clawed[c]
           \/ /\ txn[c].status \in NonTerminal /\ v.status \in {"SUCCESS"} \cup NonTerminal
              /\ reversals'[c] = reversals[c] /\ clawed'[c] = clawed[c]
           \/ /\ txn[c].status \in NonTerminal /\ v.status \in TerminalFailed
              /\ \E k : reversals'[c] = {k} /\ clawed'[c] = clawed[c]
           \/ /\ txn[c].status \in TerminalFailed /\ v.status = "SUCCESS"
              /\ clawed'[c] = Cardinality(reversals'[c])
    PROVE  MoneyKept
  <1>1. txn'[c] = v /\ \A d \in Calls \ {c} : txn'[d] = txn[d]
    BY Types
  <1>2. ~InFlight(c)' /\ pc'[c] \notin {"idle", "reserve"}
    BY DEF InFlight, MoneyInv, MoneyTrue
  <1>3. MoneyMoves(c)
    BY <1>1 DEF MoneyMoves
  <1>4. MoneyTrue(c)'
    <2>1. (txn[c].status \in {"none"} \cup NonTerminal => reversals[c] = {} /\ clawed[c] = 0)
          /\ (txn[c].status \in TerminalFailed => (\E k : reversals[c] = {k}) /\ clawed[c] = 0)
          /\ (txn[c].status = "SUCCESS" => clawed[c] = Cardinality(reversals[c]))
      BY DEF MoneyInv, MoneyTrue
    <2>2. v.status \in {"none"} \cup NonTerminal => reversals'[c] = {} /\ clawed'[c] = 0
      BY <2>1 DEF NonTerminal, TerminalFailed
    <2>3. v.status \in TerminalFailed => (\E k : reversals'[c] = {k}) /\ clawed'[c] = 0
      BY <2>1 DEF NonTerminal, TerminalFailed
    <2>4. v.status = "SUCCESS" => clawed'[c] = Cardinality(reversals'[c])
      BY <2>1, FS_EmptySet DEF NonTerminal, TerminalFailed
    <2> QED BY <1>1, <1>2, <2>2, <2>3, <2>4 DEF MoneyTrue
  <1>5. ASSUME NEW f \in Finalizers PROVE Later(fin[f])'
    <2>1. CASE fin'[f] = Idle
      BY <2>1, IdleTyped DEF Later
    <2>2. CASE fin'[f] = fin[f]
      <3>1. fin[f].row \in Calls /\ Later(fin[f])
        BY Types DEF MoneyInv
      <3>2. reversals[fin[f].row] # {} => reversals'[fin[f].row] # {}
        BY <3>1
      <3>3. ~InFlight(fin[f].row) => pc'[fin[f].row] \notin
              {"reserve", "call", "wait", "settle", "dupcheck", "success", "duplicate"}
        <4>1. CASE fin[f].row = c
          BY <4>1 DEF InFlight
        <4>2. CASE fin[f].row # c
          BY <3>1, <4>2 DEF InFlight
        <4> QED BY <4>1, <4>2
      <3> QED BY <2>2, <3>1, <3>2, <3>3 DEF Later, InFlight
    <2> QED BY <2>1, <2>2
  <1> QED BY <1>1, <1>3, <1>4, <1>5, MoneySteps DEF MoneyKept

-----------------------------------------------------------------------------
(* The steps of a call. *)

LEMMA CallMovesMoney ==
    ASSUME SvcInv, SvcInv', MoneyInv, NEW c \in Calls,
           Begin(c) \/ Send(c) \/ Answer(c) \/ DuplicateCheck(c) \/ Crash(c)
    PROVE  MoneyKept
  <1>1. CASE Begin(c)
    BY <1>1, CallMoney DEF Begin
  <1>2. CASE Send(c)
    BY <1>2, CallMoney DEF Send, InFlight
  <1>3. CASE Answer(c)
    <2>1. PICK a \in Answers(c) : Move(c, IF a = "paid" THEN "dupcheck" ELSE "settle")
      BY <1>3 DEF Answer
    <2> QED BY <1>3, <2>1, CallMoney DEF Answer, InFlight
  <1>4. CASE DuplicateCheck(c)
    BY <1>4, CallMoney DEF DuplicateCheck, InFlight
  <1>5. CASE Crash(c)
    BY <1>5, CallMoney DEF Crash
  <1> QED BY <1>1, <1>2, <1>3, <1>4, <1>5

(* A key of its own is taken by nobody: the row and the debit are created  *)
(* together.                                                               *)
LEMMA ReserveMoney ==
    ASSUME Disciplined, SvcInv, SvcInv', MoneyInv, NEW c \in Calls, Reserve(c)
    PROVE  MoneyKept
  <1>1. pc[c] = "reserve" /\ c \notin reserved /\ txn[c].status = "none" /\ reversals[c] = {} /\ clawed[c] = 0
    BY DEF Reserve, MoneyInv, MoneyTrue
  <1>2. ~KeyTaken(c)
    BY <1>1, Untouched DEF Disciplined, KeyTaken
  <1>3. CASE Move(c, "done") /\ UNCHANGED <<txn, reserved>>
    BY <1>3, CallMoney DEF Reserve, rowVars
  <1>4. CASE /\ reserved' = reserved \cup {c}
             /\ txn' = [txn EXCEPT ![c].status = "PROCESSING"]
             /\ Move(c, "call")
    <2>1. txn'[c].status = "PROCESSING" /\ \A d \in Calls \ {c} : txn'[d] = txn[d]
      BY <1>4, Types DEF TxnType
    <2>2. pc \in [Calls -> {"idle", "reserve", "call", "wait", "settle", "dupcheck", "success",
                            "duplicate", "done", "dead"}]
      BY DEF SvcInv, TypeOK
    <2>3. pc'[c] = "call" /\ \A d \in Calls \ {c} : pc'[d] = pc[d]
      BY <1>4, <2>2 DEF Move
    <2>4. UNCHANGED <<reversals, clawed, fin>>
      BY DEF Reserve
    <2>5. MoneyTrue(c)' /\ MoneyMoves(c)
      BY <1>1, <1>4, <2>1, <2>3, <2>4 DEF MoneyTrue, MoneyMoves, NonTerminal, TerminalFailed
    <2>6. ASSUME NEW f \in Finalizers PROVE Later(fin[f])'
      <3>1. fin[f].row \in Calls /\ Later(fin[f])
        BY Types DEF MoneyInv
      <3>2. fin[f].at # "idle" => fin[f].row # c
        BY <1>1, <3>1 DEF Later
      <3>3. fin[f].row # c => pc'[fin[f].row] = pc[fin[f].row]
        BY <2>3, <3>1
      <3> QED BY <1>4, <2>4, <3>1, <3>2, <3>3 DEF Later, InFlight
    <2> QED BY <1>4, <2>1, <2>3, <2>4, <2>5, <2>6, MoneySteps DEF MoneyKept
  <1> QED BY <1>2, <1>3, <1>4 DEF Reserve

(* A call in flight still holds its reserve. *)
LEMMA FlightHolds ==
    ASSUME MoneyInv, NEW c \in Calls, InFlight(c), pc[c] # "reserve"
    PROVE  c \in reserved /\ txn[c].status \in NonTerminal /\ reversals[c] = {} /\ clawed[c] = 0
  BY DEF MoneyInv, MoneyTrue, NonTerminal

LEMMA CallReturns ==
    ASSUME Disciplined, SvcInv, MoneyInv, NEW c \in Calls, InFlight(c), pc[c] # "reserve"
    PROVE  CallReversal(c) = [reversals EXCEPT ![c] = {"call"}]
  <1>1. reversals[c] = {}
    BY FlightHolds
  <1>2. ~ \E d \in Calls : KeyOf[d] = KeyOf[c] /\ "call" \in reversals[d]
    BY <1>1 DEF Disciplined
  <1>3. reversals[c] \cup {"call"} = {"call"}
    BY <1>1
  <1> QED BY <1>2, <1>3 DEF CallReversal

(* The last step of a call. *)
LEMMA EndMoney ==
    ASSUME Disciplined, SvcInv, SvcInv', MoneyInv, NEW c \in Calls, InFlight(c), pc[c] # "reserve",
           NEW v \in TxnType, txn' = [txn EXCEPT ![c] = v], Move(c, "done"),
           UNCHANGED <<reserved, clawed, fin>>,
           \/ v.status \in {"SUCCESS"} \cup NonTerminal /\ UNCHANGED reversals
           \/ v.status \in TerminalFailed /\ reversals' = CallReversal(c)
    PROVE  MoneyKept
  <1>1. pc \in [Calls -> {"idle", "reserve", "call", "wait", "settle", "dupcheck", "success",
                          "duplicate", "done", "dead"}]
        /\ reversals \in [Calls -> SUBSET {"call", "final"}]
    BY DEF SvcInv, TypeOK
  <1>2. pc'[c] = "done" /\ \A d \in Calls \ {c} : pc'[d] = pc[d]
    BY <1>1 DEF Move
  <1>3. c \in reserved /\ txn[c].status \in NonTerminal /\ reversals[c] = {}
    BY FlightHolds
  <1>4. CASE v.status \in {"SUCCESS"} \cup NonTerminal /\ UNCHANGED reversals
    BY <1>2, <1>3, <1>4, RowMoney
  <1>5. CASE v.status \in TerminalFailed /\ reversals' = CallReversal(c)
    <2>1. reversals'[c] = {"call"} /\ \A d \in Calls \ {c} : reversals'[d] = reversals[d]
      BY <1>1, <1>5, CallReturns
    <2>2. \E k : reversals'[c] = {k} /\ clawed'[c] = clawed[c]
      BY <2>1
    <2> QED BY <1>2, <1>3, <1>5, <2>1, <2>2, RowMoney
  <1> QED BY <1>4, <1>5

LEMMA CallEndsMoney ==
    ASSUME Disciplined, SvcInv, SvcInv', MoneyInv, NEW c \in Calls,
           KeepPending(c) \/ SettleSuccess(c) \/ RefundDuplicateLeg(c) \/ HoldForReview(c) \/ FailAndRefund(c)
    PROVE  MoneyKept
  <1>1. CASE KeepPending(c)
    <2> DEFINE v == [txn[c] EXCEPT !.ref = placed[c]]
    <2>1. InFlight(c) /\ pc[c] # "reserve"
      BY <1>1 DEF KeepPending, InFlight
    <2>2. v \in TxnType /\ v.status = txn[c].status
      BY Types DEF TxnType
    <2>3. txn' = [txn EXCEPT ![c] = v]
      BY <1>1 DEF KeepPending
    <2> HIDE DEF v
    <2>4. v.status \in NonTerminal
      BY <2>1, <2>2, FlightHolds
    <2> QED BY <1>1, <2>1, <2>2, <2>3, <2>4, EndMoney DEF KeepPending
  <1>2. CASE SettleSuccess(c)
    <2>1. InFlight(c) /\ pc[c] # "reserve" /\ (Paid(c) => placed[c] \in Orders)
      BY <1>2 DEF SettleSuccess, InFlight, Paid
    <2>2. CASE IndexRefuses(c, placed[c])
      BY <1>2, <2>1, <2>2, CallMoney DEF SettleSuccess
    <2>3. CASE ~IndexRefuses(c, placed[c])
      <3> DEFINE v == [txn[c] EXCEPT !.status = "SUCCESS", !.ref = placed[c]]
      <3>1. v \in TxnType /\ v.status = "SUCCESS"
        BY Types DEF TxnType
      <3>2. txn' = [txn EXCEPT ![c] = v]
        BY <1>2, <2>3 DEF SettleSuccess
      <3> HIDE DEF v
      <3> QED BY <1>2, <2>1, <2>3, <3>1, <3>2, EndMoney DEF SettleSuccess
    <2> QED BY <2>2, <2>3
  <1>3. CASE RefundDuplicateLeg(c)
    <2> DEFINE v == [txn[c] EXCEPT !.status = "REFUNDED", !.ref = placed[c]]
    <2>1. InFlight(c) /\ pc[c] # "reserve"
      BY <1>3 DEF RefundDuplicateLeg, InFlight
    <2>2. v \in TxnType /\ v.status \in TerminalFailed
      BY Types DEF TxnType, TerminalFailed
    <2>3. txn' = [txn EXCEPT ![c] = v]
      BY <1>3 DEF RefundDuplicateLeg
    <2> HIDE DEF v
    <2> QED BY <1>3, <2>1, <2>2, <2>3, EndMoney DEF RefundDuplicateLeg
  <1>4. CASE HoldForReview(c)
    <2> DEFINE v == [txn[c] EXCEPT !.status = "NEEDS_REVIEW"]
    <2>1. InFlight(c) /\ pc[c] # "reserve"
      BY <1>4 DEF HoldForReview, InFlight
    <2>2. v \in TxnType /\ v.status \in NonTerminal
      BY Types DEF TxnType, NonTerminal
    <2>3. txn' = [txn EXCEPT ![c] = v]
      BY <1>4 DEF HoldForReview
    <2> HIDE DEF v
    <2> QED BY <1>4, <2>1, <2>2, <2>3, EndMoney DEF HoldForReview
  <1>5. CASE FailAndRefund(c)
    <2> DEFINE v == [txn[c] EXCEPT !.status = "FAILED"]
    <2>1. InFlight(c) /\ pc[c] # "reserve"
      BY <1>5 DEF FailAndRefund, InFlight
    <2>2. v \in TxnType /\ v.status \in TerminalFailed
      BY Types DEF TxnType, TerminalFailed
    <2>3. txn' = [txn EXCEPT ![c] = v]
      BY <1>5 DEF FailAndRefund
    <2> HIDE DEF v
    <2> QED BY <1>5, <2>1, <2>2, <2>3, EndMoney DEF FailAndRefund
  <1> QED BY <1>1, <1>2, <1>3, <1>4, <1>5
-----------------------------------------------------------------------------
(* The finalizers and the desk. *)

(* Without the webhook and the button only a row whose call is over is     *)
(* picked up. *)
LEMMA FinPicks ==
    ASSUME Disciplined, SvcInv, SvcInv', MoneyInv, NEW f \in Finalizers, NEW c \in Calls,
           Poll(f, c) \/ ForceRefundNotFound(f, c)
    PROVE  MoneyKept
  <1>1. ~InFlight(c) /\ c \in reserved
    BY DEF Poll, ForceRefundNotFound, MayPoll, Disciplined, MoneyInv, MoneyTrue, NonTerminal
  <1>2. placed[c] \in Orders \cup {NoOrder} /\ txn[c].ref \in Orders \cup {NoOrder}
    BY Types DEF TxnType
  <1>3. CASE Poll(f, c)
    <2> DEFINE w == [at |-> IF order[placed[c]] = "SUCCESS" THEN "dupcheck" ELSE "gate",
                     row |-> c, ref |-> placed[c], terminal |-> "FAILED", after |-> "window"]
    <2>1. w \in FinType /\ w.at # "close" /\ w.row = c
      BY <1>2 DEF FinType, TerminalFailed
    <2>2. Go(f, w) /\ UNCHANGED <<rowVars, callVars, providerVars>>
      BY <1>3 DEF Poll
    <2> HIDE DEF w
    <2> QED BY <1>1, <2>1, <2>2, FinMoney DEF Later
  <1>4. CASE ForceRefundNotFound(f, c)
    <2> DEFINE w == [at |-> "gate", row |-> c, ref |-> txn[c].ref, terminal |-> "FAILED", after |-> "at once"]
    <2>1. w \in FinType /\ w.at # "close" /\ w.row = c
      BY <1>2 DEF FinType, TerminalFailed
    <2>2. Go(f, w) /\ UNCHANGED <<rowVars, callVars, providerVars>>
      BY <1>4 DEF ForceRefundNotFound
    <2> HIDE DEF w
    <2> QED BY <1>1, <2>1, <2>2, FinMoney DEF Later
  <1> QED BY <1>3, <1>4

(* A finalizer goes on with the row it has. *)
LEMMA FinGoesOn ==
    ASSUME SvcInv, SvcInv', MoneyInv, NEW f \in Finalizers, NEW w \in FinType, Go(f, w),
           fin[f].at # "idle", w.row = fin[f].row, w.at = "close" => reversals[w.row] # {},
           UNCHANGED <<rowVars, callVars, providerVars>>
    PROVE  MoneyKept
  <1>1. Later(w)
    BY DEF MoneyInv, Later
  <1> QED BY <1>1, FinMoney

LEMMA FinMovesMoney ==
    ASSUME SvcInv, SvcInv', MoneyInv, NEW f \in Finalizers,
           FinDuplicateCheck(f) \/ PriorReversal(f) \/ Window(f) \/ Drop(f)
    PROVE  MoneyKept
  <1>1. fin[f] \in FinType /\ fin[f].row \in Calls
    BY Types
  <1>2. CASE Go(f, Idle) /\ UNCHANGED <<rowVars, callVars, providerVars>>
    BY <1>2, IdleTyped, FinMoney DEF Later
  <1>3. ASSUME NEW s \in {"dupcheck", "success", "gate", "window", "schedule", "refund", "close"},
               fin[f].at # "idle", s = "close" => reversals[fin[f].row] # {},
               Go(f, [fin[f] EXCEPT !.at = s]), UNCHANGED <<rowVars, callVars, providerVars>>
        PROVE  MoneyKept
    <2> DEFINE w == [fin[f] EXCEPT !.at = s]
    <2>1. w \in FinType /\ w.row = fin[f].row /\ w.at = s
      BY <1>1 DEF FinType
    <2>2. Go(f, w)
      BY <1>3
    <2> HIDE DEF w
    <2> QED BY <1>3, <2>1, <2>2, FinGoesOn
  <1>4. CASE FinDuplicateCheck(f)
    <2>1. CASE OwnedElsewhere(fin[f].row, fin[f].ref)
      <3> DEFINE w == [fin[f] EXCEPT !.at = "gate", !.terminal = "REFUNDED", !.after = "at once"]
      <3>1. w \in FinType /\ w.row = fin[f].row /\ w.at = "gate"
        BY <1>1 DEF FinType, TerminalFailed
      <3>2. Go(f, w)
        BY <1>4, <2>1 DEF FinDuplicateCheck
      <3> HIDE DEF w
      <3> QED BY <1>4, <3>1, <3>2, FinGoesOn DEF FinDuplicateCheck
    <2>2. CASE ~OwnedElsewhere(fin[f].row, fin[f].ref)
      BY <1>3, <1>4, <2>2 DEF FinDuplicateCheck
    <2> QED BY <2>1, <2>2
  <1>5. CASE PriorReversal(f)
    <2>1. PICK s \in {"close", "refund", "window"} :
            /\ s = "close" => reversals[fin[f].row] # {}
            /\ Go(f, [fin[f] EXCEPT !.at = s])
      BY <1>5 DEF PriorReversal
    <2> QED BY <1>3, <1>5, <2>1 DEF PriorReversal
  <1>6. CASE Window(f)
    <2>1. AfterWindow(txn[fin[f].row]) \in {"idle", "schedule", "refund"}
      BY DEF AfterWindow
    <2> QED BY <1>2, <1>3, <1>6, <2>1 DEF Window
  <1>7. CASE Drop(f)
    BY <1>2, <1>7 DEF Drop
  <1> QED BY <1>4, <1>5, <1>6, <1>7

(* What a finalizer that writes its row knows of it. *)
LEMMA FinHas ==
    ASSUME SvcInv, MoneyInv, NEW f \in Finalizers, fin[f].at # "idle"
    PROVE  /\ fin[f].row \in Calls /\ fin[f].row \in reserved /\ ~InFlight(fin[f].row)
           /\ MoneyTrue(fin[f].row)
           /\ fin[f].at = "close" => reversals[fin[f].row] # {}
  BY Types DEF MoneyInv, Later

LEMMA Ended ==
    ASSUME SvcInv, NEW f \in Finalizers, Go(f, Idle)
    PROVE  \A g \in Finalizers : fin'[g] = fin[g] \/ fin'[g] = Idle
  BY Types DEF Go

(* The finalizer's last step, where only an open row's status changes. *)
LEMMA FinWritesMoney ==
    ASSUME SvcInv, SvcInv', MoneyInv, NEW f \in Finalizers, NEW c \in Calls, fin[f].at # "idle", fin[f].row = c,
           Go(f, Idle), NEW v \in TxnType, txn' = [txn EXCEPT ![c] = v],
           txn[c].status \in NonTerminal, v.status \in {"SUCCESS"} \cup NonTerminal,
           UNCHANGED <<reserved, reversals, clawed, callVars, providerVars>>
    PROVE  MoneyKept
  <1>1. c \in reserved /\ ~InFlight(c)
    BY FinHas
  <1>2. reversals' = reversals /\ clawed' = clawed /\ pc' = pc /\ reserved' = reserved
    BY DEF callVars
  <1>3. \A g \in Finalizers : fin'[g] = fin[g] \/ fin'[g] = Idle
    BY Ended
  <1>4. /\ \A d \in Calls \ {c} : reversals'[d] = reversals[d] /\ clawed'[d] = clawed[d] /\ pc'[d] = pc[d]
        /\ reversals[c] \subseteq reversals'[c] /\ pc'[c] = pc[c] /\ reversals'[c] = reversals[c]
        /\ clawed'[c] = clawed[c]
    BY <1>2
  <1> QED BY <1>1, <1>2, <1>3, <1>4, RowMoney

LEMMA FinEndsMoney ==
    ASSUME SvcInv, SvcInv', MoneyInv, NEW f \in Finalizers,
           ClaimSuccess(f) \/ CloseRefunded(f) \/ ScheduleRefund(f) \/ ClaimRefund(f)
    PROVE  MoneyKept
  <1>0. PICK c \in Calls : c = fin[f].row
    BY Types
  <1>1. /\ c \in reserved /\ ~InFlight(c) /\ MoneyTrue(c) /\ fin[f].at # "idle"
        /\ fin[f].at = "close" => reversals[c] # {}
    BY <1>0, FinHas DEF ClaimSuccess, CloseRefunded, ScheduleRefund, ClaimRefund
  <1>2. fin[f] \in FinType /\ fin[f].ref \in Orders \cup {NoOrder} /\ fin[f].terminal \in TerminalFailed
    BY Types DEF FinType
  <1>3. txn[c] \in TxnType /\ txn \in [Calls -> TxnType]
    BY <1>1, Types
  <1>4. CASE Go(f, Idle) /\ UNCHANGED <<txn, reserved, reversals, clawed, margin, callVars, providerVars>>
    BY <1>4, IdleTyped, FinMoney DEF Later, rowVars
  <1>5. CASE ClaimSuccess(f)
    <2>1. CASE txn[c].status \notin NonTerminal
      BY <1>0, <1>4, <1>5, <2>1 DEF ClaimSuccess, rowVars
    <2>2. CASE txn[c].status \in NonTerminal /\ IndexRefuses(c, fin[f].ref)
      <3> DEFINE w == [fin[f] EXCEPT !.at = "gate", !.terminal = "REFUNDED", !.after = "at once"]
      <3>1. w \in FinType /\ w.row = fin[f].row /\ w.at = "gate"
        BY <1>2 DEF FinType, TerminalFailed
      <3>2. Go(f, w) /\ UNCHANGED <<rowVars, callVars, providerVars>>
        BY <1>0, <1>5, <2>2 DEF ClaimSuccess
      <3> HIDE DEF w
      <3> QED BY <1>1, <3>1, <3>2, FinGoesOn
    <2>3. CASE txn[c].status \in NonTerminal /\ ~IndexRefuses(c, fin[f].ref)
      <3> DEFINE v == [status |-> "SUCCESS", ref |-> fin[f].ref, refund |-> "unset"]
      <3>1. v \in TxnType /\ v.status = "SUCCESS"
        BY <1>2 DEF TxnType
      <3>2. txn' = [txn EXCEPT ![c] = v] /\ Go(f, Idle)
            /\ UNCHANGED <<reserved, reversals, clawed, callVars, providerVars>>
        BY <1>0, <1>5, <2>3 DEF ClaimSuccess
      <3> HIDE DEF v
      <3> QED BY <1>0, <1>1, <2>3, <3>1, <3>2, FinWritesMoney
    <2> QED BY <2>1, <2>2, <2>3
  <1>6. CASE CloseRefunded(f)
    <2>1. txn[c].status \notin NonTerminal
      BY <1>0, <1>1, <1>6 DEF CloseRefunded, MoneyTrue
    <2> QED BY <1>0, <1>4, <1>6, <2>1 DEF CloseRefunded
  <1>7. CASE ScheduleRefund(f)
    <2>1. CASE txn[c].status \in NonTerminal /\ txn[c].refund = "unset"
      <3> DEFINE v == [status |-> "NEEDS_REVIEW", ref |-> fin[f].ref, refund |-> "cooling"]
      <3>1. v \in TxnType /\ v.status \in NonTerminal
        BY <1>2 DEF TxnType, NonTerminal
      <3>2. txn' = [txn EXCEPT ![c] = v] /\ Go(f, Idle)
            /\ UNCHANGED <<reserved, reversals, clawed, callVars, providerVars>>
        BY <1>0, <1>7, <2>1 DEF ScheduleRefund
      <3> HIDE DEF v
      <3> QED BY <1>0, <1>1, <2>1, <3>1, <3>2, FinWritesMoney
    <2>2. CASE ~(txn[c].status \in NonTerminal /\ txn[c].refund = "unset")
      BY <1>0, <1>4, <1>7, <2>2 DEF ScheduleRefund
    <2> QED BY <2>1, <2>2
  <1>8. CASE ClaimRefund(f)
    <2>1. CASE txn[c].status \in NonTerminal
      <3> DEFINE v == Terminal(fin[f])
      <3>1. v \in TxnType /\ v.status \in TerminalFailed
        BY <1>2 DEF Terminal, TxnType
      <3>2. txn' = [txn EXCEPT ![c] = v] /\ Go(f, Idle) /\ reversals' = [reversals EXCEPT ![c] = @ \cup {"final"}]
            /\ UNCHANGED <<reserved, clawed, callVars, providerVars>>
        BY <1>0, <1>8, <2>1 DEF ClaimRefund, FinalReversal
      <3> HIDE DEF v
      <3>3. reversals \in [Calls -> SUBSET {"call", "final"}] /\ reversals[c] = {}
        BY <1>1, <2>1, Untouched DEF MoneyTrue
      <3>4. reversals'[c] = {"final"} /\ \A d \in Calls \ {c} : reversals'[d] = reversals[d]
        BY <1>1, <3>2, <3>3
      <3>5. \E k : reversals'[c] = {k} /\ clawed'[c] = clawed[c]
        BY <3>2, <3>4
      <3>6. \A g \in Finalizers : fin'[g] = fin[g] \/ fin'[g] = Idle
        BY <3>2, Ended
      <3>7. /\ \A d \in Calls \ {c} : reversals'[d] = reversals[d] /\ clawed'[d] = clawed[d] /\ pc'[d] = pc[d]
            /\ pc'[c] = pc[c] /\ reversals[c] \subseteq reversals'[c] /\ reserved' = reserved
        BY <3>2, <3>3, <3>4 DEF callVars
      <3> QED BY <1>1, <2>1, <3>1, <3>2, <3>5, <3>6, <3>7, RowMoney
    <2>2. CASE txn[c].status \notin NonTerminal
      BY <1>0, <1>4, <1>8, <2>2 DEF ClaimRefund
    <2> QED BY <2>1, <2>2
  <1> QED BY <1>5, <1>6, <1>7, <1>8

(* The correction takes back all that was returned. *)
LEMMA CorrectMoney ==
    ASSUME SvcInv, SvcInv', MoneyInv, NEW c \in Calls, CorrectTerminalToSuccess(c)
    PROVE  MoneyKept
  <1>1. txn[c].status \in TerminalFailed /\ placed[c] \in Orders \cup {NoOrder}
    BY Types DEF CorrectTerminalToSuccess
  <1>2. c \in reserved /\ clawed[c] = 0 /\ ~InFlight(c)
    BY <1>1, FlightHolds DEF MoneyInv, MoneyTrue, TerminalFailed, NonTerminal, InFlight
  <1> DEFINE v == [status |-> "SUCCESS", ref |-> placed[c], refund |-> "unset"]
  <1>3. v \in TxnType /\ v.status = "SUCCESS"
    BY <1>1 DEF TxnType
  <1>4. txn' = [txn EXCEPT ![c] = v] /\ clawed' = [clawed EXCEPT ![c] = @ + Cardinality(reversals[c])]
        /\ UNCHANGED <<reserved, reversals, pc, fin>>
    BY DEF CorrectTerminalToSuccess, callVars
  <1> HIDE DEF v
  <1>5. clawed \in [Calls -> Nat] /\ Cardinality(reversals[c]) \in Nat
    BY Untouched, Counted
  <1>6. clawed'[c] = Cardinality(reversals'[c]) /\ \A d \in Calls \ {c} : clawed'[d] = clawed[d]
    BY <1>2, <1>4, <1>5
  <1> QED BY <1>1, <1>2, <1>3, <1>4, <1>6, RowMoney

(* Time passes over a row whose call is over. *)
LEMMA ElapseMoney ==
    ASSUME SvcInv, SvcInv', MoneyInv, NEW c \in Calls, Elapse(c)
    PROVE  MoneyKept
  <1> DEFINE v == [txn[c] EXCEPT !.refund = "due"]
  <1>1. v \in TxnType /\ v.status = txn[c].status
    BY Types DEF TxnType
  <1>2. txn' = [txn EXCEPT ![c] = v] /\ ~InFlight(c) /\ UNCHANGED <<reserved, reversals, clawed, pc, fin>>
    BY DEF Elapse, callVars
  <1> HIDE DEF v
  <1>3. CASE c \in reserved
    BY <1>1, <1>2, <1>3, RowMoney
  <1>4. CASE c \notin reserved
    <2>1. txn'[c] = v /\ \A d \in Calls \ {c} : txn'[d] = txn[d]
      BY <1>2, Types
    <2>2. MoneyTrue(c)' /\ MoneyMoves(c)
      BY <1>1, <1>2, <1>4, <2>1 DEF MoneyInv, MoneyTrue, MoneyMoves, InFlight
    <2>3. \A f \in Finalizers : Later(fin[f])'
      BY <1>2 DEF MoneyInv, Later, InFlight
    <2> QED BY <1>2, <2>1, <2>2, <2>3, MoneySteps DEF MoneyKept
  <1> QED BY <1>3, <1>4

(* Nothing of a reserve moves. *)
LEMMA MoneyStill ==
    ASSUME SvcInv, SvcInv', MoneyInv, UNCHANGED <<rowVars, callVars, fin>>
    PROVE  MoneyKept
  <1>1. PICK c \in Calls : TRUE
    BY CallsAssumption
  <1>2. MoneyTrue(c)' /\ MoneyMoves(c)
    BY DEF rowVars, callVars, MoneyInv, MoneyTrue, MoneyMoves, InFlight
  <1>3. \A f \in Finalizers : Later(fin[f])'
    BY DEF rowVars, callVars, MoneyInv, Later, InFlight
  <1> QED BY <1>2, <1>3, MoneySteps DEF MoneyKept, rowVars, callVars

LEMMA MoneyNext == ASSUME Disciplined, SvcInv, SvcInv', MoneyInv, [Next]_vars PROVE MoneyKept
  <1>1. ASSUME NEW c \in Calls, CallStep(c) \/ Crash(c) \/ Elapse(c) \/ CorrectTerminalToSuccess(c)
        PROVE  MoneyKept
    BY <1>1, CallMovesMoney, ReserveMoney, CallEndsMoney, ElapseMoney, CorrectMoney DEF CallStep
  <1>2. ASSUME NEW f \in Finalizers,
               \/ FinStep(f) \/ Drop(f)
               \/ \E c \in Calls : Poll(f, c) \/ ForceRefundNotFound(f, c)
        PROVE  MoneyKept
    BY <1>2, FinPicks, FinMovesMoney, FinEndsMoney DEF FinStep
  <1>3. ASSUME NEW o \in Orders, Decide(o) PROVE MoneyKept
    BY <1>3, MoneyStill DEF Decide
  <1>4. CASE UNCHANGED vars
    BY <1>4, MoneyStill DEF vars, rowVars, callVars
  <1> QED BY <1>1, <1>2, <1>3, <1>4 DEF Next

LEMMA MoneyInit == Init => MoneyInv /\ Money = [c \in Calls |-> "none"]
  <1> SUFFICES ASSUME Init PROVE MoneyInv /\ Money = [c \in Calls |-> "none"] OBVIOUS
  <1>1. MoneyInv
    BY IdleTyped DEF Init, MoneyInv, MoneyTrue, Later, NoRow, InFlight, NonTerminal, TerminalFailed
  <1>2. Money = [c \in Calls |-> "none"]
    BY DEF Init, Money
  <1> QED BY <1>1, <1>2

LEMMA MoneyMatches == MoneyInv /\ TypeOK => WalletMatchesStatus
  <1> SUFFICES ASSUME MoneyInv, TypeOK PROVE WalletMatchesStatus OBVIOUS
  <1>1. ASSUME NEW c \in Calls PROVE Returned(c) = IF txn[c].status \in TerminalFailed THEN 1 ELSE 0
    <2>1. /\ txn[c].status \in {"none", "SUCCESS"} \cup NonTerminal \cup TerminalFailed
          /\ Cardinality(reversals[c]) \in Nat
      BY Counted DEF TypeOK
    <2> QED BY <2>1, ReturnedIs DEF MoneyInv
  <1>2. \A c \in Calls \ reserved : txn[c].status \notin TerminalFailed
    BY DEF MoneyInv, MoneyTrue, TerminalFailed
  <1> QED BY <1>1, <1>2 DEF WalletMatchesStatus, DebitMatchesStatus, TypeOK

LEMMA MoneyInvariant == ASSUME Disciplined PROVE Spec => []MoneyInv
  <1>1. SvcInv /\ SvcInv' /\ MoneyInv /\ [Next]_vars => MoneyInv'
    BY MoneyNext DEF MoneyKept
  <1> QED BY <1>1, MoneyInit, ServiceInvariant, PTL DEF Spec

(* "No orphaned money" (transaction.ts): where keys are not reused and no  *)
(* webhook or button finalizes a running call, the wallet is credited back *)
(* for exactly the rows that failed, through any crash, race or clawback.  *)
THEOREM MoneyFollowsStatus == ASSUME Disciplined PROVE Spec => []WalletMatchesStatus
  <1>1. SvcInv => TypeOK
    BY DEF SvcInv
  <1> QED BY <1>1, MoneyInvariant, ServiceInvariant, MoneyMatches, PTL

(* And the runner with its finalizers implements Reserves: every reserve   *)
(* is held, then kept or returned, and a return is taken back at most once.*)
THEOREM ReservesAreMovedOnce == ASSUME Disciplined PROVE Spec => ReservesMoveOnce
  <1>1. Init => Reserves!Init
    BY MoneyInit DEF Reserves!Init
  <1>2. SvcInv /\ SvcInv' /\ MoneyInv /\ [Next]_vars => [Reserves!Next]_Money
    BY MoneyNext DEF MoneyKept
  <1> QED BY <1>1, <1>2, MoneyInvariant, ServiceInvariant, PTL DEF Spec, ReservesMoveOnce, Reserves!Spec

-----------------------------------------------------------------------------
(* The money of a reserve with the webhook and the button allowed: when    *)
(* the provider merges no two orders and a reused key is refunded by the   *)
(* finalizers alone.  Their refunds wait for a call to be over, and after  *)
(* that nothing reopens its row.                                           *)

OrdersApart == Twins = {} /\ \A c, d \in Calls : Rail[c] = "plain" /\ KeyOf[c] = KeyOf[d] => c = d

Over(c) == pc[c] \in {"done", "dead"}

OwnOrders == \A c, d \in Calls : placed[c] # NoOrder /\ placed[c] = placed[d] => c = d

RowTrue(c) ==
    /\ pc[c] # "duplicate"
    /\ pc[c] \in {"idle", "reserve"} => txn[c] = NoRow
    /\ txn[c].status = "none" => txn[c].refund = "unset"
    /\ txn[c].refund = "due" \/ reversals[c] # {} => Over(c)
    /\ txn[c].status \in {"none"} \cup NonTerminal => reversals[c] = {} /\ clawed[c] = 0
    /\ txn[c].status \in TerminalFailed => (\E k : reversals[c] = {k}) /\ clawed[c] = 0
    /\ txn[c].status = "SUCCESS" => clawed[c] = Cardinality(reversals[c])

MayRefund(c) == txn[c].status \in NonTerminal => txn[c].refund = "due" \/ placed[c] = NoOrder

(* A finalizer refunds what was due, or what the provider never saw. *)
FinTrue(w) ==
    /\ w.at # "idle" => txn[w.row].status # "none"
    /\ w.at # "idle" /\ w.after = "at once" => Over(w.row) /\ placed[w.row] = NoOrder
    /\ w.at = "refund" => Over(w.row) /\ MayRefund(w.row)
    /\ w.at = "close" => reversals[w.row] # {}

LoneInv == OwnOrders /\ (\A c \in Calls : RowTrue(c)) /\ \A f \in Finalizers : FinTrue(fin[f])

(* The step of RefundsAreDoubleChecked. *)
Checked ==
    \A c \in Calls :
       /\ HoldAndRecon(c)
       /\ reversals'[c] # reversals[c]
       => \/ txn[c].refund = "due"
          \/ placed[c] = NoOrder
          \/ OwnedElsewhere(c, placed[c])

LoneKept == LoneInv' /\ Checked

(* What a row keeps for the finalizers that work on it. *)
Lasts(c) ==
    /\ txn[c].status # "none" => txn'[c].status # "none"
    /\ Over(c) => Over(c)' /\ placed'[c] = placed[c]
    /\ Over(c) /\ txn'[c].status \in NonTerminal
         => txn[c].status \in NonTerminal /\ (txn[c].refund = "due" => txn'[c].refund = "due")
    /\ reversals[c] # {} => reversals'[c] # {}

LEMMA OwnedNowhere == ASSUME SvcInv, LoneInv, NEW c \in Calls PROVE ~OwnedElsewhere(c, placed[c])
  <1> SUFFICES ASSUME NEW d \in Calls \ {c}, txn[d].status = "SUCCESS", txn[d].ref = placed[c] PROVE FALSE
    BY DEF OwnedElsewhere
  <1>1. placed[d] \in Orders /\ placed[d] = placed[c]
    BY Types DEF CallTrue, Paid
  <1> QED BY <1>1, NoOrderAssumption DEF LoneInv, OwnOrders

(* A step of one row: it is enough to look at that row. *)
LEMMA LoneSteps ==
    ASSUME SvcInv, LoneInv, NEW c \in Calls, RowTrue(c)', Lasts(c), OwnOrders',
           \A d \in Calls \ {c} : /\ txn'[d] = txn[d] /\ reversals'[d] = reversals[d]
                                  /\ clawed'[d] = clawed[d] /\ pc'[d] = pc[d] /\ placed'[d] = placed[d],
           \A f \in Finalizers : fin'[f] = fin[f] \/ FinTrue(fin[f])'
    PROVE  LoneInv'
  <1>1. ASSUME NEW d \in Calls PROVE RowTrue(d)' /\ Lasts(d)
    <2>1. CASE d = c
      BY <2>1
    <2>2. CASE d # c
      BY ZenonT(30), <2>2 DEF LoneInv, RowTrue, Lasts, Over
    <2> QED BY <2>1, <2>2
  <1>2. ASSUME NEW f \in Finalizers PROVE FinTrue(fin[f])'
    <2>1. CASE FinTrue(fin[f])'
      BY <2>1
    <2>2. CASE fin'[f] = fin[f]
      <3>1. fin[f].row \in Calls /\ FinTrue(fin[f])
        BY Types DEF LoneInv
      <3>2. Lasts(fin[f].row)
        BY <1>1, <3>1
      <3> QED BY <2>2, <3>1, <3>2 DEF FinTrue, Lasts, MayRefund, Over
    <2> QED BY <2>1, <2>2
  <1> QED BY <1>1, <1>2 DEF LoneInv

(* A finalizer moves and the rows stay. *)
LEMMA LoneFin ==
    ASSUME SvcInv, LoneInv, NEW f \in Finalizers, NEW w \in FinType, Go(f, w), FinTrue(w),
           UNCHANGED <<rowVars, callVars, providerVars>>
    PROVE  LoneKept
  <1> USE DEF rowVars, callVars, providerVars
  <1>1. \A g \in Finalizers : fin'[g] = w \/ fin'[g] = fin[g]
    BY Types DEF Go
  <1>2. \A g \in Finalizers : FinTrue(fin[g])'
    BY ZenonT(30), <1>1 DEF LoneInv, FinTrue, MayRefund, Over
  <1>3. OwnOrders' /\ \A c \in Calls : RowTrue(c)'
    BY DEF LoneInv, OwnOrders, RowTrue, Over
  <1> QED BY <1>2, <1>3 DEF LoneKept, LoneInv, Checked

(* A call moves and its row stays. *)
LEMMA LoneCall ==
    ASSUME SvcInv, LoneInv, NEW c \in Calls, NEW to, Move(c, to), ~Over(c), UNCHANGED <<rowVars, fin>>,
           to # "duplicate", to \in {"idle", "reserve"} => pc[c] = "idle",
           \A d \in Calls \ {c} : placed'[d] = placed[d], OwnOrders'
    PROVE  LoneKept
  <1> USE DEF rowVars
  <1>0. pc \in [Calls -> {"idle", "reserve", "call", "wait", "settle", "dupcheck", "success",
                          "duplicate", "done", "dead"}]
    BY DEF SvcInv, TypeOK
  <1>1. pc'[c] = to /\ \A d \in Calls \ {c} : pc'[d] = pc[d]
    BY <1>0 DEF Move
  <1>2. RowTrue(c)' /\ Lasts(c)
    BY <1>1 DEF LoneInv, RowTrue, Lasts, Over
  <1>3. \A f \in Finalizers : fin'[f] = fin[f]
    OBVIOUS
  <1>4. \A d \in Calls \ {c} : /\ txn'[d] = txn[d] /\ reversals'[d] = reversals[d]
                               /\ clawed'[d] = clawed[d] /\ pc'[d] = pc[d] /\ placed'[d] = placed[d]
    BY <1>1
  <1>5. LoneInv'
    BY <1>2, <1>3, <1>4, LoneSteps
  <1> QED BY <1>5 DEF LoneKept, Checked

LEMMA SameOrders == ASSUME LoneInv, UNCHANGED placed PROVE OwnOrders'
  BY DEF LoneInv, OwnOrders

LEMMA CallMovesLone ==
    ASSUME SvcInv, LoneInv, NEW c \in Calls, Begin(c) \/ Answer(c) \/ DuplicateCheck(c) \/ Crash(c)
    PROVE  LoneKept
  <1>1. OwnOrders' /\ \A d \in Calls \ {c} : placed'[d] = placed[d]
    BY SameOrders DEF Begin, Answer, DuplicateCheck, Crash, providerVars
  <1>2. CASE Begin(c)
    BY <1>1, <1>2, LoneCall DEF Begin, Over
  <1>3. CASE Answer(c)
    <2>1. PICK a \in Answers(c) : Move(c, IF a = "paid" THEN "dupcheck" ELSE "settle")
      BY <1>3 DEF Answer
    <2> QED BY <1>1, <1>3, <2>1, LoneCall DEF Answer, Over
  <1>4. CASE DuplicateCheck(c)
    BY <1>1, <1>4, OwnedNowhere, LoneCall DEF DuplicateCheck, Over
  <1>5. CASE Crash(c)
    BY <1>1, <1>5, LoneCall DEF Crash, InFlight, Over
  <1> QED BY <1>2, <1>3, <1>4, <1>5

(* Nobody else holds an order that was not placed yet. *)
LEMMA SendLone == ASSUME OrdersApart, SvcInv, LoneInv, NEW c \in Calls, Send(c) PROVE LoneKept
  <1>1. placed \in [Calls -> Orders \cup {NoOrder}]
    BY DEF SvcInv, TypeOK
  <1>2. \A d \in Calls \ {c} : placed'[d] = placed[d]
    BY <1>1 DEF Send, providerVars
  <1>3. OwnOrders'
    <2>1. CASE UNCHANGED placed
      BY <2>1, SameOrders
    <2>2. ASSUME NEW o \in Orders, order[o] = "none", placed' = [placed EXCEPT ![c] = o] PROVE OwnOrders'
      <3>1. \A d \in Calls : placed[d] # o
        BY <2>2, Types, NoOrderAssumption DEF CallTrue
      <3> QED BY <1>1, <2>2, <3>1 DEF LoneInv, OwnOrders
    <2> QED BY <2>1, <2>2 DEF Send, OrdersApart, providerVars
  <1> QED BY <1>2, <1>3, LoneCall DEF Send, Over

(* A row is written with its money. *)
LEMMA LoneWrites ==
    ASSUME SvcInv, LoneInv, NEW c \in Calls, NEW v \in TxnType, txn' = [txn EXCEPT ![c] = v],
           \A d \in Calls \ {c} : /\ reversals'[d] = reversals[d] /\ clawed'[d] = clawed[d]
                                  /\ pc'[d] = pc[d],
           UNCHANGED placed, \A f \in Finalizers : fin'[f] = fin[f] \/ fin'[f] = Idle,
           RowTrue(c)', Lasts(c),
           HoldAndRecon(c) /\ reversals'[c] # reversals[c] => txn[c].refund = "due" \/ placed[c] = NoOrder
    PROVE  LoneKept
  <1>1. \A d \in Calls \ {c} : /\ txn'[d] = txn[d] /\ reversals'[d] = reversals[d]
                               /\ clawed'[d] = clawed[d] /\ pc'[d] = pc[d] /\ placed'[d] = placed[d]
    BY Types
  <1>2. \A f \in Finalizers : fin'[f] = fin[f] \/ FinTrue(fin[f])'
    BY IdleTyped DEF FinTrue
  <1>3. LoneInv'
    BY <1>1, <1>2, SameOrders, LoneSteps
  <1>4. Checked
    BY <1>1 DEF Checked
  <1> QED BY <1>3, <1>4 DEF LoneKept

LEMMA Places ==
    ASSUME SvcInv
    PROVE  pc \in [Calls -> {"idle", "reserve", "call", "wait", "settle", "dupcheck", "success",
                             "duplicate", "done", "dead"}]
  BY DEF SvcInv, TypeOK

(* A row whose call goes on was not refunded. *)
LEMMA Unrefunded ==
    ASSUME SvcInv, LoneInv, NEW c \in Calls, ~Over(c) \/ txn[c].status \in NonTerminal
    PROVE  reversals[c] = {} /\ clawed[c] = 0 /\ txn[c].status \notin TerminalFailed
  <1>1. RowTrue(c)
    BY DEF LoneInv
  <1>2. reversals[c] = {}
    BY <1>1 DEF RowTrue
  <1>3. txn[c].status \notin TerminalFailed
    BY <1>1, <1>2 DEF RowTrue
  <1>4. CASE txn[c].status = "SUCCESS"
    BY <1>1, <1>2, <1>3, <1>4, FS_EmptySet DEF RowTrue
  <1>5. CASE txn[c].status \in {"none"} \cup NonTerminal
    BY <1>1, <1>2, <1>3, <1>5 DEF RowTrue
  <1>6. txn[c].status \in {"none", "SUCCESS"} \cup NonTerminal \cup TerminalFailed
    BY Types DEF TxnType
  <1> QED BY <1>2, <1>3, <1>4, <1>5, <1>6

LEMMA ReserveLone == ASSUME SvcInv, LoneInv, NEW c \in Calls, Reserve(c) PROVE LoneKept
  <1>1. pc[c] = "reserve" /\ txn[c] = NoRow /\ ~Over(c)
    BY DEF Reserve, LoneInv, RowTrue, Over
  <1>2. reversals[c] = {} /\ clawed[c] = 0
    BY <1>1, Unrefunded
  <1>3. CASE Move(c, "done") /\ UNCHANGED <<txn, reserved>>
    <2>1. UNCHANGED <<rowVars, fin, providerVars>>
      BY <1>3 DEF Reserve, rowVars
    <2> QED BY <1>1, <1>3, <2>1, SameOrders, LoneCall DEF providerVars
  <1>4. CASE txn' = [txn EXCEPT ![c].status = "PROCESSING"] /\ Move(c, "call")
    <2> DEFINE v == [txn[c] EXCEPT !.status = "PROCESSING"]
    <2>1. v \in TxnType /\ v.status = "PROCESSING" /\ v.refund = "unset"
      BY <1>1, Types DEF TxnType, NonTerminal, NoRow
    <2>2. txn' = [txn EXCEPT ![c] = v]
      BY <1>4
    <2> HIDE DEF v
    <2>3. txn'[c] = v
      BY <2>2, Types
    <2>4. pc'[c] = "call" /\ \A d \in Calls \ {c} : pc'[d] = pc[d]
      BY <1>4, Places DEF Move
    <2>5. UNCHANGED <<reversals, clawed, fin, placed>>
      BY DEF Reserve, providerVars
    <2>6. RowTrue(c)' /\ Lasts(c)
      BY <1>1, <1>2, <2>1, <2>3, <2>4, <2>5 DEF RowTrue, Lasts, Over, NonTerminal, TerminalFailed
    <2> QED BY <2>1, <2>2, <2>4, <2>5, <2>6, LoneWrites
  <1> QED BY <1>3, <1>4 DEF Reserve

(* The last step of a call: it keeps its money or, on a rail without recon *)
(* where its key is its own, is refunded. *)
LEMMA EndLone ==
    ASSUME OrdersApart, SvcInv, LoneInv, NEW c \in Calls, pc[c] \in {"settle", "success"},
           NEW v \in TxnType, txn' = [txn EXCEPT ![c] = v], v.refund = txn[c].refund, Move(c, "done"),
           UNCHANGED <<reserved, clawed, fin, providerVars>>,
           \/ UNCHANGED reversals /\ v.status = txn[c].status
           \/ UNCHANGED reversals /\ v.status \in {"SUCCESS", "NEEDS_REVIEW"}
           \/ reversals' = CallReversal(c) /\ v.status = "FAILED" /\ ~HoldAndRecon(c)
    PROVE  LoneKept
  <1>1. ~Over(c) /\ reversals[c] = {} /\ clawed[c] = 0 /\ txn[c].refund # "due" /\ txn[c].status \notin TerminalFailed
    BY Unrefunded DEF Over, LoneInv, RowTrue
  <1>2. pc'[c] = "done" /\ \A d \in Calls \ {c} : pc'[d] = pc[d]
    BY Places DEF Move
  <1>3. txn'[c] = v
    BY Types
  <1>4. txn[c].status = "none" => txn[c].refund = "unset"
    BY DEF LoneInv, RowTrue
  <1>5. reversals' = CallReversal(c) /\ ~HoldAndRecon(c)
          => reversals'[c] = {"call"} /\ \A d \in Calls \ {c} : reversals'[d] = reversals[d]
    <2> SUFFICES ASSUME reversals' = CallReversal(c), ~HoldAndRecon(c)
                 PROVE  reversals'[c] = {"call"} /\ \A d \in Calls \ {c} : reversals'[d] = reversals[d]
      OBVIOUS
    <2>1. ~ \E d \in Calls : KeyOf[d] = KeyOf[c] /\ "call" \in reversals[d]
      BY <1>1 DEF HoldAndRecon, OrdersApart
    <2>2. reversals' = [reversals EXCEPT ![c] = @ \cup {"call"}]
      BY <2>1 DEF CallReversal
    <2>3. reversals \in [Calls -> SUBSET {"call", "final"}]
      BY Untouched
    <2> QED BY <1>1, <2>2, <2>3
  <1>6. Lasts(c)
    BY <1>1, <1>3 DEF Lasts
  <1>7. CASE UNCHANGED reversals
    <2>1. Cardinality(reversals'[c]) = 0
      BY <1>1, <1>7, FS_EmptySet
    <2>2. v.status \notin TerminalFailed /\ (v.status = "none" => v.refund = "unset")
      BY <1>1, <1>4, <1>5, <1>7 DEF TerminalFailed
    <2>3. RowTrue(c)'
      BY <1>1, <1>2, <1>3, <1>7, <2>1, <2>2 DEF RowTrue, Over
    <2> QED BY <1>2, <1>6, <1>7, <2>3, LoneWrites DEF providerVars
  <1>8. CASE reversals' = CallReversal(c) /\ v.status = "FAILED" /\ ~HoldAndRecon(c)
    <2>1. \E k : reversals'[c] = {k}
      BY <1>5, <1>8
    <2>2. RowTrue(c)'
      BY <1>1, <1>2, <1>3, <1>8, <2>1 DEF RowTrue, Over, NonTerminal, TerminalFailed
    <2> QED BY <1>2, <1>5, <1>6, <1>8, <2>2, LoneWrites DEF providerVars
  <1> QED BY <1>7, <1>8

LEMMA CallEndsLone ==
    ASSUME OrdersApart, SvcInv, LoneInv, NEW c \in Calls,
           KeepPending(c) \/ SettleSuccess(c) \/ RefundDuplicateLeg(c) \/ HoldForReview(c) \/ FailAndRefund(c)
    PROVE  LoneKept
  <1>1. CASE KeepPending(c)
    <2> DEFINE v == [txn[c] EXCEPT !.ref = placed[c]]
    <2>1. v \in TxnType /\ v.status = txn[c].status /\ v.refund = txn[c].refund
      BY Types DEF TxnType
    <2>2. txn' = [txn EXCEPT ![c] = v]
      BY <1>1 DEF KeepPending
    <2> HIDE DEF v
    <2> QED BY <1>1, <2>1, <2>2, EndLone DEF KeepPending
  <1>2. CASE SettleSuccess(c)
    <2> DEFINE v == [txn[c] EXCEPT !.status = "SUCCESS", !.ref = placed[c]]
    <2>1. v \in TxnType /\ v.status = "SUCCESS" /\ v.refund = txn[c].refund
      BY Types DEF TxnType
    <2>2. ~IndexRefuses(c, placed[c])
      BY OwnedNowhere DEF IndexRefuses
    <2>3. txn' = [txn EXCEPT ![c] = v]
      BY <1>2, <2>2 DEF SettleSuccess
    <2> HIDE DEF v
    <2> QED BY <1>2, <2>1, <2>2, <2>3, EndLone DEF SettleSuccess
  <1>3. CASE RefundDuplicateLeg(c)
    BY <1>3 DEF RefundDuplicateLeg, LoneInv, RowTrue
  <1>4. ASSUME NEW s \in {"NEEDS_REVIEW", "FAILED"}, txn' = [txn EXCEPT ![c].status = s],
               \/ HoldForReview(c) /\ s = "NEEDS_REVIEW"
               \/ FailAndRefund(c) /\ s = "FAILED"
        PROVE  LoneKept
    <2> DEFINE v == [txn[c] EXCEPT !.status = s]
    <2>1. v \in TxnType /\ v.status = s /\ v.refund = txn[c].refund
      BY Types DEF TxnType, NonTerminal, TerminalFailed
    <2>2. txn' = [txn EXCEPT ![c] = v]
      BY <1>4
    <2> HIDE DEF v
    <2> QED BY <1>4, <2>1, <2>2, EndLone DEF HoldForReview, FailAndRefund
  <1> QED BY <1>1, <1>2, <1>3, <1>4 DEF HoldForReview, FailAndRefund

-----------------------------------------------------------------------------
(* The finalizers and the desk. *)

(* A row with a state is one whose call has created it. *)
LEMMA OverWhenStill ==
    ASSUME SvcInv, LoneInv, NEW c \in Calls, ~InFlight(c), txn[c].status # "none" PROVE Over(c)
  <1>1. pc[c] \notin {"idle", "reserve"}
    BY DEF LoneInv, RowTrue, NoRow
  <1> QED BY <1>1, Places DEF InFlight, Over

LEMMA PicksLone ==
    ASSUME SvcInv, LoneInv, NEW f \in Finalizers, NEW c \in Calls, Poll(f, c) \/ ForceRefundNotFound(f, c)
    PROVE  LoneKept
  <1>1. placed[c] \in Orders \cup {NoOrder} /\ txn[c].ref \in Orders \cup {NoOrder}
    BY Types DEF TxnType
  <1>2. txn[c].status # "none"
    BY DEF Poll, ForceRefundNotFound, NonTerminal
  <1>3. CASE Poll(f, c)
    <2> DEFINE w == [at |-> IF order[placed[c]] = "SUCCESS" THEN "dupcheck" ELSE "gate",
                     row |-> c, ref |-> placed[c], terminal |-> "FAILED", after |-> "window"]
    <2>1. w \in FinType /\ w.at \in {"dupcheck", "gate"} /\ w.row = c /\ w.after = "window"
      BY <1>1 DEF FinType, TerminalFailed
    <2>2. Go(f, w) /\ UNCHANGED <<rowVars, callVars, providerVars>>
      BY <1>3 DEF Poll
    <2> HIDE DEF w
    <2> QED BY <1>2, <2>1, <2>2, LoneFin DEF FinTrue
  <1>4. CASE ForceRefundNotFound(f, c)
    <2> DEFINE w == [at |-> "gate", row |-> c, ref |-> txn[c].ref, terminal |-> "FAILED", after |-> "at once"]
    <2>1. w \in FinType /\ w.at = "gate" /\ w.row = c
      BY <1>1 DEF FinType, TerminalFailed
    <2>2. Go(f, w) /\ UNCHANGED <<rowVars, callVars, providerVars>>
      BY <1>4 DEF ForceRefundNotFound
    <2> HIDE DEF w
    <2>3. Over(c) /\ placed[c] = NoOrder
      BY <1>2, <1>4, OverWhenStill DEF ForceRefundNotFound
    <2> QED BY <1>2, <2>1, <2>2, <2>3, LoneFin DEF FinTrue
  <1> QED BY <1>3, <1>4

(* A finalizer goes on with the row it has. *)
LEMMA GoesOnLone ==
    ASSUME SvcInv, LoneInv, NEW f \in Finalizers, fin[f].at # "idle",
           NEW at \in {"dupcheck", "success", "gate", "close", "window", "schedule", "refund"},
           Go(f, [fin[f] EXCEPT !.at = at]), UNCHANGED <<rowVars, callVars, providerVars>>,
           at = "refund" => Over(fin[f].row) /\ MayRefund(fin[f].row),
           at = "close" => reversals[fin[f].row] # {}
    PROVE  LoneKept
  <1> DEFINE w == [fin[f] EXCEPT !.at = at]
  <1>1. w \in FinType /\ w.at = at /\ w.row = fin[f].row /\ w.after = fin[f].after
    BY Types DEF FinType
  <1>2. Go(f, w)
    OBVIOUS
  <1> HIDE DEF w
  <1>3. FinTrue(fin[f])
    BY DEF LoneInv
  <1>4. FinTrue(w)
    BY <1>1, <1>3 DEF FinTrue
  <1> QED BY <1>1, <1>2, <1>4, LoneFin

LEMMA StopsLone ==
    ASSUME SvcInv, LoneInv, NEW f \in Finalizers, Go(f, Idle), UNCHANGED <<rowVars, callVars, providerVars>>
    PROVE  LoneKept
  BY IdleTyped, LoneFin DEF FinTrue

LEMMA FinMovesLone ==
    ASSUME SvcInv, LoneInv, NEW f \in Finalizers, FinDuplicateCheck(f) \/ PriorReversal(f) \/ Window(f) \/ Drop(f)
    PROVE  LoneKept
  <1>1. fin[f].row \in Calls /\ FinTrue(fin[f]) /\ Sure(fin[f]) /\ fin[f].after \in {"window", "at once"}
    BY Types DEF LoneInv, FinType
  <1>2. CASE FinDuplicateCheck(f)
    <2>1. ~OwnedElsewhere(fin[f].row, fin[f].ref)
      BY <1>1, <1>2, OwnedNowhere DEF FinDuplicateCheck, Sure
    <2> QED BY <1>2, <2>1, GoesOnLone DEF FinDuplicateCheck
  <1>3. CASE PriorReversal(f)
    <2>1. CASE reversals[fin[f].row] # {}
      BY <1>3, <2>1, GoesOnLone DEF PriorReversal
    <2>2. CASE reversals[fin[f].row] = {} /\ fin[f].after = "at once"
      <3>1. Over(fin[f].row) /\ MayRefund(fin[f].row)
        BY <1>1, <1>3, <2>2 DEF PriorReversal, FinTrue, MayRefund
      <3> QED BY <1>3, <2>2, <3>1, GoesOnLone DEF PriorReversal
    <2>3. CASE reversals[fin[f].row] = {} /\ fin[f].after # "at once"
      BY <1>3, <2>3, GoesOnLone DEF PriorReversal
    <2> QED BY <2>1, <2>2, <2>3
  <1>4. CASE Window(f)
    <2> DEFINE next == AfterWindow(txn[fin[f].row])
    <2>1. next \in {"idle", "schedule", "refund"}
          /\ (next = "refund" => txn[fin[f].row].refund \notin {"cooling", "unset"})
      BY DEF AfterWindow
    <2>2. txn[fin[f].row].refund \in {"unset", "cooling", "due"}
      BY <1>1, Types DEF TxnType
    <2>3. fin[f].at = "window" /\ Go(f, IF next = "idle" THEN Idle ELSE [fin[f] EXCEPT !.at = next])
          /\ UNCHANGED <<rowVars, callVars, providerVars>>
      BY <1>4 DEF Window
    <2> HIDE DEF next
    <2>4. CASE next = "idle"
      BY <2>3, <2>4, StopsLone
    <2>5. CASE next = "schedule"
      BY <2>3, <2>5, GoesOnLone
    <2>6. CASE next = "refund"
      <3>1. Over(fin[f].row) /\ MayRefund(fin[f].row)
        BY <1>1, <2>1, <2>2, <2>6 DEF LoneInv, RowTrue, MayRefund
      <3> QED BY <2>3, <2>6, <3>1, GoesOnLone
    <2> QED BY <2>1, <2>4, <2>5, <2>6
  <1>5. CASE Drop(f)
    BY <1>5, StopsLone DEF Drop
  <1> QED BY <1>2, <1>3, <1>4, <1>5

(* A finalizer or the desk writes a row. *)
LEMMA FinWritesLone ==
    ASSUME SvcInv, LoneInv, NEW c \in Calls, NEW v \in TxnType, txn' = [txn EXCEPT ![c] = v],
           txn[c].status # "none", v.status # "none", v.refund = "due" => Over(c),
           v.status \in NonTerminal /\ txn[c].refund = "due" => v.refund = "due",
           \A d \in Calls \ {c} : reversals'[d] = reversals[d] /\ clawed'[d] = clawed[d],
           \A f \in Finalizers : fin'[f] = fin[f] \/ fin'[f] = Idle, UNCHANGED <<pc, placed>>,
           \/ v.status = txn[c].status /\ UNCHANGED <<reversals, clawed>>
           \/ v.status \in NonTerminal \cup {"SUCCESS"} /\ txn[c].status \in NonTerminal
              /\ UNCHANGED <<reversals, clawed>>
           \/ v.status \in TerminalFailed /\ txn[c].status \in NonTerminal
              /\ reversals' = FinalReversal(c) /\ UNCHANGED clawed /\ Over(c) /\ MayRefund(c)
           \/ v.status = "SUCCESS" /\ txn[c].status \in TerminalFailed
              /\ UNCHANGED reversals /\ clawed' = [clawed EXCEPT ![c] = @ + Cardinality(reversals[c])]
    PROVE  LoneKept
  <1>1. txn'[c] = v
    BY Types
  <1>2. RowTrue(c)
    BY DEF LoneInv
  <1>3. pc[c] \notin {"idle", "reserve"}
    BY <1>2 DEF RowTrue, NoRow
  <1>4. txn[c].status \in NonTerminal => reversals[c] = {} /\ clawed[c] = 0
    BY <1>2 DEF RowTrue
  <1>5. CASE v.status \in NonTerminal \cup {"SUCCESS"} /\ txn[c].status \in NonTerminal
             /\ UNCHANGED <<reversals, clawed>>
    <2>1. Cardinality(reversals'[c]) = 0
      BY <1>4, <1>5, FS_EmptySet
    <2>2. RowTrue(c)'
      BY <1>1, <1>2, <1>3, <1>4, <1>5, <2>1 DEF RowTrue, Over, NonTerminal, TerminalFailed
    <2>3. Lasts(c)
      BY <1>1, <1>5 DEF Lasts, Over, NonTerminal
    <2> QED BY <1>5, <2>2, <2>3, LoneWrites
  <1>6. CASE v.status \in TerminalFailed /\ txn[c].status \in NonTerminal
             /\ reversals' = FinalReversal(c) /\ UNCHANGED clawed /\ Over(c) /\ MayRefund(c)
    <2>1. reversals'[c] = {"final"}
      BY <1>4, <1>6, Untouched DEF FinalReversal
    <2>2. \E k : reversals'[c] = {k}
      BY <2>1
    <2>3. RowTrue(c)'
      BY <1>1, <1>2, <1>3, <1>4, <1>6, <2>2 DEF RowTrue, Over, NonTerminal, TerminalFailed
    <2>4. Lasts(c)
      BY <1>1, <1>6, <2>1 DEF Lasts, Over, NonTerminal, TerminalFailed
    <2> QED BY <1>6, <2>3, <2>4, LoneWrites DEF MayRefund
  <1>7. CASE v.status = "SUCCESS" /\ txn[c].status \in TerminalFailed
             /\ UNCHANGED reversals /\ clawed' = [clawed EXCEPT ![c] = @ + Cardinality(reversals[c])]
    <2>1. Cardinality(reversals[c]) \in Nat /\ clawed[c] = 0
      BY <1>2, <1>7, Counted, Untouched DEF RowTrue
    <2>2. clawed'[c] = Cardinality(reversals'[c])
      BY <1>7, <2>1, Untouched
    <2>3. RowTrue(c)'
      BY <1>1, <1>2, <1>3, <1>7, <2>2 DEF RowTrue, Over, NonTerminal, TerminalFailed
    <2>4. Lasts(c)
      BY <1>1, <1>7 DEF Lasts, Over, NonTerminal
    <2> QED BY <1>7, <2>3, <2>4, LoneWrites
  <1>8. CASE v.status = txn[c].status /\ UNCHANGED <<reversals, clawed>>
    <2>1. RowTrue(c)'
      BY <1>1, <1>2, <1>3, <1>8 DEF RowTrue, Over
    <2>2. Lasts(c)
      BY <1>1, <1>8 DEF Lasts, Over
    <2> QED BY <1>8, <2>1, <2>2, LoneWrites
  <1> QED BY <1>5, <1>6, <1>7, <1>8

LEMMA FinEndsLone ==
    ASSUME SvcInv, LoneInv, NEW f \in Finalizers,
           ClaimSuccess(f) \/ CloseRefunded(f) \/ ScheduleRefund(f) \/ ClaimRefund(f)
    PROVE  LoneKept
  <1> DEFINE c == fin[f].row
  <1>1. c \in Calls /\ FinTrue(fin[f]) /\ Sure(fin[f]) /\ RowTrue(c) /\ txn[c] \in TxnType
        /\ fin[f].ref \in Orders \cup {NoOrder} /\ fin[f].terminal \in TerminalFailed
    BY Types DEF LoneInv, FinType
  <1>2. txn[c].status # "none"
    BY <1>1 DEF FinTrue, ClaimSuccess, CloseRefunded, ScheduleRefund, ClaimRefund
  <1>3. Go(f, Idle) => \A g \in Finalizers : fin'[g] = fin[g] \/ fin'[g] = Idle
    BY Types DEF Go
  <1> HIDE DEF c
  <1>4. CASE ClaimSuccess(f)
    <2>1. ~IndexRefuses(c, fin[f].ref)
      BY <1>1, <1>4, OwnedNowhere DEF c, ClaimSuccess, Sure, IndexRefuses
    <2>2. CASE txn[c].status \notin NonTerminal
      BY <1>4, <2>2, StopsLone DEF c, ClaimSuccess
    <2>3. CASE txn[c].status \in NonTerminal
      <3> DEFINE v == [status |-> "SUCCESS", ref |-> fin[f].ref, refund |-> "unset"]
      <3>1. v \in TxnType /\ v.status = "SUCCESS" /\ v.refund = "unset"
        BY <1>1 DEF TxnType
      <3>2. txn' = [txn EXCEPT ![c] = v] /\ Go(f, Idle) /\ UNCHANGED <<reversals, clawed, pc, placed>>
        BY <1>4, <2>1, <2>3 DEF c, ClaimSuccess, callVars, providerVars
      <3> HIDE DEF v
      <3> QED BY <1>1, <1>2, <1>3, <2>3, <3>1, <3>2, FinWritesLone DEF NonTerminal
    <2> QED BY <2>2, <2>3
  <1>5. CASE CloseRefunded(f)
    <2>1. txn[c].status \notin NonTerminal
      BY <1>1, <1>5 DEF c, CloseRefunded, FinTrue, RowTrue
    <2> QED BY <1>5, <2>1, StopsLone DEF c, CloseRefunded, rowVars
  <1>6. CASE ScheduleRefund(f)
    <2>1. CASE ~(txn[c].status \in NonTerminal /\ txn[c].refund = "unset")
      BY <1>6, <2>1, StopsLone DEF c, ScheduleRefund, rowVars
    <2>2. CASE txn[c].status \in NonTerminal /\ txn[c].refund = "unset"
      <3> DEFINE v == [status |-> "NEEDS_REVIEW", ref |-> fin[f].ref, refund |-> "cooling"]
      <3>1. v \in TxnType /\ v.status = "NEEDS_REVIEW" /\ v.refund = "cooling"
        BY <1>1 DEF TxnType, NonTerminal
      <3>2. txn' = [txn EXCEPT ![c] = v] /\ Go(f, Idle) /\ UNCHANGED <<reversals, clawed, pc, placed>>
        BY <1>6, <2>2 DEF c, ScheduleRefund, callVars, providerVars
      <3> HIDE DEF v
      <3> QED BY <1>1, <1>2, <1>3, <2>2, <3>1, <3>2, FinWritesLone DEF NonTerminal
    <2> QED BY <2>1, <2>2
  <1>7. CASE ClaimRefund(f)
    <2>1. CASE txn[c].status \notin NonTerminal
      BY <1>7, <2>1, StopsLone DEF c, ClaimRefund, rowVars
    <2>2. CASE txn[c].status \in NonTerminal
      <3> DEFINE v == Terminal(fin[f])
      <3>1. v \in TxnType /\ v.status \in TerminalFailed /\ v.refund = "unset"
        BY <1>1 DEF TxnType, Terminal
      <3>2. /\ txn' = [txn EXCEPT ![c] = v] /\ Go(f, Idle) /\ reversals' = FinalReversal(c)
            /\ UNCHANGED <<clawed, pc, placed>>
        BY <1>7, <2>2 DEF c, ClaimRefund, callVars, providerVars
      <3> HIDE DEF v
      <3>3. \A d \in Calls \ {c} : reversals'[d] = reversals[d] /\ clawed'[d] = clawed[d]
        BY <3>2, Untouched DEF FinalReversal
      <3>4. Over(c) /\ MayRefund(c)
        BY <1>1, <1>7 DEF c, ClaimRefund, FinTrue
      <3>5. v.status \notin NonTerminal /\ v.status # "none"
        BY <3>1 DEF NonTerminal, TerminalFailed
      <3> QED BY <1>1, <1>2, <1>3, <2>2, <3>1, <3>2, <3>3, <3>4, <3>5, FinWritesLone
    <2> QED BY <2>1, <2>2
  <1> QED BY <1>4, <1>5, <1>6, <1>7

LEMMA CorrectLone == ASSUME SvcInv, LoneInv, NEW c \in Calls, CorrectTerminalToSuccess(c) PROVE LoneKept
  <1> DEFINE v == [status |-> "SUCCESS", ref |-> placed[c], refund |-> "unset"]
  <1>1. v \in TxnType /\ v.status = "SUCCESS" /\ v.refund = "unset"
    BY Types DEF TxnType
  <1>2. /\ txn' = [txn EXCEPT ![c] = v] /\ txn[c].status \in TerminalFailed
        /\ clawed' = [clawed EXCEPT ![c] = @ + Cardinality(reversals[c])]
        /\ UNCHANGED <<reversals, pc, placed, fin>>
    BY DEF CorrectTerminalToSuccess, callVars, providerVars
  <1> HIDE DEF v
  <1>3. \A d \in Calls \ {c} : clawed'[d] = clawed[d]
    BY <1>2, Untouched
  <1>4. txn[c].status # "none" /\ v.status \notin NonTerminal
    BY <1>1, <1>2 DEF TerminalFailed, NonTerminal
  <1> QED BY <1>1, <1>2, <1>3, <1>4, FinWritesLone

LEMMA ElapseLone == ASSUME SvcInv, LoneInv, NEW c \in Calls, Elapse(c) PROVE LoneKept
  <1> DEFINE v == [txn[c] EXCEPT !.refund = "due"]
  <1>1. v \in TxnType /\ v.status = txn[c].status /\ v.refund = "due"
    BY Types DEF TxnType
  <1>2. txn' = [txn EXCEPT ![c] = v] /\ UNCHANGED <<reversals, clawed, pc, placed, fin>>
    BY DEF Elapse, callVars, providerVars
  <1> HIDE DEF v
  <1>3. txn[c].status # "none"
    BY DEF Elapse, LoneInv, RowTrue
  <1>4. Over(c)
    BY <1>3, OverWhenStill DEF Elapse
  <1> QED BY <1>1, <1>2, <1>3, <1>4, FinWritesLone

LEMMA LoneStill == ASSUME LoneInv, UNCHANGED <<txn, reversals, clawed, pc, fin, placed>> PROVE LoneKept
  BY DEF LoneKept, LoneInv, Checked, OwnOrders, RowTrue, FinTrue, MayRefund, Over

LEMMA LoneNext == ASSUME OrdersApart, SvcInv, LoneInv, [Next]_vars PROVE LoneKept
  <1>1. ASSUME NEW c \in Calls, CallStep(c) \/ Crash(c) \/ Elapse(c) \/ CorrectTerminalToSuccess(c)
        PROVE  LoneKept
    BY <1>1, CallMovesLone, SendLone, ReserveLone, CallEndsLone, ElapseLone, CorrectLone DEF CallStep
  <1>2. ASSUME NEW f \in Finalizers,
               \/ FinStep(f) \/ Drop(f)
               \/ \E c \in Calls : Poll(f, c) \/ ForceRefundNotFound(f, c)
        PROVE  LoneKept
    BY <1>2, PicksLone, FinMovesLone, FinEndsLone DEF FinStep
  <1>3. ASSUME NEW o \in Orders, Decide(o) PROVE LoneKept
    BY <1>3, LoneStill DEF Decide, rowVars, callVars
  <1>4. CASE UNCHANGED vars
    BY <1>4, LoneStill DEF vars
  <1> QED BY <1>1, <1>2, <1>3, <1>4 DEF Next

LEMMA LoneInvariant == ASSUME OrdersApart PROVE Spec => []LoneInv
  <1>1. Init => LoneInv
    <2> SUFFICES ASSUME Init PROVE LoneInv OBVIOUS
    <2>1. OwnOrders /\ \A c \in Calls : RowTrue(c)
      BY DEF Init, OwnOrders, RowTrue, Over, NoRow, NonTerminal, TerminalFailed
    <2>2. \A f \in Finalizers : fin[f].at = "idle"
      BY IdleTyped DEF Init
    <2> QED BY <2>1, <2>2 DEF LoneInv, FinTrue
  <1>2. SvcInv /\ LoneInv /\ [Next]_vars => LoneInv'
    BY LoneNext DEF LoneKept
  <1> QED BY <1>1, <1>2, ServiceInvariant, PTL DEF Spec

LEMMA DebitsMatchRows == SvcInv /\ LoneInv => DebitMatchesStatus
  <1> SUFFICES ASSUME SvcInv, LoneInv, NEW c \in reserved
               PROVE  Returned(c) = IF txn[c].status \in TerminalFailed THEN 1 ELSE 0
    BY DEF DebitMatchesStatus
  <1>1. c \in Calls /\ RowTrue(c) /\ txn[c].status \in {"none", "SUCCESS"} \cup NonTerminal \cup TerminalFailed
    BY Untouched, Types DEF LoneInv, TxnType
  <1>2. Cardinality(reversals[c]) \in Nat
    BY <1>1, Counted, Untouched
  <1>3. CASE txn[c].status \in {"none"} \cup NonTerminal
    BY <1>1, <1>3, FS_EmptySet DEF RowTrue, Returned, NonTerminal, TerminalFailed
  <1>4. CASE txn[c].status \in TerminalFailed
    <2>1. PICK k : reversals[c] = {k}
      BY <1>1, <1>4 DEF RowTrue
    <2>2. Cardinality(reversals[c]) = 1
      BY <2>1, FS_Singleton, Zenon
    <2> QED BY <1>1, <1>4, <2>2 DEF RowTrue, Returned
  <1>5. CASE txn[c].status = "SUCCESS"
    BY <1>1, <1>2, <1>5 DEF RowTrue, Returned, TerminalFailed
  <1> QED BY <1>1, <1>3, <1>4, <1>5

(* "No orphaned money" for the debited rows, whatever webhooks, buttons    *)
(* and sweeps do to a call that still runs: while no two orders are merged *)
(* and reused keys stay on rails with recon, a row that was debited is     *)
(* credited back exactly when it has failed.                               *)
THEOREM DebitsFollowStatus == ASSUME OrdersApart PROVE Spec => []DebitMatchesStatus
  BY LoneInvariant, ServiceInvariant, DebitsMatchRows, PTL

(* finalize.ts refunds on no first report: under the same conditions money *)
(* goes back on a recon rail only when the refund window was over, or the  *)
(* provider never had the order.                                           *)
THEOREM RefundsAreCheckedTwice == ASSUME OrdersApart PROVE Spec => RefundsAreDoubleChecked
  <1>1. SvcInv /\ LoneInv /\ [Next]_vars => [Checked]_vars
    BY LoneNext DEF LoneKept
  <1>2. Spec => [][Checked]_vars
    BY <1>1, LoneInvariant, ServiceInvariant, PTL DEF Spec
  <1> QED BY <1>2 DEF RefundsAreDoubleChecked, Checked
=============================================================================
