------------------------------ MODULE ServiceTxn ------------------------------
(***************************************************************************)
(* A service payment (bill, card, recharge) from the reserve to the final  *)
(* settlement: runTransaction of src/src/lib/services/transaction.ts, and  *)
(* the finalizers of src/src/lib/services/finalize.ts that the webhook,    *)
(* the recon sweeps, the retailer's status button and the resolve desk run *)
(* beside it.                                                              *)
(*                                                                         *)
(* A call is one run of runTransaction; it creates at most one Transaction *)
(* row, so rows are named by calls.  Every database transaction is one     *)
(* step (Ledger looks inside), every read made outside one is a step of    *)
(* its own, and the provider answers, changes its mind and merges orders   *)
(* in between.  Money is counted in reserves: each call reserves one unit  *)
(* (amount + fee).                                                         *)
(***************************************************************************)
EXTENDS Integers, FiniteSetsExt

CONSTANTS
    Calls,          \* runs of runTransaction by one retailer
    KeyOf,          \* the client's idempotency key of each call
    Rail,           \* "bbps" and "recharge" have a status API and a sweep, "plain" none
    Orders,         \* orders the provider may create
    NoOrder,        \* partnerTxnId left NULL; a call the provider never saw
    Finalizers,     \* concurrent finalizer runs
    Triggers,       \* who starts them: "sweep", "prompt", "desk"
    Twins,          \* pairs <<c, d>>: the provider may merge c into d's order
    Funds           \* spendable wallet balance at the start, in reserves

ASSUME FundsAssumption == Funds \in Nat
ASSUME CallsAssumption ==
    /\ Calls # {}
    /\ KeyOf \in [Calls -> STRING \cup Calls]
    /\ Rail \in [Calls -> {"bbps", "recharge", "plain"}]
ASSUME NoOrderAssumption == NoOrder \notin Orders
ASSUME TriggersAssumption == Triggers \subseteq {"sweep", "prompt", "desk"}

VARIABLES
    txn,        \* call -> its Transaction row: status, ref (partnerTxnId), refund schedule
    reserved,   \* calls whose row was debited (WalletTxn under the reserve key)
    reversals,  \* call -> REVERSAL credits whose refId is its row, by key
    clawed,     \* call -> units taken back through a corrective lien
    margin,     \* calls with an entry for their margin in the revenue wallet
    pc,         \* call -> where runTransaction is
    answer,     \* call -> what the partner call returned
    fin,        \* finalizer -> what it is finalizing
    placed,     \* call -> the provider's order for it
    order       \* order -> what the provider says of it

rowVars      == <<txn, reserved, reversals, clawed, margin>>
callVars     == <<pc, answer>>
providerVars == <<placed, order>>
vars == <<txn, reserved, reversals, clawed, margin, pc, answer, fin, placed, order>>

NonTerminal    == {"PROCESSING", "NEEDS_REVIEW"}
TerminalFailed == {"FAILED", "REFUNDED"}

NoRow == [status |-> "none", ref |-> NoOrder, refund |-> "unset"]
Idle  == [at |-> "idle", row |-> CHOOSE c \in Calls : TRUE, ref |-> NoOrder,
          terminal |-> "FAILED", after |-> "window"]

Init ==
    /\ txn = [c \in Calls |-> NoRow]
    /\ reserved = {}
    /\ reversals = [c \in Calls |-> {}]
    /\ clawed = [c \in Calls |-> 0]
    /\ margin = {}
    /\ pc = [c \in Calls |-> "idle"]
    /\ answer = [c \in Calls |-> "none"]
    /\ fin = [f \in Finalizers |-> Idle]
    /\ placed = [c \in Calls |-> NoOrder]
    /\ order = [o \in Orders |-> "none"]

-----------------------------------------------------------------------------
(* The wallet, as the ledger keeps it. *)

Returned(c) == Cardinality(reversals[c]) - clawed[c]

Spendable == Funds - Cardinality(reserved) + MapThenSumSet(Returned, Calls)

(* runTransaction's reserve key names the client's key.                    *)
(* Mutant: two clicks on one key both debit. *)
KeyNotChecked(c) == FALSE

KeyTaken(c) == \E d \in reserved : KeyOf[d] = KeyOf[c]

(* runTransaction's reversal key names the client's key as well ...        *)
CallReversal(c) ==
    IF \E d \in Calls : KeyOf[d] = KeyOf[c] /\ "call" \in reversals[d]
    THEN reversals ELSE [reversals EXCEPT ![c] = @ \cup {"call"}]

(* ... the finalizer's names the row's refId. *)
FinalReversal(c) == [reversals EXCEPT ![c] = @ \cup {"final"}]

(* The company's margin is booked at best: errors are swallowed, and there *)
(* may be no margin or no revenue account.                                 *)
CreditServiceMargin(c) == margin' \in {margin, margin \cup {c}}

(* Another row owns this provider order as SUCCESS: what the duplicate     *)
(* pre-checks read, and what the partial unique index refuses.             *)
OwnedElsewhere(c, o) == \E d \in Calls \ {c} : txn[d].status = "SUCCESS" /\ txn[d].ref = o

(* Mutant: the partial unique index was never created. *)
NoIndex(c, o) == FALSE

IndexRefuses(c, o) == o # NoOrder /\ OwnedElsewhere(c, o)

-----------------------------------------------------------------------------
(* runTransaction. *)

HoldAndRecon(c) == Rail[c] # "plain"

Move(c, next) == pc' = [pc EXCEPT ![c] = next]

(* Replay lookup, then the account, scheme and risk gates. *)
Begin(c) ==
    /\ pc[c] = "idle"
    /\ \/ ~KeyTaken(c) /\ Move(c, "reserve")
       \/ Move(c, "done")
    /\ UNCHANGED <<rowVars, answer, fin, providerVars>>

(* Create the row and debit the reserve in one database transaction.  The  *)
(* debit of a key taken since the lookup either finds the earlier entry    *)
(* and moves nothing, or runs into the unique index.                       *)
Reserve(c) ==
    /\ pc[c] = "reserve"
    /\ \/ /\ ~KeyTaken(c)
          /\ Spendable >= 1
          /\ reserved' = reserved \cup {c}
          /\ txn' = [txn EXCEPT ![c].status = "PROCESSING"]
          /\ Move(c, "call")
       \/ /\ KeyTaken(c)
          /\ txn' = [txn EXCEPT ![c].status = "PROCESSING"]
          /\ Move(c, "call")
          /\ UNCHANGED reserved
       \/ /\ KeyTaken(c) \/ Spendable < 1
          /\ Move(c, "done")
          /\ UNCHANGED <<txn, reserved>>
    /\ UNCHANGED <<reversals, clawed, margin, answer, fin, providerVars>>

(* The partner call returns. *)
Answers(c) ==
    IF placed[c] = NoOrder THEN {"declined", "unknown"}
    ELSE CASE order[placed[c]] = "SUCCESS" -> {"paid", "unknown"}
           [] order[placed[c]] = "pending" -> {"pending", "declined", "unknown"}
           [] order[placed[c]] = "FAILED"  -> {"declined", "unknown"}

Answer(c) ==
    /\ pc[c] = "wait"
    /\ \E a \in Answers(c) :
         /\ answer' = [answer EXCEPT ![c] = a]
         /\ Move(c, IF a = "paid" THEN "dupcheck" ELSE "settle")
    /\ UNCHANGED <<rowVars, fin, providerVars>>

(* 4a: accepted, not confirmed. *)
(* Mutant: an accepted payment counts as confirmed. *)
KeepPendingAsPaid(c) ==
    /\ pc[c] = "settle" /\ answer[c] = "pending"
    /\ txn' = [txn EXCEPT ![c].ref = placed[c], ![c].status = "SUCCESS"]
    /\ Move(c, "done")
    /\ UNCHANGED <<reserved, reversals, clawed, margin, answer, fin, providerVars>>

KeepPending(c) ==
    /\ pc[c] = "settle" /\ answer[c] = "pending"
    /\ txn' = [txn EXCEPT ![c].ref = placed[c]]
    /\ Move(c, "done")
    /\ UNCHANGED <<reserved, reversals, clawed, margin, answer, fin, providerVars>>

DuplicateCheck(c) ==
    /\ pc[c] = "dupcheck"
    /\ Move(c, IF OwnedElsewhere(c, placed[c]) THEN "duplicate" ELSE "success")
    /\ UNCHANGED <<rowVars, answer, fin, providerVars>>

SettleSuccess(c) ==
    /\ pc[c] = "success"
    /\ IF IndexRefuses(c, placed[c])
       THEN Move(c, "duplicate") /\ UNCHANGED rowVars
       ELSE /\ txn' = [txn EXCEPT ![c].status = "SUCCESS", ![c].ref = placed[c]]
            /\ CreditServiceMargin(c)
            /\ Move(c, "done")
            /\ UNCHANGED <<reserved, reversals, clawed>>
    /\ UNCHANGED <<answer, fin, providerVars>>

RefundDuplicateLeg(c) ==
    /\ pc[c] = "duplicate"
    /\ txn' = [txn EXCEPT ![c].status = "REFUNDED", ![c].ref = placed[c]]
    /\ reversals' = CallReversal(c)
    /\ Move(c, "done")
    /\ UNCHANGED <<reserved, clawed, margin, answer, fin, providerVars>>

(* 4b: anything but success on a rail that recon can resolve is held. *)
HoldForReview(c) ==
    /\ pc[c] = "settle" /\ answer[c] \in {"declined", "unknown"} /\ HoldAndRecon(c)
    /\ txn' = [txn EXCEPT ![c].status = "NEEDS_REVIEW"]
    /\ Move(c, "done")
    /\ UNCHANGED <<reserved, reversals, clawed, margin, answer, fin, providerVars>>

(* Mutant: the row is failed and the reserve forgotten. *)
FailWithoutRefund(c) ==
    /\ pc[c] = "settle" /\ answer[c] \in {"declined", "unknown"} /\ ~HoldAndRecon(c)
    /\ txn' = [txn EXCEPT ![c].status = "FAILED"]
    /\ Move(c, "done")
    /\ UNCHANGED <<reserved, reversals, clawed, margin, answer, fin, providerVars>>

FailAndRefund(c) ==
    /\ pc[c] = "settle" /\ answer[c] \in {"declined", "unknown"} /\ ~HoldAndRecon(c)
    /\ txn' = [txn EXCEPT ![c].status = "FAILED"]
    /\ reversals' = CallReversal(c)
    /\ Move(c, "done")
    /\ UNCHANGED <<reserved, clawed, margin, answer, fin, providerVars>>

(* The process dies; what it committed stays. *)
InFlight(c) == pc[c] \in {"reserve", "call", "wait", "settle", "dupcheck", "success", "duplicate"}

Crash(c) ==
    /\ InFlight(c)
    /\ Move(c, "dead")
    /\ UNCHANGED <<rowVars, answer, fin, providerVars>>

-----------------------------------------------------------------------------
(* The provider. *)

(* The request arrives, is merged into the order of a twin, or is lost. *)
Send(c) ==
    /\ pc[c] = "call"
    /\ \/ \E o \in Orders :
            /\ order[o] = "none"
            /\ placed' = [placed EXCEPT ![c] = o]
            /\ order' = [order EXCEPT ![o] = "pending"]
       \/ \E d \in Calls :
            /\ <<c, d>> \in Twins
            /\ placed[d] # NoOrder
            /\ placed' = [placed EXCEPT ![c] = placed[d]]
            /\ UNCHANGED order
       \/ UNCHANGED providerVars
    /\ Move(c, "wait")
    /\ UNCHANGED <<rowVars, answer, fin>>

(* A payment reported failed may turn out to have been charged: a card     *)
(* push declined at first. *)
Decide(o) ==
    /\ \/ order[o] = "pending" /\ \E s \in {"SUCCESS", "FAILED"} : order' = [order EXCEPT ![o] = s]
       \/ order[o] = "FAILED" /\ order' = [order EXCEPT ![o] = "SUCCESS"]
    /\ UNCHANGED <<rowVars, callVars, fin, placed>>

(* REFUND_HOLD_MINUTES go by.  The partner client gives up after 45 s, so  *)
(* no call is in flight for that long. *)
Elapse(c) ==
    /\ txn[c].refund = "cooling"
    /\ ~InFlight(c)
    /\ txn' = [txn EXCEPT ![c].refund = "due"]
    /\ UNCHANGED <<reserved, reversals, clawed, margin, callVars, fin, providerVars>>

-----------------------------------------------------------------------------
(* finalizeServiceTransaction. *)

Go(f, r) == fin' = [fin EXCEPT ![f] = r]

(* A bill payment can always be asked about by its bill-fetch reference; a *)
(* recharge only by an id some answer carried, kept on the row or in       *)
(* PartnerApiLog.                                                          *)
Pollable(c) == Rail[c] = "bbps" \/ txn[c].ref # NoOrder \/ answer[c] \in {"paid", "pending", "declined"}

(* Mutant: the sweep skips rows whose partnerTxnId is NULL. *)
MayPollRefOnly(c) == "sweep" \in Triggers /\ ~InFlight(c) /\ txn[c].ref # NoOrder

(* A sweep only looks at rows older than two minutes, when the call is     *)
(* over; a webhook (which brings the provider's ids), the retailer's       *)
(* "check status" and the resolve desk look at any time.                   *)
MayPoll(c) == \/ "sweep" \in Triggers /\ ~InFlight(c) /\ Pollable(c)
              \/ "prompt" \in Triggers

(* Read the row and ask the provider; its answer decides the branch. *)
Poll(f, c) ==
    LET o == placed[c] IN
    /\ fin[f].at = "idle"
    /\ HoldAndRecon(c)
    /\ MayPoll(c)
    /\ txn[c].status \in NonTerminal
    /\ o # NoOrder
    /\ order[o] # "pending"
    /\ Go(f, [at |-> IF order[o] = "SUCCESS" THEN "dupcheck" ELSE "gate",
              row |-> c, ref |-> o, terminal |-> "FAILED", after |-> "window"])
    /\ UNCHANGED <<rowVars, callVars, providerVars>>

(* The desk has verified that the provider has no record of the payment;   *)
(* operators do this for rows whose call is over.                          *)
ForceRefundNotFound(f, c) ==
    /\ "desk" \in Triggers
    /\ fin[f].at = "idle"
    /\ HoldAndRecon(c)
    /\ ~InFlight(c)
    /\ txn[c].status \in NonTerminal
    /\ placed[c] = NoOrder
    /\ Go(f, [at |-> "gate", row |-> c, ref |-> txn[c].ref, terminal |-> "FAILED", after |-> "at once"])
    /\ UNCHANGED <<rowVars, callVars, providerVars>>

FinDuplicateCheck(f) ==
    LET w == fin[f] IN
    /\ w.at = "dupcheck"
    /\ IF OwnedElsewhere(w.row, w.ref)
       THEN Go(f, [w EXCEPT !.at = "gate", !.terminal = "REFUNDED", !.after = "at once"])
       ELSE Go(f, [w EXCEPT !.at = "success"])
    /\ UNCHANGED <<rowVars, callVars, providerVars>>

ClaimSuccess(f) ==
    LET w == fin[f]  c == w.row IN
    /\ w.at = "success"
    /\ \/ /\ txn[c].status \notin NonTerminal
          /\ Go(f, Idle)
          /\ UNCHANGED rowVars
       \/ /\ txn[c].status \in NonTerminal
          /\ IndexRefuses(c, w.ref)
          /\ Go(f, [w EXCEPT !.at = "gate", !.terminal = "REFUNDED", !.after = "at once"])
          /\ UNCHANGED rowVars
       \/ /\ txn[c].status \in NonTerminal
          /\ ~IndexRefuses(c, w.ref)
          /\ txn' = [txn EXCEPT ![c] = [status |-> "SUCCESS", ref |-> w.ref, refund |-> "unset"]]
          /\ CreditServiceMargin(c)
          /\ Go(f, Idle)
          /\ UNCHANGED <<reserved, reversals, clawed>>
    /\ UNCHANGED <<callVars, providerVars>>

(* Nothing is refunded twice: a reversal found for the row only closes it. *)
PriorReversal(f) ==
    LET w == fin[f] IN
    /\ w.at = "gate"
    /\ Go(f, [w EXCEPT !.at = IF reversals[w.row] # {} THEN "close"
                             ELSE IF w.after = "at once" THEN "refund" ELSE "window"])
    /\ UNCHANGED <<rowVars, callVars, providerVars>>

Terminal(w) == [status |-> w.terminal, ref |-> w.ref, refund |-> "unset"]

CloseRefunded(f) ==
    LET w == fin[f]  c == w.row IN
    /\ w.at = "close"
    /\ txn' = IF txn[c].status \in NonTerminal THEN [txn EXCEPT ![c] = Terminal(w)] ELSE txn
    /\ Go(f, Idle)
    /\ UNCHANGED <<reserved, reversals, clawed, margin, callVars, providerVars>>

(* Nothing is refunded on the first failure report: it only schedules the  *)
(* refund and holds the row.                                               *)
(* Mutant: the first report refunds at once. *)
NoWindow(row) == "refund"

AfterWindow(row) ==
    IF row.status \notin NonTerminal \/ row.refund = "cooling" THEN "idle"
    ELSE IF row.refund = "unset" THEN "schedule" ELSE "refund"

Window(f) ==
    LET w == fin[f]  next == AfterWindow(txn[w.row]) IN
    /\ w.at = "window"
    /\ Go(f, IF next = "idle" THEN Idle ELSE [w EXCEPT !.at = next])
    /\ UNCHANGED <<rowVars, callVars, providerVars>>

ScheduleRefund(f) ==
    LET w == fin[f]  c == w.row IN
    /\ w.at = "schedule"
    /\ txn' = IF txn[c].status \in NonTerminal /\ txn[c].refund = "unset"
              THEN [txn EXCEPT ![c] = [status |-> "NEEDS_REVIEW", ref |-> w.ref, refund |-> "cooling"]]
              ELSE txn
    /\ Go(f, Idle)
    /\ UNCHANGED <<reserved, reversals, clawed, margin, callVars, providerVars>>

(* Mutant: the refund is not a conditional claim. *)
RefundUnclaimed(f) ==
    LET w == fin[f]  c == w.row IN
    /\ w.at = "refund"
    /\ txn' = [txn EXCEPT ![c] = Terminal(w)]
    /\ reversals' = FinalReversal(c)
    /\ Go(f, Idle)
    /\ UNCHANGED <<reserved, clawed, margin, callVars, providerVars>>

ClaimRefund(f) ==
    LET w == fin[f]  c == w.row IN
    /\ w.at = "refund"
    /\ IF txn[c].status \in NonTerminal
       THEN /\ txn' = [txn EXCEPT ![c] = Terminal(w)]
            /\ reversals' = FinalReversal(c)
       ELSE UNCHANGED <<txn, reversals>>
    /\ Go(f, Idle)
    /\ UNCHANGED <<reserved, clawed, margin, callVars, providerVars>>

(* An exception or a restart between two steps; the next trigger retries. *)
Drop(f) ==
    /\ fin[f].at # "idle"
    /\ Go(f, Idle)
    /\ UNCHANGED <<rowVars, callVars, providerVars>>

(* correctTerminalToSuccess: the provider confirms that a failed row was   *)
(* paid after all; whatever was refunded is taken back through a lien.     *)
(* Mutant: the row is promoted and the refund left with the retailer. *)
CorrectWithoutClawback(c) ==
    LET o == placed[c] IN
    /\ "desk" \in Triggers /\ HoldAndRecon(c)
    /\ txn[c].status \in TerminalFailed
    /\ o # NoOrder /\ order[o] = "SUCCESS" /\ ~IndexRefuses(c, o)
    /\ txn' = [txn EXCEPT ![c] = [status |-> "SUCCESS", ref |-> o, refund |-> "unset"]]
    /\ CreditServiceMargin(c)
    /\ UNCHANGED <<reserved, reversals, clawed, callVars, fin, providerVars>>

(* Mutant: the refund is paid a second time. *)
CorrectPaysAgain(c) ==
    LET o == placed[c] IN
    /\ "desk" \in Triggers /\ HoldAndRecon(c)
    /\ txn[c].status \in TerminalFailed
    /\ o # NoOrder /\ order[o] = "SUCCESS" /\ ~IndexRefuses(c, o)
    /\ txn' = [txn EXCEPT ![c] = [status |-> "SUCCESS", ref |-> o, refund |-> "unset"]]
    /\ clawed' = [clawed EXCEPT ![c] = @ - Cardinality(reversals[c])]
    /\ CreditServiceMargin(c)
    /\ UNCHANGED <<reserved, reversals, callVars, fin, providerVars>>

CorrectTerminalToSuccess(c) ==
    LET o == placed[c] IN
    /\ "desk" \in Triggers /\ HoldAndRecon(c)
    /\ txn[c].status \in TerminalFailed
    /\ o # NoOrder /\ order[o] = "SUCCESS" /\ ~IndexRefuses(c, o)
    /\ txn' = [txn EXCEPT ![c] = [status |-> "SUCCESS", ref |-> o, refund |-> "unset"]]
    /\ clawed' = [clawed EXCEPT ![c] = @ + Cardinality(reversals[c])]
    /\ CreditServiceMargin(c)
    /\ UNCHANGED <<reserved, reversals, callVars, fin, providerVars>>

-----------------------------------------------------------------------------
CallStep(c) ==
    \/ Begin(c) \/ Reserve(c) \/ Send(c) \/ Answer(c)
    \/ KeepPending(c) \/ DuplicateCheck(c) \/ SettleSuccess(c) \/ RefundDuplicateLeg(c)
    \/ HoldForReview(c) \/ FailAndRefund(c)

FinStep(f) ==
    \/ FinDuplicateCheck(f) \/ ClaimSuccess(f) \/ PriorReversal(f) \/ CloseRefunded(f)
    \/ Window(f) \/ ScheduleRefund(f) \/ ClaimRefund(f)

Next ==
    \/ \E c \in Calls : CallStep(c) \/ Crash(c) \/ Elapse(c) \/ CorrectTerminalToSuccess(c)
    \/ \E o \in Orders : Decide(o)
    \/ \E f \in Finalizers :
         \/ FinStep(f) \/ Drop(f)
         \/ \E c \in Calls : Poll(f, c) \/ ForceRefundNotFound(f, c)

Spec == Init /\ [][Next]_vars

(* The sweep runs every five minutes and looks at every open row, and no   *)
(* step of its runs is dropped for ever; the provider settles every order  *)
(* it took; time passes; a call either goes on or is dead.  Nothing makes  *)
(* a dead process continue or an operator act.                             *)
FairSpec ==
    /\ Spec
    /\ \A f \in Finalizers :
         \A steps \in {{"dupcheck"}, {"gate"}, {"window"}, {"success", "close", "schedule", "refund"}} :
            SF_vars(fin[f].at \in steps /\ FinStep(f))
    /\ \A c \in Calls : SF_vars(\E f \in Finalizers : Poll(f, c))
    /\ WF_vars(\E c \in Calls : Elapse(c))
    /\ WF_vars(\E c \in Calls : CallStep(c))
    /\ \A o \in Orders : WF_vars(order[o] = "pending" /\ Decide(o))

-----------------------------------------------------------------------------
(* Properties. *)

(* Type invariant. *)
TypeOK ==
    /\ txn \in [Calls -> [status : {"none", "SUCCESS"} \cup NonTerminal \cup TerminalFailed,
                          ref : Orders \cup {NoOrder}, refund : {"unset", "cooling", "due"}]]
    /\ reserved \subseteq Calls /\ margin \subseteq Calls
    /\ reversals \in [Calls -> SUBSET {"call", "final"}]
    /\ clawed \in [Calls -> Nat]
    /\ pc \in [Calls -> {"idle", "reserve", "call", "wait", "settle", "dupcheck", "success",
                         "duplicate", "done", "dead"}]
    /\ answer \in [Calls -> {"none", "paid", "pending", "declined", "unknown"}]
    /\ fin \in [Finalizers -> [at : {"idle", "dupcheck", "success", "gate", "close", "window",
                                     "schedule", "refund"}, row : Calls,
                               ref : Orders \cup {NoOrder}, terminal : TerminalFailed,
                               after : {"window", "at once"}]]
    /\ placed \in [Calls -> Orders \cup {NoOrder}]
    /\ order \in [Orders -> {"none", "pending", "SUCCESS", "FAILED"}]

(* "No orphaned money": a reserve is with the retailer exactly when its    *)
(* row is failed or refunded, and with the company while the row is open   *)
(* or successful - after any crash, retry, clawback or race; and a click   *)
(* that reserved nothing gets nothing.                                     *)
DebitMatchesStatus ==
    \A c \in reserved : Returned(c) = IF txn[c].status \in TerminalFailed THEN 1 ELSE 0

WalletMatchesStatus ==
    DebitMatchesStatus /\ \A c \in Calls \ reserved : Returned(c) = 0

(* One real provider order is charged to the retailer at most once         *)
(* (the migration's RT0107 incident).                                      *)
OneSuccessPerOrder ==
    \A c, d \in Calls :
        /\ txn[c].status = "SUCCESS" /\ txn[d].status = "SUCCESS"
        /\ placed[c] = placed[d]
        => c = d

(* Two clicks with one idempotency key never debit the wallet twice.       *)
KeyDebitedOnce == \A c, d \in reserved : KeyOf[c] = KeyOf[d] => c = d

(* A row is SUCCESS only for an order the provider did execute. *)
SettledMeansPaid ==
    \A c \in Calls : txn[c].status = "SUCCESS" => txn[c].ref \in Orders /\ order[txn[c].ref] = "SUCCESS"

(* finalize.ts: on a recon rail a reserve is released only after a second  *)
(* failure report past the window, for a duplicate of a settled leg, or    *)
(* for a payment the provider never saw.                                   *)
RefundsAreDoubleChecked ==
    [][ \A c \in Calls :
          /\ HoldAndRecon(c)
          /\ reversals'[c] # reversals[c]
          => \/ txn[c].refund = "due"
             \/ placed[c] = NoOrder
             \/ OwnedElsewhere(c, placed[c]) ]_vars

(* Every reserve ends on one side: with the company when the payment was   *)
(* made, back with the retailer when it was not, and it changes sides only *)
(* by the correction of a wrong refund.                                    *)
Money == [c \in Calls |->
            IF c \notin reserved THEN "none"
            ELSE IF Returned(c) > 0 THEN "returned"
            ELSE IF txn[c].status = "SUCCESS" THEN "kept" ELSE "held"]

Reserves == INSTANCE Reserves WITH money <- Money
ReservesMoveOnce == Reserves!Spec

(* The sweep resolves every held payment it has a reference for, whatever  *)
(* died in between and however often the refund had to be checked again.   *)
HeldRowsSettle ==
    \A c \in Calls :
        /\ HoldAndRecon(c) /\ placed[c] # NoOrder /\ Pollable(c) /\ txn[c].status \in NonTerminal
        ~> txn[c].status \notin NonTerminal

(* transaction.ts: "Idempotency (duplicate clicks are safe)" - one key     *)
(* sends at most one order to the provider.                                *)
OneOrderPerKey ==
    \A c, d \in Calls :
        placed[c] # NoOrder /\ placed[d] # NoOrder /\ KeyOf[c] = KeyOf[d] => c = d

(* refundDuplicateLeg: "keyed on the same reversal idempotency key so it   *)
(* can never double-apply".                                                *)
RefundedAtMostOnce == \A c \in Calls : Cardinality(reversals[c]) <= 1
=============================================================================
