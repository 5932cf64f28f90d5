-------------------------------- MODULE Payout --------------------------------
(***************************************************************************)
(* Bank payouts: src/src/lib/payout/service.ts with the routes that submit *)
(* and decide a payout, the worker that hands it to the rail, and the four *)
(* parties that may settle it - the worker itself, the five-minute sweep,  *)
(* the rail's webhook and the review desk.                                 *)
(*                                                                         *)
(* A run is one execution of one of these handlers.  Its steps are the     *)
(* database transactions, the reads outside one and the calls to the rail; *)
(* `at` names the step that comes next.  A rail record is named by the     *)
(* payout it was made for, and row[p].ref (providerTxnId) names the record *)
(* the portal believes to be p's.  All payouts are of one user and reserve *)
(* one unit each.                                                          *)
(***************************************************************************)
EXTENDS Integers, FiniteSets

CONSTANTS
    Payouts,    \* PayoutRequest rows
    Runs,       \* concurrent handler executions
    Null,       \* a column or a local variable left NULL
    Funds       \* the user's wallet balance at the start, in reserves

ASSUME NullAssumption  == Null \notin Payouts
ASSUME PayoutsAssumption == IsFiniteSet(Payouts)
ASSUME FundsAssumption == Funds \in Nat /\ Funds >= Cardinality(Payouts)

VARIABLES
    row,        \* payout -> status and ref
    held,       \* User.heldBalance
    ledger,     \* <<payout, "capture" or "reversal">>: WalletTxn entries
    margin,     \* <<payout, "booked" or "clawed">>: entries of the revenue wallet
    jobs,       \* payouts with a payout.initiate job, delivered at least once
    run,        \* run -> what it is doing
    sends,      \* payout -> transfer requests sent to the rail
    rail,       \* payout -> what became of its transfer
    twins       \* whether the payouts have the same amount and account

rowVars   == <<row, held, ledger, margin>>
worldVars == <<sends, rail, twins>>
vars == <<row, held, ledger, margin, jobs, run, sends, rail, twins>>

HOLDABLE == {"APPROVED", "PROCESSING", "NEEDS_REVIEW"}
TERMINAL == {"SUCCESS", "FAILED", "REJECTED", "REVERSED"}
Open     == HOLDABLE \cup {"PENDING_APPROVAL"}

Accepted == {"processing", "paid", "failed", "returned"}   \* the rail has a record

Idle == [at |-> "idle", p |-> Null, ref |-> Null, seen |-> {}, ans |-> "none"]

(* Rows waiting for a checker date from before payouts were auto-approved. *)
Init ==
    /\ \E W \in SUBSET Payouts :
         /\ row = [p \in Payouts |-> [status |-> IF p \in W THEN "PENDING_APPROVAL" ELSE "none",
                                      ref |-> Null]]
         /\ held = Cardinality(W)
    /\ ledger = {}
    /\ margin = {}
    /\ jobs = {}
    /\ run = [r \in Runs |-> Idle]
    /\ sends = [p \in Payouts |-> 0]
    /\ rail = [p \in Payouts |-> "none"]
    /\ twins \in BOOLEAN

-----------------------------------------------------------------------------
Entries(kind) == Cardinality({e \in ledger : e[2] = kind})
Balance   == Funds - Entries("capture") + Entries("reversal")
Spendable == Balance - held

Alike(p, q) == p = q \/ twins

Go(r, w)  == run' = [run EXCEPT ![r] = w]
At(r, at) == Go(r, [run[r] EXCEPT !.at = at])
SetStatus(p, s) == row' = [row EXCEPT ![p].status = s]

(* A run that ends; the manual refund of a bank transfer (rail KNTEER)      *)
(* continues after its live re-check.                                      *)
Done(r) == Go(r, IF run[r].ans = "refund" THEN [Idle EXCEPT !.at = "recheck", !.p = run[r].p]
                 ELSE Idle)

(* reconcilePayout up to its first call: what it does with the row it read. *)
Reconcile(r, w) ==
    IF row[w.p].status \notin HOLDABLE THEN Done(r)
    ELSE Go(r, [w EXCEPT !.at = IF row[w.p].ref = Null THEN "list" ELSE "poll", !.ref = row[w.p].ref])

-----------------------------------------------------------------------------
(* Submission, decision and the queue. *)

(* Hold the funds and create the row, approved, in one transaction. *)
Create(r, p) ==
    /\ run[r].at = "idle"
    /\ row[p].status = "none"
    /\ Spendable >= 1
    /\ SetStatus(p, "APPROVED")
    /\ held' = held + 1
    /\ Go(r, [Idle EXCEPT !.at = "enqueue", !.p = p])
    /\ UNCHANGED <<ledger, margin, jobs, worldVars>>

Approve(r, p) ==
    /\ run[r].at = "idle"
    /\ row[p].status = "PENDING_APPROVAL"
    /\ SetStatus(p, "APPROVED")
    /\ Go(r, [Idle EXCEPT !.at = "enqueue", !.p = p])
    /\ UNCHANGED <<held, ledger, margin, jobs, worldVars>>

(* Mutant: a rejected payout keeps its funds reserved. *)
RejectKeepsHold(p) ==
    /\ row[p].status = "PENDING_APPROVAL"
    /\ SetStatus(p, "REJECTED")
    /\ UNCHANGED <<held, ledger, margin, jobs, run, worldVars>>

Reject(p) ==
    /\ row[p].status = "PENDING_APPROVAL"
    /\ SetStatus(p, "REJECTED")
    /\ held' = held - 1
    /\ UNCHANGED <<ledger, margin, jobs, run, worldVars>>

Enqueue(r) ==
    /\ run[r].at = "enqueue"
    /\ jobs' = jobs \cup {run[r].p}
    /\ Done(r)
    /\ UNCHANGED <<rowVars, worldVars>>

-----------------------------------------------------------------------------
(* processPayoutInitiate: the job may run again, or twice at once. *)

Initiate(r, p) ==
    /\ run[r].at = "idle"
    /\ p \in jobs
    /\ row[p].status \in HOLDABLE
    /\ Go(r, [Idle EXCEPT !.at = IF row[p].ref = Null THEN "claim" ELSE "read", !.p = p])
    /\ UNCHANGED <<rowVars, jobs, worldVars>>

(* Mutant: a retry may send a row that is already PROCESSING. *)
SendableAgain(status) == status \in {"APPROVED", "PROCESSING"}

Sendable(status) == status = "APPROVED"

Claim(r) ==
    LET p == run[r].p IN
    /\ run[r].at = "claim"
    /\ IF Sendable(row[p].status)
       THEN SetStatus(p, "PROCESSING") /\ At(r, "send")
       ELSE UNCHANGED row /\ At(r, "read")
    /\ UNCHANGED <<held, ledger, margin, jobs, worldVars>>

(* The transfer request leaves. *)
Send(r) ==
    LET p == run[r].p IN
    /\ run[r].at = "send"
    /\ sends' = [sends EXCEPT ![p] = @ + 1]
    /\ rail' = [rail EXCEPT ![p] = IF @ = "none" THEN "on its way" ELSE @]
    /\ At(r, "wait")
    /\ UNCHANGED <<rowVars, jobs, twins>>

(* What the rail says of a record; a returned transfer may read either way. *)
Reading(q) ==
    CASE rail[q] = "processing" -> {"PROCESSING"}
      [] rail[q] = "paid"       -> {"PAID"}
      [] rail[q] = "failed"     -> {"FAILED"}
      [] rail[q] = "returned"   -> {"PAID", "FAILED"}

(* The answer, or no clear one: a timeout, an HTTP 5xx. *)
Answer(r) ==
    LET p == run[r].p IN
    /\ run[r].at = "wait"
    /\ \E a \in {"unclear"} \cup (IF rail[p] \in Accepted THEN Reading(p)
                                  ELSE IF rail[p] = "refused" THEN {"declined"} ELSE {}) :
         Go(r, [run[r] EXCEPT !.at = "persist", !.ans = a])
    /\ UNCHANGED <<rowVars, jobs, worldVars>>

(* Mutant: an unclear answer counts as a decline and frees the funds. *)
UnclearIsDecline(a) == IF a = "PAID" THEN "success" ELSE IF a = "PROCESSING" THEN "end" ELSE "failure"

AfterAnswer(a) ==
    CASE a = "PAID" -> "success"
      [] a = "unclear" -> "review"
      [] a = "PROCESSING" -> "end"
      [] OTHER -> "failure"

(* Write the reference of an accepted transfer, and otherwise the one the  *)
(* row had when the job read it: none.                                     *)
Persist(r) ==
    LET w == run[r]  p == w.p  ref == IF w.ans \in {"unclear", "declined"} THEN Null ELSE p IN
    /\ w.at = "persist"
    /\ row' = [row EXCEPT ![p].ref = ref]
    /\ IF AfterAnswer(w.ans) = "end" THEN Done(r)
       ELSE Go(r, [Idle EXCEPT !.at = AfterAnswer(w.ans), !.p = p, !.ref = ref])
    /\ UNCHANGED <<held, ledger, margin, jobs, worldVars>>

HoldForReview(r) ==
    LET p == run[r].p IN
    /\ run[r].at = "review"
    /\ IF row[p].status = "PROCESSING" THEN SetStatus(p, "NEEDS_REVIEW") ELSE UNCHANGED row
    /\ Done(r)
    /\ UNCHANGED <<held, ledger, margin, jobs, worldVars>>

-----------------------------------------------------------------------------
(* reconcilePayout and recoverPayoutReference. *)

(* Mutant: held rows are left to the operators. *)
SweepsProcessing == {"PROCESSING"}

Swept == {"PROCESSING", "NEEDS_REVIEW"}

Sweep(r, p) ==
    /\ run[r].at = "idle"
    /\ row[p].status \in Swept
    /\ Reconcile(r, [Idle EXCEPT !.p = p])
    /\ UNCHANGED <<rowVars, jobs, worldVars>>

(* The daily drain also takes rows that were never sent. *)
Drain(r, p) ==
    /\ run[r].at = "idle"
    /\ row[p].status = "APPROVED"
    /\ Reconcile(r, [Idle EXCEPT !.p = p])
    /\ UNCHANGED <<rowVars, jobs, worldVars>>

Read(r) ==
    /\ run[r].at = "read"
    /\ Reconcile(r, run[r])
    /\ UNCHANGED <<rowVars, jobs, worldVars>>

(* The rail's recent records of this amount, account and time. *)
Matching(p) == {q \in Payouts : Alike(p, q) /\ rail[q] \in Accepted}

List(r) ==
    LET w == run[r] IN
    /\ w.at = "list"
    /\ IF Matching(w.p) = {} THEN Done(r)
       ELSE Go(r, [w EXCEPT !.at = "check", !.seen = Matching(w.p)])
    /\ UNCHANGED <<rowVars, jobs, worldVars>>

Taken(q, p) == \E d \in Payouts \ {p} : row[d].ref = q

(* Exactly one match that no other row refers to, or nothing. *)
Check(r) ==
    LET w == run[r]  unclaimed == {q \in w.seen : ~Taken(q, w.p)} IN
    /\ w.at = "check"
    /\ \/ \E q \in unclaimed :
            unclaimed = {q} /\ Go(r, [w EXCEPT !.at = "store", !.ref = q, !.seen = {}])
       \/ (\A q \in unclaimed : unclaimed # {q}) /\ Done(r)
    /\ UNCHANGED <<rowVars, jobs, worldVars>>

Store(r) ==
    LET w == run[r]  p == w.p IN
    /\ w.at = "store"
    /\ row' = IF row[p].status \in HOLDABLE /\ row[p].ref = Null
              THEN [row EXCEPT ![p].ref = w.ref] ELSE row
    /\ Go(r, [w EXCEPT !.at = "reread", !.ref = Null])
    /\ UNCHANGED <<held, ledger, margin, jobs, worldVars>>

(* The portal's own reference cannot be polled. *)
Reread(r) ==
    LET w == run[r]  p == w.p IN
    /\ w.at = "reread"
    /\ IF row[p].status \in HOLDABLE /\ row[p].ref # Null
       THEN Go(r, [w EXCEPT !.at = "poll", !.ref = row[p].ref]) ELSE Done(r)
    /\ UNCHANGED <<rowVars, jobs, worldVars>>

Poll(r) ==
    LET w == run[r] IN
    /\ w.at = "poll"
    /\ \E a \in Reading(w.ref) :
         IF a = "PROCESSING" THEN Done(r)
         ELSE Go(r, [w EXCEPT !.at = IF a = "PAID" THEN "success" ELSE "failure", !.ref = Null])
    /\ UNCHANGED <<rowVars, jobs, worldVars>>

-----------------------------------------------------------------------------
(* The finalizers. *)

(* finalizePayoutSuccess reads the row; a caller that brings no reference  *)
(* writes back the one just read.                                          *)
FinalizeSuccess(r) ==
    LET w == run[r] IN
    /\ w.at = "success"
    /\ IF row[w.p].status \in TERMINAL THEN Done(r)
       ELSE Go(r, [w EXCEPT !.at = "capture", !.ref = IF @ = Null THEN row[w.p].ref ELSE @])
    /\ UNCHANGED <<rowVars, jobs, worldVars>>

(* The company's margin is booked and clawed back at best: there may be no  *)
(* margin, no revenue account or too little in it, and the errors of either *)
(* call are swallowed.  Clawing back does not ask whether it was booked.    *)
CreditServiceMargin(p)  == margin' \in {margin, margin \cup {<<p, "booked">>}}
ReverseServiceMargin(p) == margin' \in {margin, margin \cup {<<p, "clawed">>}}

(* The claim, the capture and the margin are one transaction; a statement   *)
(* the database refuses undoes it all, as a death before it does.           *)
(* Mutant: the claim is won and nothing captured. *)
CaptureForgotten(r) ==
    LET w == run[r]  p == w.p IN
    /\ w.at = "capture"
    /\ IF row[p].status \in HOLDABLE
       THEN /\ row' = [row EXCEPT ![p] = [status |-> "SUCCESS", ref |-> w.ref]]
            /\ held' = held - 1
            /\ CreditServiceMargin(p)
       ELSE UNCHANGED <<row, held, margin>>
    /\ Done(r)
    /\ UNCHANGED <<ledger, jobs, worldVars>>

Capture(r) ==
    LET w == run[r]  p == w.p IN
    /\ w.at = "capture"
    /\ IF row[p].status \in HOLDABLE
       THEN /\ row' = [row EXCEPT ![p] = [status |-> "SUCCESS", ref |-> w.ref]]
            /\ held' = held - 1
            /\ ledger' = ledger \cup {<<p, "capture">>}
            /\ CreditServiceMargin(p)
       ELSE UNCHANGED rowVars
    /\ Done(r)
    /\ UNCHANGED <<jobs, worldVars>>

(* Mutant: the failure is written without a claim. *)
FailUnclaimed(r) ==
    LET p == run[r].p IN
    /\ run[r].at = "failure"
    /\ SetStatus(p, "FAILED")
    /\ held' = held - 1
    /\ Done(r)
    /\ UNCHANGED <<ledger, margin, jobs, worldVars>>

FinalizeFailure(r) ==
    LET p == run[r].p IN
    /\ run[r].at = "failure"
    /\ IF row[p].status \in HOLDABLE
       THEN SetStatus(p, "FAILED") /\ held' = held - 1
       ELSE UNCHANGED <<row, held>>
    /\ Done(r)
    /\ UNCHANGED <<ledger, margin, jobs, worldVars>>

Reverse(r) ==
    LET p == run[r].p IN
    /\ run[r].at = "reverse"
    /\ IF row[p].status = "SUCCESS"
       THEN /\ SetStatus(p, "REVERSED")
            /\ ledger' = ledger \cup {<<p, "reversal">>}
            /\ At(r, "claw")
       ELSE UNCHANGED <<row, ledger>> /\ Done(r)
    /\ UNCHANGED <<held, margin, jobs, worldVars>>

(* The margin of a reversed payout goes back in a transaction of its own. *)
ClawMargin(r) ==
    /\ run[r].at = "claw"
    /\ ReverseServiceMargin(run[r].p)
    /\ Done(r)
    /\ UNCHANGED <<row, held, ledger, jobs, worldVars>>

-----------------------------------------------------------------------------
(* The rail's webhook about record q: late, repeated, or of an earlier     *)
(* state; only a return is announced as a reversal.                        *)

EventOf(q) == IF rail[q] = "returned" THEN {"update", "reversal"} ELSE {"update"}

WebhookExact(r, q) ==
    /\ run[r].at = "idle"
    /\ rail[q] \in Accepted
    /\ \E p \in Payouts, e \in EventOf(q) :
         /\ row[p].ref = q
         /\ Go(r, [Idle EXCEPT !.p = p, !.at = IF e = "reversal" /\ row[p].status = "SUCCESS"
                                                THEN "reverse" ELSE "read"])
    /\ UNCHANGED <<rowVars, jobs, worldVars>>

(* No row has the reference: the held payout without one that looks alike. *)
WebhookFuzzy(r, q) ==
    LET matched == {p \in Payouts : /\ row[p].status = "NEEDS_REVIEW"
                                    /\ row[p].ref = Null
                                    /\ Alike(p, q)} IN
    /\ run[r].at = "idle"
    /\ rail[q] \in Accepted
    /\ \A p \in Payouts : row[p].ref # q
    /\ \E p \in matched, e \in EventOf(q) :
         /\ matched = {p}
         /\ Go(r, [Idle EXCEPT !.at = "link", !.p = p, !.ref = q, !.ans = e])
    /\ UNCHANGED <<rowVars, jobs, worldVars>>

LinkWebhook(r) ==
    LET w == run[r]  p == w.p IN
    /\ w.at = "link"
    /\ IF row[p].status = "NEEDS_REVIEW" /\ row[p].ref = Null
       THEN /\ row' = [row EXCEPT ![p].ref = w.ref]
            /\ Go(r, [Idle EXCEPT !.p = p, !.at = IF w.ans = "reversal" THEN "reverse" ELSE "read"])
       ELSE UNCHANGED row /\ Done(r)
    /\ UNCHANGED <<held, ledger, margin, jobs, worldVars>>

-----------------------------------------------------------------------------
(* resolveOnePayout: operators act on held rows only.  What they confirm   *)
(* from the bank statement is true; the reference they type in is p's own. *)

Desk(r, p) ==
    LET go(at, ref, ans) == Go(r, [Idle EXCEPT !.at = at, !.p = p, !.ref = ref, !.ans = ans]) IN
    /\ run[r].at = "idle"
    /\ row[p].status = "NEEDS_REVIEW"
    /\ \/ go("read", Null, "none")                                              \* recover
       \/ rail[p] \in Accepted /\ go("type in", p, "none")                       \* poll
       \/ rail[p] \in {"paid", "returned"} /\ \E ref \in {p, Null} :
            go("success", ref, "none")                                          \* force_paid
       \/ /\ rail[p] \in {"refused", "failed", "returned"}                       \* force_failed
          /\ go("failure", Null, "none") \/ go("read", Null, "refund")
    /\ UNCHANGED <<rowVars, jobs, worldVars>>

TypeIn(r) ==
    LET w == run[r]  p == w.p IN
    /\ w.at = "type in"
    /\ row' = IF row[p].status = "NEEDS_REVIEW" THEN [row EXCEPT ![p].ref = w.ref] ELSE row
    /\ Go(r, [Idle EXCEPT !.at = "read", !.p = p])
    /\ UNCHANGED <<held, ledger, margin, jobs, worldVars>>

(* After the live re-check of a bank transfer. *)
Recheck(r) ==
    LET p == run[r].p IN
    /\ run[r].at = "recheck"
    /\ Go(r, IF row[p].status = "NEEDS_REVIEW" THEN [Idle EXCEPT !.at = "failure", !.p = p] ELSE Idle)
    /\ UNCHANGED <<rowVars, jobs, worldVars>>

-----------------------------------------------------------------------------
(* The rail, and the death of a process. *)

RailStep(p) ==
    /\ \E to \in CASE rail[p] = "on its way" -> {"processing", "refused"}
                   [] rail[p] = "processing" -> {"paid", "failed"}
                   [] rail[p] = "paid"       -> {"returned"}
                   [] OTHER                  -> {} :
         rail' = [rail EXCEPT ![p] = to]
    /\ UNCHANGED <<rowVars, jobs, run, sends, twins>>

Crash(r) ==
    /\ run[r].at # "idle"
    /\ Go(r, Idle)
    /\ UNCHANGED <<rowVars, jobs, worldVars>>

-----------------------------------------------------------------------------
RunStep(r) ==
    \/ Enqueue(r) \/ Claim(r) \/ Send(r) \/ Answer(r) \/ Persist(r) \/ HoldForReview(r)
    \/ Read(r) \/ List(r) \/ Check(r) \/ Store(r) \/ Reread(r) \/ Poll(r)
    \/ FinalizeSuccess(r) \/ Capture(r) \/ FinalizeFailure(r) \/ Reverse(r) \/ ClawMargin(r)
    \/ LinkWebhook(r) \/ TypeIn(r) \/ Recheck(r)

Start(r, p) ==
    \/ Create(r, p) \/ Approve(r, p) \/ Initiate(r, p) \/ Sweep(r, p) \/ Drain(r, p)
    \/ WebhookExact(r, p) \/ WebhookFuzzy(r, p) \/ Desk(r, p)

Next ==
    \/ \E r \in Runs : RunStep(r) \/ Crash(r)
    \/ \E r \in Runs, p \in Payouts : Start(r, p)
    \/ \E p \in Payouts : Reject(p) \/ RailStep(p)

Spec == Init /\ [][Next]_vars

(* The sweep runs every five minutes and looks at every row it may take;   *)
(* runs go on, and stop dying at some time; the rail ends what it has      *)
(* begun.  Nothing makes a dead run continue, a webhook arrive, a job be   *)
(* delivered or an operator act.                                           *)
Fairness ==
    /\ \A r \in Runs : WF_vars(RunStep(r))
    /\ <>[][\A r \in Runs : Crash(r) => RunStep(r)]_vars
    /\ \A p \in Payouts : SF_vars(\E r \in Runs : Sweep(r, p))
    /\ \A p \in Payouts : WF_vars(rail[p] = "processing" /\ RailStep(p))

FairSpec == Spec /\ Fairness

-----------------------------------------------------------------------------
(* Properties. *)

(* Type invariant. *)
TypeOK ==
    /\ row \in [Payouts -> [status : {"none"} \cup Open \cup TERMINAL, ref : Payouts \cup {Null}]]
    /\ held \in Nat
    /\ ledger \subseteq Payouts \X {"capture", "reversal"}
    /\ margin \subseteq Payouts \X {"booked", "clawed"} /\ jobs \subseteq Payouts
    /\ run \in [Runs -> [at : {"idle", "enqueue", "claim", "send", "wait", "persist", "review",
                              "read", "list", "check", "store", "reread", "poll", "success",
                              "capture", "failure", "reverse", "claw", "link", "type in", "recheck"},
                         p : Payouts \cup {Null}, ref : Payouts \cup {Null}, seen : SUBSET Payouts,
                         ans : {"none", "unclear", "declined", "PROCESSING", "PAID", "FAILED",
                                "update", "reversal", "refund"}]]
    /\ sends \in [Payouts -> Nat]
    /\ rail \in [Payouts -> {"none", "on its way", "refused"} \cup Accepted]
    /\ twins \in BOOLEAN

(* service.ts: "funds are HELD from submit until terminal" - the held      *)
(* balance is exactly what the open payouts reserve, whoever settles them. *)
HeldMatchesOpen == held = Cardinality({p \in Payouts : row[p].status \in Open})

(* The passbook agrees with the status: a payout is debited if and only if *)
(* it succeeded, and credited back if and only if it was reversed.  The     *)
(* revenue wallet never runs ahead of it: no margin without a success, none *)
(* taken back without a reversal.                                           *)
LedgerMatchesStatus ==
    \A p \in Payouts :
        /\ <<p, "capture">> \in ledger <=> row[p].status \in {"SUCCESS", "REVERSED"}
        /\ <<p, "reversal">> \in ledger <=> row[p].status = "REVERSED"
        /\ <<p, "booked">> \in margin => row[p].status \in {"SUCCESS", "REVERSED"}
        /\ <<p, "clawed">> \in margin => row[p].status = "REVERSED"

(* service.ts: "a worker retry must NEVER re-send" - redelivered jobs,     *)
(* crashes and lost answers lead to at most one transfer request.          *)
SentOnce == \A p \in Payouts : sends[p] <= 1

(* When every payout differs in amount or account, a payout succeeds only  *)
(* if its transfer was paid, and its funds are freed only if it was not.   *)
SettledAsTheRailDid ==
    ~twins => \A p \in Payouts :
        /\ row[p].status \in {"SUCCESS", "REVERSED"} => rail[p] \in {"paid", "returned"}
        /\ row[p].status = "FAILED" => rail[p] \in {"refused", "failed", "returned"}

(* The state machine of the file's header. *)
Stage(p) ==
    CASE row[p].status = "PENDING_APPROVAL" -> "asked"
      [] row[p].status = "APPROVED" -> "approved"
      [] row[p].status \in {"PROCESSING", "NEEDS_REVIEW"} -> "handed off"
      [] row[p].status = "SUCCESS" -> "captured"
      [] row[p].status \in {"FAILED", "REJECTED"} -> "released"
      [] row[p].status = "REVERSED" -> "reversed"
      [] OTHER -> "none"

Disbursal == INSTANCE Disbursal WITH stage <- [p \in Payouts |-> Stage(p)]

(* Every payout follows the state machine: no terminal state is left but   *)
(* by the reversal of a success, whatever races.                           *)
EndsOnce == Disbursal!Spec

(* service.ts: "an indeterminate hold self-resolves without operator       *)
(* action" - a payout the rail has a record of is settled by the sweep,    *)
(* even if the answer, the reference or the worker was lost, as long as no *)
(* other payout looks like it.                                             *)
KnownToRailSettles ==
    \A p \in Payouts :
        /\ ~twins /\ rail[p] \in Accepted /\ row[p].status \in {"PROCESSING", "NEEDS_REVIEW"}
        ~> row[p].status \in TERMINAL

(* service.ts: "two payouts of the same amount to the same account can     *)
(* never steal each other's record".                                       *)
OwnRecord == \A p \in Payouts : row[p].ref \in {p, Null}
=============================================================================
