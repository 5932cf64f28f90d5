----------------------------- MODULE T1Settlement -----------------------------
(***************************************************************************)
(* The daily move of an agent's AEPS balance to the primary wallet:        *)
(* settleUser of src/src/lib/settlement/t1.ts, run by the hourly cron and  *)
(* by an operator's "run now", on one day and for one user (the books and  *)
(* the slots of two users never meet).  The slot, the reads, the two       *)
(* ledger legs and the final writes are separate transactions.             *)
(***************************************************************************)
EXTENDS Integers

CONSTANTS
    AepsFunds,      \* the AEPS balance in the morning
    KeepBalance,    \* the float the user wants to keep
    MinAmount,      \* settlement minimum
    PerTxnCap,      \* ceiling of one transfer
    DailyCap        \* ceiling of a day

ASSUME T1Assumption ==
    /\ AepsFunds \in Nat /\ KeepBalance \in Nat /\ MinAmount \in Nat
    /\ PerTxnCap \in Nat \ {0} /\ DailyCap \in Nat \ {0}

VARIABLES
    slot,       \* trigger -> its SettlementRun of the day: status, detail, amount
    debited,    \* trigger -> AEPS debit under its key, 0 if none
    credited,   \* trigger -> PRIMARY credit under its key, 0 if none
    settling    \* trigger -> where settleUser is, with the amount so far

t1Vars == <<slot, debited, credited, settling>>

RunTriggers == {"CRON", "MANUAL"}

T1Init ==
    /\ slot = [g \in RunTriggers |-> [status |-> "none", detail |-> "none", amount |-> 0]]
    /\ debited = [g \in RunTriggers |-> 0]
    /\ credited = [g \in RunTriggers |-> 0]
    /\ settling = [g \in RunTriggers |-> [at |-> "start", amount |-> 0]]

-----------------------------------------------------------------------------
AepsBalance   == AepsFunds - (debited["CRON"] + debited["MANUAL"])
SettledBy(g)  == IF slot[g].status = "SUCCESS" THEN slot[g].amount ELSE 0
SettledToday  == SettledBy("CRON") + SettledBy("MANUAL")

Lower(a, b) == IF a < b THEN a ELSE b

T1At(g, at, amount) == settling' = [settling EXCEPT ![g] = [at |-> at, amount |-> amount]]

T1Finish(g, status, amount) ==
    /\ slot' = [slot EXCEPT ![g] = [status |-> status, detail |-> "finished", amount |-> amount]]
    /\ T1At(g, "over", 0)

(* (user, day, trigger) is unique: a later run of the trigger skips.  The  *)
(* row starts out SKIPPED and only its detail tells that it is being run.  *)
ClaimSlot(g) ==
    /\ settling[g].at = "start"
    /\ slot' = [slot EXCEPT ![g].status = "SKIPPED", ![g].detail = "in progress"]
    /\ T1At(g, "read", 0)
    /\ UNCHANGED <<debited, credited>>

(* An inactive or paused user, or too little above the float.              *)
Skip(g) ==
    /\ settling[g].at = "read"
    /\ T1Finish(g, "SKIPPED", 0)
    /\ UNCHANGED <<debited, credited>>

ReadBalance(g) ==
    LET sweepable == AepsBalance - KeepBalance IN
    /\ settling[g].at = "read"
    /\ sweepable >= MinAmount /\ sweepable > 0
    /\ T1At(g, "caps", Lower(sweepable, PerTxnCap))
    /\ UNCHANGED <<slot, debited, credited>>

ReadDailyCap(g) ==
    LET remaining == DailyCap - SettledToday IN
    /\ settling[g].at = "caps"
    /\ IF remaining > 0
       THEN T1At(g, "debit", Lower(settling[g].amount, remaining)) /\ UNCHANGED slot
       ELSE T1Finish(g, "SKIPPED", 0)
    /\ UNCHANGED <<debited, credited>>

LegFails(g) == T1At(g, "alert", 0)

DebitAeps(g) ==
    LET amount == settling[g].amount IN
    /\ settling[g].at = "debit"
    /\ \/ AepsBalance >= amount /\ debited' = [debited EXCEPT ![g] = amount] /\ T1At(g, "credit", amount)
       \/ UNCHANGED debited /\ LegFails(g)
    /\ UNCHANGED <<slot, credited>>

CreditPrimary(g) ==
    LET amount == settling[g].amount IN
    /\ settling[g].at = "credit"
    /\ \/ credited' = [credited EXCEPT ![g] = amount] /\ T1At(g, "link", amount)
       \/ UNCHANGED credited /\ LegFails(g)
    /\ UNCHANGED <<slot, debited>>

LinkLegs(g) ==
    /\ settling[g].at = "link"
    /\ T1At(g, "success", settling[g].amount) \/ LegFails(g)
    /\ UNCHANGED <<slot, debited, credited>>

FinishSuccess(g) ==
    /\ settling[g].at = "success"
    /\ T1Finish(g, "SUCCESS", settling[g].amount)
    /\ UNCHANGED <<debited, credited>>

(* Mutant: a failed leg ends the run like a user with nothing to settle. *)
FinishSkipped(g) ==
    /\ settling[g].at = "alert"
    /\ T1Finish(g, "SKIPPED", 0)
    /\ UNCHANGED <<debited, credited>>

FinishFailed(g) ==
    /\ settling[g].at = "alert"
    /\ T1Finish(g, "FAILED", 0)
    /\ UNCHANGED <<debited, credited>>

(* The process dies, or a write outside the try fails: the slot stays. *)
T1Crash(g) ==
    /\ settling[g].at \notin {"start", "over"}
    /\ T1At(g, "over", 0)
    /\ UNCHANGED <<slot, debited, credited>>

T1Step(g) ==
    \/ ClaimSlot(g) \/ Skip(g) \/ ReadBalance(g) \/ ReadDailyCap(g) \/ DebitAeps(g)
    \/ CreditPrimary(g) \/ LinkLegs(g) \/ FinishSuccess(g) \/ FinishFailed(g) \/ T1Crash(g)

T1Next == \E g \in RunTriggers : T1Step(g)

T1Spec == T1Init /\ [][T1Next]_t1Vars

-----------------------------------------------------------------------------
(* Properties. *)

T1TypeOK ==
    /\ slot \in [RunTriggers -> [status : {"none", "SKIPPED", "SUCCESS", "FAILED"},
                                 detail : {"none", "in progress", "finished"}, amount : Nat]]
    /\ debited \in [RunTriggers -> Nat]
    /\ credited \in [RunTriggers -> Nat]
    /\ settling \in [RunTriggers ->
         [at : {"start", "read", "caps", "debit", "credit", "link", "success", "alert", "over"},
          amount : Nat]]

(* The two legs are two transactions and the slot is never run again, so   *)
(* money can be stuck between the books - but only at a run that reads     *)
(* FAILED or, having died, still SKIPPED "in progress".  One that reads    *)
(* SUCCESS moved its amount through both books, one that finished SKIPPED  *)
(* moved nothing, whichever trigger raced it, and nothing is credited that *)
(* was not debited first.                                                  *)
T1BooksAgree ==
    /\ AepsBalance >= 0
    /\ \A g \in RunTriggers :
         /\ credited[g] \in {0, debited[g]}
         /\ debited[g] <= Lower(PerTxnCap, DailyCap)
         /\ slot[g].status = "SUCCESS" => credited[g] = slot[g].amount /\ slot[g].amount > 0
         /\ slot[g].status = "SKIPPED" /\ slot[g].detail = "finished" => debited[g] = 0
         /\ debited[g] # credited[g] => slot[g].status = "FAILED" \/ slot[g].detail = "in progress"
=============================================================================
