---------------------------- MODULE PayoutProofs ----------------------------
(***************************************************************************)
(* Proofs about Payout, for any number of payouts and handlers, crashing   *)
(* at will.  The inductive invariant PayInv has three legs:                *)
(*                                                                         *)
(*   - money: the hold and the passbook are functions of the statuses,     *)
(*     since whoever moves a status moves them with it, and the revenue    *)
(*     wallet, booked at best, is never ahead of them;                     *)
(*   - sending: the claim APPROVED -> PROCESSING is won once and never     *)
(*     undone, so one run at most is ever on its way to the rail;          *)
(*   - truth: what a run remembers of the rail (a reference, an answer, a  *)
(*     finding of the desk) stays true while it waits, because the rail    *)
(*     never takes back what it has said, except by a return.              *)
(***************************************************************************)
EXTENDS Payout, FiniteSetTheorems, TLAPS

RowType == [status : {"none"} \cup Open \cup TERMINAL, ref : Payouts \cup {Null}]

RunType ==
    [at : {"idle", "enqueue", "claim", "send", "wait", "persist", "review", "read", "list", "check",
           "store", "reread", "poll", "success", "capture", "failure", "reverse", "claw", "link",
           "type in", "recheck"},
     p : Payouts \cup {Null}, ref : Payouts \cup {Null}, seen : SUBSET Payouts,
     ans : {"none", "unclear", "declined", "PROCESSING", "PAID", "FAILED", "update", "reversal",
            "refund"}]

Shape ==
    /\ row \in [Payouts -> RowType] /\ run \in [Runs -> RunType]
    /\ ledger \subseteq Payouts \X {"capture", "reversal"}
    /\ margin \subseteq Payouts \X {"booked", "clawed"} /\ jobs \subseteq Payouts
    /\ sends \in [Payouts -> Nat]
    /\ rail \in [Payouts -> {"none", "on its way", "refused"} \cup Accepted]
    /\ twins \in BOOLEAN

Unsent == {"none", "PENDING_APPROVAL", "APPROVED"}
Paid   == {"paid", "returned"}
Unpaid == {"refused", "failed", "returned"}

(* A run at work has a payout, one that polls a reference to poll, and one *)
(* that writes an answer down the answer of a transfer request. *)
Fits(w) ==
    /\ w.p \in Payouts \/ w = Idle
    /\ w.at = "poll" => w.ref # Null
    /\ w.at = "persist" => w.ans \in {"unclear", "declined", "PROCESSING", "PAID", "FAILED"}

(* What a run remembers is so, when payouts cannot be mistaken. *)
Believes(w) ==
    ~twins =>
        /\ w.ref \in {w.p, Null} /\ w.seen \subseteq {w.p}
        /\ w.ref # Null \/ w.seen # {} \/ w.ans \in {"PROCESSING", "PAID", "FAILED"} =>
             rail[w.p] \in Accepted
        /\ w.at \in {"success", "capture"} \/ w.ans = "PAID" => rail[w.p] \in Paid
        /\ w.at \in {"failure", "recheck"} \/ w.ans \in {"FAILED", "declined", "refund"} =>
             rail[w.p] \in Unpaid

Fresh(w) == w \in RunType /\ Fits(w) /\ Believes(w) /\ w.at \notin {"send", "claw"}

RunsKnow ==
    \A r \in Runs :
        /\ Fits(run[r]) /\ Believes(run[r])
        /\ run[r].at = "claw" => row[run[r].p].status = "REVERSED"
        /\ run[r].at = "send" => sends[run[r].p] = 0 /\ row[run[r].p].status \notin Unsent

OneSender ==
    \A r, s \in Runs : run[r].at = "send" /\ run[s].at = "send" /\ run[r].p = run[s].p => r = s

LedgerRow(p) ==
    /\ <<p, "capture">> \in ledger <=> row[p].status \in {"SUCCESS", "REVERSED"}
    /\ <<p, "reversal">> \in ledger <=> row[p].status = "REVERSED"
    /\ <<p, "booked">> \in margin => row[p].status \in {"SUCCESS", "REVERSED"}
    /\ <<p, "clawed">> \in margin => row[p].status = "REVERSED"

RowTrue(p) ==
    ~twins =>
        /\ row[p].ref \in {p, Null}
        /\ row[p].ref # Null => rail[p] \in Accepted
        /\ row[p].status \in {"SUCCESS", "REVERSED"} => rail[p] \in Paid
        /\ row[p].status = "FAILED" => rail[p] \in Unpaid

RowsAgree ==
    \A p \in Payouts :
        /\ LedgerRow(p) /\ RowTrue(p)
        /\ sends[p] <= 1
        /\ row[p].status \in Unsent => sends[p] = 0

PayInv == Shape /\ HeldMatchesOpen /\ RunsKnow /\ OneSender /\ RowsAgree

-----------------------------------------------------------------------------
LEMMA IdleFresh == Idle \in RunType /\ Idle.at = "idle" /\ Idle.p = Null /\ Fresh(Idle)
  BY DEF Idle, RunType, Fresh, Fits, Believes

LEMMA InitInv == Init => PayInv
  <1> SUFFICES ASSUME Init PROVE PayInv OBVIOUS
  <1>1. PICK W \in SUBSET Payouts :
            /\ row = [p \in Payouts |-> [status |-> IF p \in W THEN "PENDING_APPROVAL" ELSE "none",
                                         ref |-> Null]]
            /\ held = Cardinality(W)
    BY DEF Init
  <1>2. Shape
    BY <1>1, IdleFresh DEF Init, Shape, RowType, Open, HOLDABLE
  <1>3. HeldMatchesOpen
    <2>1. {p \in Payouts : row[p].status \in Open} = W
      BY <1>1 DEF Open, HOLDABLE
    <2> QED BY <2>1, <1>1 DEF HeldMatchesOpen
  <1>4. RunsKnow /\ OneSender
    BY IdleFresh DEF Init, RunsKnow, OneSender, Fresh
  <1>5. RowsAgree
    BY <1>1 DEF Init, RowsAgree, LedgerRow, RowTrue
  <1> QED BY <1>2, <1>3, <1>4, <1>5 DEF PayInv

-----------------------------------------------------------------------------
(* What the proofs of the actions use of the invariant. *)
LEMMA Known ==
    ASSUME PayInv
    PROVE  /\ jobs \subseteq Payouts
           /\ \A r \in Runs :
                /\ run[r] \in RunType /\ Fits(run[r]) /\ Believes(run[r])
                /\ run[r].at # "idle" \/ run[r].ans = "refund" => run[r].p \in Payouts
           /\ \A p \in Payouts : row[p] \in RowType /\ LedgerRow(p) /\ RowTrue(p)
  <1>1. jobs \subseteq Payouts /\ \A p \in Payouts : row[p] \in RowType /\ LedgerRow(p) /\ RowTrue(p)
    BY DEF PayInv, Shape, RowsAgree
  <1>2. \A r \in Runs : run[r] \in RunType /\ Fits(run[r]) /\ Believes(run[r])
    BY DEF PayInv, Shape, RunsKnow
  <1>3. \A r \in Runs : run[r].at # "idle" \/ run[r].ans = "refund" => run[r].p \in Payouts
    BY <1>2 DEF Fits, Idle
  <1> QED BY <1>1, <1>2, <1>3

(* The number of open payouts changes with the status of one. *)
LEMMA OpenCount ==
    ASSUME PayInv, NEW p \in Payouts, NEW v \in RowType, row' = [row EXCEPT ![p] = v],
           \/ held' = held /\ (v.status \in Open <=> row[p].status \in Open)
           \/ held' = held + 1 /\ v.status \in Open /\ row[p].status \notin Open
           \/ held' = held - 1 /\ v.status \notin Open /\ row[p].status \in Open
    PROVE  HeldMatchesOpen'
  <1> DEFINE O == {q \in Payouts : row[q].status \in Open}
             N == {q \in Payouts : row'[q].status \in Open}
  <1>1. IsFiniteSet(O) /\ held = Cardinality(O) /\ Cardinality(O) \in Nat
    BY PayoutsAssumption, FS_Subset, FS_CardinalityType DEF PayInv, HeldMatchesOpen
  <1>2. row'[p] = v /\ \A q \in Payouts \ {p} : row'[q] = row[q]
    BY DEF PayInv, Shape
  <1>3. (p \in N <=> v.status \in Open) /\ (p \in O <=> row[p].status \in Open)
    BY <1>2
  <1>4. N \ {p} = O \ {p}
    BY <1>2
  <1> HIDE DEF O, N
  <1>5. held' = Cardinality(N)
    <2>1. CASE held' = held /\ (v.status \in Open <=> row[p].status \in Open)
      <3>1. N = O BY <1>3, <1>4, <2>1
      <3> QED BY <3>1, <2>1, <1>1
    <2>2. CASE held' = held + 1 /\ v.status \in Open /\ row[p].status \notin Open
      <3>1. N = O \cup {p} /\ p \notin O BY <1>3, <1>4, <2>2
      <3>2. Cardinality(N) = Cardinality(O) + 1 BY <3>1, <1>1, FS_AddElement
      <3> QED BY <3>2, <2>2, <1>1
    <2>3. CASE held' = held - 1 /\ v.status \notin Open /\ row[p].status \in Open
      <3>1. N = O \ {p} /\ p \in O BY <1>3, <1>4, <2>3
      <3>2. Cardinality(N) = Cardinality(O) - 1 BY <3>1, <1>1, FS_RemoveElement
      <3> QED BY <3>2, <2>3, <1>1
    <2> QED BY <2>1, <2>2, <2>3
  <1> QED BY <1>5 DEF N, HeldMatchesOpen

(* A run looks at something and goes on, or ends. *)
LEMMA GoKeeps ==
    ASSUME PayInv, NEW r \in Runs, NEW w, Fresh(w), Go(r, w), UNCHANGED <<rowVars, worldVars>>,
           jobs' \subseteq Payouts
    PROVE  PayInv'
  <1> USE DEF PayInv, Go, rowVars, worldVars
  <1>1. run' \in [Runs -> RunType] /\ run'[r] = w /\ \A s \in Runs \ {r} : run'[s] = run[s]
    BY DEF Shape, Fresh
  <1>2. Shape' /\ HeldMatchesOpen' /\ RowsAgree'
    BY <1>1 DEF Shape, HeldMatchesOpen, RowsAgree, LedgerRow, RowTrue
  <1>3. RunsKnow'
    BY <1>1 DEF RunsKnow, Fits, Believes, Fresh
  <1>4. OneSender'
    BY <1>1 DEF OneSender, Fresh
  <1> QED BY <1>2, <1>3, <1>4

(* One row is written, in step with the ledger and the hold, while the run *)
(* that did it moves on or - a reversal - has its margin left to claw back. *)
LEMMA RowKeeps ==
    ASSUME PayInv, NEW p \in Payouts, NEW v \in RowType, row' = [row EXCEPT ![p] = v],
           run' \in [Runs -> RunType],
           \A s \in Runs : \/ run'[s] = run[s]
                           \/ Fresh(run'[s])
                           \/ /\ run'[s].at = "claw" /\ run'[s].p = p /\ v.status = "REVERSED"
                              /\ Fits(run'[s]) /\ Believes(run'[s]),
           UNCHANGED <<jobs, worldVars>>,
           v.status \in Unsent => row[p].status \in Unsent,
           row[p].status = "REVERSED" => v.status = "REVERSED",
           HeldMatchesOpen',
           ledger' \subseteq Payouts \X {"capture", "reversal"},
           margin' \subseteq Payouts \X {"booked", "clawed"},
           \A q \in Payouts \ {p} : /\ \A k \in {"booked", "clawed"} :
                                         <<q, k>> \in margin' <=> <<q, k>> \in margin
                                    /\ \A k \in {"capture", "reversal"} :
                                         <<q, k>> \in ledger' <=> <<q, k>> \in ledger,
           LedgerRow(p)', RowTrue(p)'
    PROVE  PayInv'
  <1> USE DEF PayInv, worldVars
  <1>1. row' \in [Payouts -> RowType] /\ row'[p] = v /\ \A q \in Payouts \ {p} : row'[q] = row[q]
    BY DEF Shape
  <1>2. Shape'
    BY <1>1 DEF Shape
  <1>3. RunsKnow'
    <2> SUFFICES ASSUME NEW s \in Runs
                 PROVE  /\ Fits(run[s])' /\ Believes(run[s])'
                        /\ run'[s].at = "claw" => row'[run'[s].p].status = "REVERSED"
                        /\ run'[s].at = "send" =>
                             sends'[run'[s].p] = 0 /\ row'[run'[s].p].status \notin Unsent
      BY DEF RunsKnow
    <2>1. CASE run'[s] = run[s]
      <3>1. run[s].at \in {"claw", "send"} => run[s].p \in Payouts
        BY Known
      <3> QED BY <2>1, <3>1, <1>1 DEF RunsKnow, Fits, Believes
    <2>2. CASE Fresh(run'[s])
      BY <2>2 DEF Fresh, Fits, Believes
    <2>3. CASE /\ run'[s].at = "claw" /\ run'[s].p = p /\ v.status = "REVERSED"
               /\ Fits(run'[s]) /\ Believes(run'[s])
      BY <2>3, <1>1 DEF Fits, Believes
    <2> QED BY <2>1, <2>2, <2>3
  <1>4. OneSender'
    BY DEF OneSender, Fresh
  <1>5. RowsAgree'
    <2> SUFFICES ASSUME NEW q \in Payouts
                 PROVE  /\ LedgerRow(q)' /\ RowTrue(q)'
                        /\ sends'[q] <= 1 /\ (row'[q].status \in Unsent => sends'[q] = 0)
      BY DEF RowsAgree
    <2>1. CASE q = p
      BY <2>1, <1>1 DEF RowsAgree
    <2>2. CASE q # p
      BY <2>2, <1>1 DEF RowsAgree, LedgerRow, RowTrue
    <2> QED BY <2>1, <2>2
  <1> QED BY <1>2, <1>3, <1>4, <1>5

LEMMA RunWritten ==
    ASSUME PayInv, NEW r \in Runs, NEW w \in RunType, Go(r, w)
    PROVE  run' \in [Runs -> RunType] /\ run'[r] = w /\ \A s \in Runs \ {r} : run'[s] = run[s]
  BY DEF PayInv, Shape, Go

(* A run that ends, or goes on to the second look of a manual refund. *)
LEMMA DoneFresh ==
    ASSUME PayInv, NEW r \in Runs, Done(r)
    PROVE  \E w : Fresh(w) /\ Go(r, w)
  <1> DEFINE w == [Idle EXCEPT !.at = "recheck", !.p = run[r].p]
  <1>1. CASE run[r].ans = "refund"
    <2>1. run[r].p \in Payouts
      BY <1>1, Known
    <2>2. w \in RunType /\ w.at = "recheck" /\ w.p = run[r].p /\ w.ref = Null /\ w.seen = {}
                        /\ w.ans = "none"
      BY <2>1 DEF Idle, RunType
    <2>3. Go(r, w)
      BY <1>1 DEF Done
    <2> HIDE DEF w
    <2>4. Fresh(w)
      BY <1>1, <2>1, <2>2, Known DEF Fresh, Fits, Believes
    <2> QED BY <2>3, <2>4
  <1>2. CASE run[r].ans # "refund"
    BY <1>2, IdleFresh DEF Done
  <1> QED BY <1>1, <1>2

LEMMA DoneKeeps ==
    ASSUME PayInv, NEW r \in Runs, Done(r), UNCHANGED <<rowVars, worldVars>>, jobs' \subseteq Payouts
    PROVE  PayInv'
  BY DoneFresh, GoKeeps

(* The row that reconcilePayout reads tells the run what to poll. *)
LEMMA ReconcileKeeps ==
    ASSUME PayInv, NEW r \in Runs, NEW w \in RunType, w.p \in Payouts, Believes(w),
           w.at \in {"idle", "read"}, Reconcile(r, w), UNCHANGED <<rowVars, jobs, worldVars>>
    PROVE  PayInv'
  <1> DEFINE at == IF row[w.p].ref = Null THEN "list" ELSE "poll"
             v  == [w EXCEPT !.at = at, !.ref = row[w.p].ref]
  <1>1. CASE row[w.p].status \notin HOLDABLE
    BY <1>1, DoneKeeps, Known DEF Reconcile
  <1>2. CASE row[w.p].status \in HOLDABLE
    <2>1. row[w.p].ref \in Payouts \cup {Null}
      BY Known DEF RowType
    <2>2. /\ v \in RunType /\ v.at = at /\ v.p = w.p /\ v.ref = row[w.p].ref
          /\ v.seen = w.seen /\ v.ans = w.ans
      BY <2>1 DEF RunType
    <2>3. Go(r, v)
      BY <1>2 DEF Reconcile
    <2>4. RowTrue(w.p)
      BY Known
    <2> HIDE DEF v
    <2>5. Fresh(v)
      BY <2>2, <2>4 DEF Fresh, Fits, Believes, RowTrue
    <2> QED BY <2>3, <2>5, GoKeeps, Known
  <1> QED BY <1>1, <1>2

(* A run for p begins, with what it was told. *)
LEMMA StartKeeps ==
    ASSUME PayInv, NEW r \in Runs, NEW w \in RunType, w.p \in Payouts, w.seen = {},
           w.at \in {"enqueue", "claim", "read", "reverse", "success", "failure", "link", "type in"},
           w.ans \in {"none", "update", "reversal", "refund"},
           ~twins =>
             /\ w.ref \in {w.p, Null} /\ (w.ref # Null => rail[w.p] \in Accepted)
             /\ w.at = "success" => rail[w.p] \in Paid
             /\ w.at = "failure" \/ w.ans = "refund" => rail[w.p] \in Unpaid,
           Go(r, w), UNCHANGED <<rowVars, jobs, worldVars>>
    PROVE  PayInv'
  <1>1. Fresh(w)
    BY DEF Fresh, Fits, Believes
  <1> QED BY <1>1, GoKeeps, Known

-----------------------------------------------------------------------------
LEMMA EnqueueKeeps == ASSUME PayInv, NEW r \in Runs, Enqueue(r) PROVE PayInv'
  BY Known, DoneKeeps DEF Enqueue

LEMMA InitiateKeeps ==
    ASSUME PayInv, NEW r \in Runs, NEW p \in Payouts, Initiate(r, p) PROVE PayInv'
  <1> DEFINE at == IF row[p].ref = Null THEN "claim" ELSE "read"
             w  == [Idle EXCEPT !.at = at, !.p = p]
  <1>1. w \in RunType /\ w.at = at /\ w.p = p /\ w.ref = Null /\ w.seen = {} /\ w.ans = "none"
    BY DEF Idle, RunType
  <1>2. Go(r, w) /\ UNCHANGED <<rowVars, jobs, worldVars>>
    BY DEF Initiate
  <1> HIDE DEF w
  <1> QED BY <1>1, <1>2, StartKeeps

LEMMA SweepKeeps ==
    ASSUME PayInv, NEW r \in Runs, NEW p \in Payouts, Sweep(r, p) \/ Drain(r, p) PROVE PayInv'
  <1> DEFINE w == [Idle EXCEPT !.p = p]
  <1>1. w \in RunType /\ w.at = "idle" /\ w.p = p /\ Believes(w)
    BY DEF Idle, RunType, Believes
  <1>2. Reconcile(r, w) /\ UNCHANGED <<rowVars, jobs, worldVars>>
    BY DEF Sweep, Drain
  <1> HIDE DEF w
  <1> QED BY <1>1, <1>2, ReconcileKeeps

LEMMA ReadKeeps == ASSUME PayInv, NEW r \in Runs, Read(r) PROVE PayInv'
  BY Known, ReconcileKeeps DEF Read

LEMMA CrashKeeps == ASSUME PayInv, NEW r \in Runs, Crash(r) PROVE PayInv'
  BY Known, IdleFresh, GoKeeps DEF Crash

(* The answer is what the rail made of the transfer, or nothing. *)
LEMMA AnswerKeeps == ASSUME PayInv, NEW r \in Runs, Answer(r) PROVE PayInv'
  <1>1. PICK a \in {"unclear"} \cup (IF rail[run[r].p] \in Accepted THEN Reading(run[r].p)
                                     ELSE IF rail[run[r].p] = "refused" THEN {"declined"} ELSE {}) :
            Go(r, [run[r] EXCEPT !.at = "persist", !.ans = a])
    BY DEF Answer
  <1>2. /\ a \in {"unclear", "declined", "PROCESSING", "PAID", "FAILED"}
        /\ a \in {"PROCESSING", "PAID", "FAILED"} => rail[run[r].p] \in Accepted
        /\ a = "PAID" => rail[run[r].p] \in Paid
        /\ a \in {"FAILED", "declined"} => rail[run[r].p] \in Unpaid
    BY <1>1 DEF Reading, Accepted, Paid, Unpaid
  <1> DEFINE w == [run[r] EXCEPT !.at = "persist", !.ans = a]
  <1>3. /\ w \in RunType /\ w.at = "persist" /\ w.ans = a /\ w.p = run[r].p /\ w.ref = run[r].ref
        /\ w.seen = run[r].seen
    BY <1>2, Known DEF RunType
  <1>4. Go(r, w) /\ run[r].p \in Payouts
    BY <1>1, Known DEF Answer
  <1> HIDE DEF w
  <1>5. Fresh(w)
    BY <1>2, <1>3, <1>4, Known DEF Fresh, Fits, Believes
  <1> QED BY <1>4, <1>5, GoKeeps, Known DEF Answer

(* What the list shows of p, when nothing looks like it, is p's record. *)
LEMMA ListKeeps == ASSUME PayInv, NEW r \in Runs, List(r) PROVE PayInv'
  <1> DEFINE w == run[r]
             v == [w EXCEPT !.at = "check", !.seen = Matching(w.p)]
  <1>1. CASE Matching(w.p) = {}
    BY <1>1, DoneKeeps, Known DEF List
  <1>2. CASE Matching(w.p) # {}
    <2>1. Matching(w.p) \subseteq Payouts
          /\ (~twins => /\ Matching(w.p) \subseteq {w.p}
                        /\ Matching(w.p) # {} => rail[w.p] \in Accepted)
      BY DEF Matching, Alike
    <2>2. /\ v \in RunType /\ v.at = "check" /\ v.p = w.p /\ v.ref = w.ref /\ v.seen = Matching(w.p)
          /\ v.ans = w.ans
      BY <2>1, Known DEF RunType
    <2>3. Go(r, v) /\ w.p \in Payouts
      BY <1>2, Known DEF List
    <2> HIDE DEF v
    <2>4. Fresh(v)
      BY <2>1, <2>2, <2>3, Known DEF Fresh, Fits, Believes
    <2> QED BY <2>3, <2>4, GoKeeps, Known DEF List
  <1> QED BY <1>1, <1>2

LEMMA CheckKeeps == ASSUME PayInv, NEW r \in Runs, Check(r) PROVE PayInv'
  <1> DEFINE w == run[r]
  <1>1. CASE Done(r)
    BY <1>1, DoneKeeps, Known DEF Check
  <1>2. CASE \E q \in w.seen : Go(r, [w EXCEPT !.at = "store", !.ref = q, !.seen = {}])
    <2>1. PICK q \in w.seen : Go(r, [w EXCEPT !.at = "store", !.ref = q, !.seen = {}])
      BY <1>2
    <2> DEFINE v == [w EXCEPT !.at = "store", !.ref = q, !.seen = {}]
    <2>2. q \in Payouts /\ w.p \in Payouts
      BY Known DEF RunType, Check
    <2>3. /\ v \in RunType /\ v.at = "store" /\ v.p = w.p /\ v.ref = q /\ v.seen = {}
          /\ v.ans = w.ans
      BY <2>2, Known DEF RunType
    <2> HIDE DEF v
    <2>4. Fresh(v)
      BY <2>2, <2>3, Known DEF Fresh, Fits, Believes
    <2> QED BY <2>1, <2>4, GoKeeps, Known DEF Check, v
  <1> QED BY <1>1, <1>2 DEF Check

LEMMA RereadKeeps == ASSUME PayInv, NEW r \in Runs, Reread(r) PROVE PayInv'
  <1> DEFINE w == run[r]
             v == [w EXCEPT !.at = "poll", !.ref = row[w.p].ref]
  <1>1. CASE Done(r)
    BY <1>1, DoneKeeps, Known DEF Reread
  <1>2. CASE row[w.p].ref # Null /\ Go(r, v)
    <2>1. w.p \in Payouts /\ row[w.p].ref \in Payouts \cup {Null} /\ RowTrue(w.p)
      BY Known DEF RowType, Reread
    <2>2. /\ v \in RunType /\ v.at = "poll" /\ v.p = w.p /\ v.ref = row[w.p].ref
          /\ v.seen = w.seen /\ v.ans = w.ans
      BY <2>1, Known DEF RunType
    <2> HIDE DEF v
    <2>3. Fresh(v)
      BY <1>2, <2>1, <2>2, Known DEF Fresh, Fits, Believes, RowTrue
    <2> QED BY <1>2, <2>3, GoKeeps, Known DEF Reread
  <1> QED BY <1>1, <1>2 DEF Reread

LEMMA PollKeeps == ASSUME PayInv, NEW r \in Runs, Poll(r) PROVE PayInv'
  <1> DEFINE w == run[r]
  <1>1. PICK a \in Reading(w.ref) :
            IF a = "PROCESSING" THEN Done(r)
            ELSE Go(r, [w EXCEPT !.at = IF a = "PAID" THEN "success" ELSE "failure", !.ref = Null])
    BY DEF Poll
  <1>2. CASE a = "PROCESSING"
    BY <1>1, <1>2, DoneKeeps, Known DEF Poll
  <1>3. CASE a # "PROCESSING"
    <2> DEFINE v == [w EXCEPT !.at = IF a = "PAID" THEN "success" ELSE "failure", !.ref = Null]
    <2>1. /\ v \in RunType /\ v.at = IF a = "PAID" THEN "success" ELSE "failure"
          /\ v.p = w.p /\ v.ref = Null /\ v.seen = w.seen /\ v.ans = w.ans
      BY Known DEF RunType
    <2>2. Go(r, v) /\ w.at = "poll" /\ w.p \in Payouts
      BY <1>1, <1>3, Known DEF Poll
    <2>3. ~twins => /\ rail[w.p] \in Accepted
                    /\ a = "PAID" => rail[w.p] \in Paid
                    /\ a # "PAID" => rail[w.p] \in Unpaid
      BY <1>3, <2>2, Known DEF Fits, Believes, Reading, Accepted, Paid, Unpaid
    <2> HIDE DEF v
    <2>4. Fresh(v)
      BY <2>1, <2>2, <2>3, Known DEF Fresh, Fits, Believes
    <2> QED BY <2>2, <2>4, GoKeeps, Known DEF Poll
  <1> QED BY <1>2, <1>3

LEMMA FinalizeSuccessKeeps == ASSUME PayInv, NEW r \in Runs, FinalizeSuccess(r) PROVE PayInv'
  <1> DEFINE w   == run[r]
             ref == IF w.ref = Null THEN row[w.p].ref ELSE w.ref
             v   == [w EXCEPT !.at = "capture", !.ref = IF @ = Null THEN row[w.p].ref ELSE @]
  <1>1. CASE Done(r)
    BY <1>1, DoneKeeps, Known DEF FinalizeSuccess
  <1>2. CASE Go(r, v)
    <2>1. w.p \in Payouts /\ row[w.p].ref \in Payouts \cup {Null} /\ RowTrue(w.p) /\ w.at = "success"
      BY Known DEF RowType, FinalizeSuccess
    <2>2. /\ v \in RunType /\ v.at = "capture" /\ v.p = w.p /\ v.ref = ref
          /\ v.seen = w.seen /\ v.ans = w.ans
      BY <2>1, Known DEF RunType
    <2>3. ~twins => ref \in {w.p, Null} /\ (ref # Null => rail[w.p] \in Accepted)
      BY <2>1, Known DEF RowTrue, Believes
    <2> HIDE DEF v, ref
    <2>4. Fresh(v)
      BY <2>1, <2>2, <2>3, Known DEF Fresh, Fits, Believes
    <2> QED BY <1>2, <2>4, GoKeeps, Known DEF FinalizeSuccess
  <1> QED BY <1>1, <1>2 DEF FinalizeSuccess

LEMMA WebhookKeeps ==
    ASSUME PayInv, NEW r \in Runs, NEW q \in Payouts, WebhookExact(r, q) \/ WebhookFuzzy(r, q)
    PROVE  PayInv'
  <1>1. CASE WebhookExact(r, q)
    <2>1. PICK p \in Payouts, e \in EventOf(q) :
              Go(r, [Idle EXCEPT !.p = p, !.at = IF e = "reversal" /\ row[p].status = "SUCCESS"
                                                   THEN "reverse" ELSE "read"])
      BY <1>1 DEF WebhookExact
    <2> DEFINE at == IF e = "reversal" /\ row[p].status = "SUCCESS" THEN "reverse" ELSE "read"
               w  == [Idle EXCEPT !.p = p, !.at = at]
    <2>2. w \in RunType /\ w.at = at /\ w.p = p /\ w.ref = Null /\ w.seen = {} /\ w.ans = "none"
      BY DEF Idle, RunType
    <2>3. Go(r, w) /\ UNCHANGED <<rowVars, jobs, worldVars>>
      BY <1>1, <2>1 DEF WebhookExact
    <2> HIDE DEF w
    <2> QED BY <2>2, <2>3, StartKeeps
  <1>2. CASE WebhookFuzzy(r, q)
    <2>1. PICK p \in Payouts, e \in EventOf(q) :
              Alike(p, q) /\ Go(r, [Idle EXCEPT !.at = "link", !.p = p, !.ref = q, !.ans = e])
      BY <1>2 DEF WebhookFuzzy
    <2> DEFINE w == [Idle EXCEPT !.at = "link", !.p = p, !.ref = q, !.ans = e]
    <2>2. e \in {"update", "reversal"} /\ rail[q] \in Accepted
      BY <1>2 DEF EventOf, WebhookFuzzy
    <2>3. w \in RunType /\ w.at = "link" /\ w.p = p /\ w.ref = q /\ w.seen = {} /\ w.ans = e
      BY <2>2 DEF Idle, RunType
    <2>4. Go(r, w) /\ UNCHANGED <<rowVars, jobs, worldVars>>
      BY <1>2, <2>1 DEF WebhookFuzzy
    <2>5. ~twins => p = q
      BY <2>1 DEF Alike
    <2> HIDE DEF w
    <2> QED BY <2>2, <2>3, <2>4, <2>5, StartKeeps
  <1> QED BY <1>1, <1>2

LEMMA DeskKeeps ==
    ASSUME PayInv, NEW r \in Runs, NEW p \in Payouts, Desk(r, p) PROVE PayInv'
  <1> DEFINE W(at, ref, ans) == [Idle EXCEPT !.at = at, !.p = p, !.ref = ref, !.ans = ans]
  <1>1. ASSUME NEW at \in {"read", "type in", "success", "failure"}, NEW ref \in {p, Null},
               NEW ans \in {"none", "refund"}, Go(r, W(at, ref, ans)),
               ref = p => rail[p] \in Accepted,
               at = "success" => rail[p] \in Paid,
               at = "failure" \/ ans = "refund" => rail[p] \in Unpaid
        PROVE  PayInv'
    <2> DEFINE w == W(at, ref, ans)
    <2>1. w \in RunType /\ w.at = at /\ w.p = p /\ w.ref = ref /\ w.seen = {} /\ w.ans = ans
      BY DEF Idle, RunType
    <2>2. Go(r, w) /\ UNCHANGED <<rowVars, jobs, worldVars>>
      BY <1>1 DEF Desk
    <2> HIDE DEF w
    <2> QED BY <1>1, <2>1, <2>2, StartKeeps
  <1>2. CASE Go(r, W("read", Null, "none"))
    BY <1>1, <1>2, NullAssumption
  <1>3. CASE rail[p] \in Accepted /\ Go(r, W("type in", p, "none"))
    BY <1>1, <1>3
  <1>4. CASE rail[p] \in Paid /\ \E ref \in {p, Null} : Go(r, W("success", ref, "none"))
    <2>1. rail[p] \in Accepted
      BY <1>4 DEF Paid, Accepted
    <2> QED BY <1>1, <1>4, <2>1
  <1>5. CASE rail[p] \in Unpaid /\ (Go(r, W("failure", Null, "none")) \/ Go(r, W("read", Null, "refund")))
    BY <1>1, <1>5, NullAssumption
  <1> QED BY <1>2, <1>3, <1>4, <1>5 DEF Desk, Paid, Unpaid

LEMMA RecheckKeeps == ASSUME PayInv, NEW r \in Runs, Recheck(r) PROVE PayInv'
  <1> DEFINE p == run[r].p
             w == [Idle EXCEPT !.at = "failure", !.p = p]
  <1>1. CASE Go(r, Idle)
    BY <1>1, IdleFresh, GoKeeps, Known DEF Recheck
  <1>2. CASE Go(r, w)
    <2>1. p \in Payouts /\ Believes(run[r]) /\ run[r].at = "recheck"
      BY Known DEF Recheck
    <2>2. w \in RunType /\ w.at = "failure" /\ w.p = p /\ w.ref = Null /\ w.seen = {} /\ w.ans = "none"
      BY <2>1 DEF Idle, RunType
    <2>3. ~twins => rail[p] \in Unpaid
      BY <2>1 DEF Believes
    <2> HIDE DEF w
    <2> QED BY <1>2, <2>1, <2>2, <2>3, StartKeeps DEF Recheck
  <1> QED BY <1>1, <1>2 DEF Recheck

-----------------------------------------------------------------------------
(* The steps that write a row. *)

LEMMA CreateKeeps ==
    ASSUME PayInv, NEW r \in Runs, NEW p \in Payouts, Create(r, p) \/ Approve(r, p) PROVE PayInv'
  <1> DEFINE v == [row[p] EXCEPT !.status = "APPROVED"]
             w == [Idle EXCEPT !.at = "enqueue", !.p = p]
  <1>1. v \in RowType /\ v.status = "APPROVED" /\ v.ref = row[p].ref
    BY Known DEF RowType, Open, HOLDABLE
  <1>2. row' = [row EXCEPT ![p] = v] /\ row[p].status \in {"none", "PENDING_APPROVAL"} /\ row'[p] = v
    BY DEF Create, Approve, SetStatus, PayInv, Shape
  <1>3. w \in RunType /\ w.at = "enqueue" /\ w.p = p /\ w.ref = Null /\ w.seen = {} /\ w.ans = "none"
    BY DEF Idle, RunType
  <1>4. Go(r, w) /\ UNCHANGED <<ledger, margin, jobs, worldVars>>
    BY DEF Create, Approve
  <1> HIDE DEF v, w
  <1>5. Fresh(w) /\ run' \in [Runs -> RunType] /\ \A s \in Runs : run'[s] = run[s] \/ Fresh(run'[s])
    BY <1>3, <1>4, RunWritten DEF Fresh, Fits, Believes
  <1>6. HeldMatchesOpen'
    BY <1>1, <1>2, OpenCount DEF Create, Approve, Open, HOLDABLE
  <1>7. LedgerRow(p)' /\ RowTrue(p)'
    BY <1>1, <1>2, <1>4, Known DEF LedgerRow, RowTrue, worldVars
  <1>8. /\ ledger' \subseteq Payouts \X {"capture", "reversal"}
        /\ margin' \subseteq Payouts \X {"booked", "clawed"}
    BY <1>4 DEF PayInv, Shape
  <1>9. row[p].status \in Unsent /\ row[p].status # "REVERSED" /\ UNCHANGED <<jobs, worldVars>>
    BY <1>2, <1>4 DEF Unsent
  <1> QED
    BY <1>1, <1>2, <1>4, <1>5, <1>6, <1>7, <1>8, <1>9, RowKeeps

LEMMA RejectKeeps == ASSUME PayInv, NEW p \in Payouts, Reject(p) PROVE PayInv'
  <1> DEFINE v == [row[p] EXCEPT !.status = "REJECTED"]
  <1>1. v \in RowType /\ v.status = "REJECTED" /\ v.ref = row[p].ref
    BY Known DEF RowType, TERMINAL
  <1>2. row' = [row EXCEPT ![p] = v] /\ row[p].status = "PENDING_APPROVAL" /\ row'[p] = v
    BY DEF Reject, SetStatus, PayInv, Shape
  <1> HIDE DEF v
  <1>3. HeldMatchesOpen'
    BY <1>1, <1>2, OpenCount DEF Reject, Open, HOLDABLE
  <1>4. LedgerRow(p)' /\ RowTrue(p)'
    BY <1>1, <1>2, Known DEF Reject, LedgerRow, RowTrue, worldVars
  <1>5. UNCHANGED <<ledger, margin, jobs, run, worldVars>>
    BY DEF Reject
  <1> QED BY <1>1, <1>2, <1>3, <1>4, <1>5, RowKeeps DEF Unsent, PayInv, Shape

(* The claim is won by one run: there was no other on its way. *)
LEMMA ClaimKeeps == ASSUME PayInv, NEW r \in Runs, Claim(r) PROVE PayInv'
  <1> DEFINE p == run[r].p
             v == [row[p] EXCEPT !.status = "PROCESSING"]
             w == [run[r] EXCEPT !.at = "send"]
             u == [run[r] EXCEPT !.at = "read"]
  <1>0. p \in Payouts /\ run[r].at = "claim" /\ Fits(run[r]) /\ Believes(run[r])
    BY Known DEF Claim
  <1>1. CASE row[p].status # "APPROVED"
    <2>1. /\ u \in RunType /\ u.at = "read" /\ u.p = p /\ u.ref = run[r].ref
          /\ u.seen = run[r].seen /\ u.ans = run[r].ans
      BY Known DEF RunType
    <2>2. Go(r, u) /\ UNCHANGED <<rowVars, jobs, worldVars>>
      BY <1>1 DEF Claim, Sendable, At, rowVars
    <2> HIDE DEF u
    <2>3. Fresh(u)
      BY <1>0, <2>1 DEF Fresh, Fits, Believes
    <2> QED BY <2>2, <2>3, GoKeeps, Known
  <1>2. CASE row[p].status = "APPROVED"
    <2>1. v \in RowType /\ v.status = "PROCESSING" /\ v.ref = row[p].ref
      BY <1>0, Known DEF RowType, Open, HOLDABLE
    <2>2. /\ w \in RunType /\ w.at = "send" /\ w.p = p /\ w.ref = run[r].ref
          /\ w.seen = run[r].seen /\ w.ans = run[r].ans
      BY Known DEF RunType
    <2>3. /\ row' = [row EXCEPT ![p] = v] /\ Go(r, w)
          /\ UNCHANGED <<held, ledger, margin, jobs, worldVars>>
      BY <1>2 DEF Claim, Sendable, At, SetStatus
    <2>4. \A s \in Runs : ~(run[s].at = "send" /\ run[s].p = p)
      BY <1>0, <1>2 DEF PayInv, RunsKnow, Unsent
    <2> HIDE DEF v, w
    <2>5. row' \in [Payouts -> RowType] /\ row'[p] = v /\ \A q \in Payouts \ {p} : row'[q] = row[q]
      BY <2>1, <2>3, <1>0 DEF PayInv, Shape
    <2>6. run' \in [Runs -> RunType] /\ run'[r] = w /\ \A s \in Runs \ {r} : run'[s] = run[s]
      BY <2>2, <2>3, RunWritten
    <2>7. Shape'
      BY <2>3, <2>5, <2>6 DEF PayInv, Shape, worldVars
    <2>8. HeldMatchesOpen'
      BY <1>0, <1>2, <2>1, <2>3, OpenCount DEF Open, HOLDABLE
    <2>9. RunsKnow'
      <3> SUFFICES ASSUME NEW s \in Runs
                   PROVE  /\ Fits(run[s])' /\ Believes(run[s])'
                          /\ run'[s].at = "claw" => row'[run'[s].p].status = "REVERSED"
                          /\ run'[s].at = "send" =>
                               sends'[run'[s].p] = 0 /\ row'[run'[s].p].status \notin Unsent
        BY DEF RunsKnow
      <3>1. sends[p] = 0
        BY <1>0, <1>2 DEF PayInv, RowsAgree, Unsent
      <3>2. CASE s = r
        BY <3>1, <3>2, <1>0, <2>1, <2>2, <2>3, <2>5, <2>6
           DEF Fits, Believes, worldVars, Unsent
      <3>3. CASE s # r
        <4>1. run'[s] = run[s] /\ (run[s].at \in {"claw", "send"} => run[s].p \in Payouts)
          BY <3>3, <2>6, Known
        <4> QED BY <4>1, <1>2, <2>3, <2>4, <2>5 DEF PayInv, RunsKnow, Fits, Believes, worldVars
      <3> QED BY <3>2, <3>3
    <2>10. OneSender'
      BY <2>2, <2>4, <2>6 DEF PayInv, OneSender
    <2>11. RowsAgree'
      BY <1>0, <1>2, <2>1, <2>3, <2>5 DEF PayInv, RowsAgree, LedgerRow, RowTrue, worldVars, Unsent
    <2> QED BY <2>7, <2>8, <2>9, <2>10, <2>11 DEF PayInv
  <1> QED BY <1>1, <1>2

LEMMA SendKeeps == ASSUME PayInv, NEW r \in Runs, Send(r) PROVE PayInv'
  <1> DEFINE p == run[r].p
             w == [run[r] EXCEPT !.at = "wait"]
             n == sends[p] + 1
             t == IF rail[p] = "none" THEN "on its way" ELSE rail[p]
  <1>0. p \in Payouts /\ run[r].at = "send" /\ Fits(run[r]) /\ Believes(run[r])
        /\ sends[p] = 0 /\ row[p].status \notin Unsent
    BY Known DEF Send, PayInv, RunsKnow
  <1>1. /\ w \in RunType /\ w.at = "wait" /\ w.p = p /\ w.ref = run[r].ref
        /\ w.seen = run[r].seen /\ w.ans = run[r].ans
    BY Known DEF RunType
  <1>2. Go(r, w) /\ UNCHANGED <<rowVars, jobs, twins>>
        /\ sends' = [sends EXCEPT ![p] = n] /\ rail' = [rail EXCEPT ![p] = t]
    BY DEF Send, At
  <1> HIDE DEF w
  <1>3. run' \in [Runs -> RunType] /\ run'[r] = w /\ \A s \in Runs \ {r} : run'[s] = run[s]
    BY <1>1, <1>2, RunWritten
  <1>4. sends' \in [Payouts -> Nat] /\ sends'[p] = 1 /\ \A q \in Payouts \ {p} : sends'[q] = sends[q]
    <2>1. n = 1
      BY <1>0
    <2>2. sends \in [Payouts -> Nat]
      BY DEF PayInv, Shape
    <2> HIDE DEF n
    <2> QED BY <2>1, <2>2, <1>0, <1>2
  <1>5. /\ rail' \in [Payouts -> {"none", "on its way", "refused"} \cup Accepted]
        /\ \A q \in Payouts : rail'[q] = rail[q] \/ (rail[q] = "none" /\ rail'[q] = "on its way")
    BY <1>0, <1>2 DEF PayInv, Shape
  <1>6. Shape' /\ HeldMatchesOpen'
    BY <1>2, <1>3, <1>4, <1>5 DEF PayInv, Shape, HeldMatchesOpen, rowVars
  <1>7. \A q \in Payouts : /\ rail[q] \in Accepted => rail'[q] \in Accepted
                           /\ rail[q] \in Paid => rail'[q] \in Paid
                           /\ rail[q] \in Unpaid => rail'[q] \in Unpaid
    BY <1>5 DEF Accepted, Paid, Unpaid
  <1>8. RunsKnow'
    <2> SUFFICES ASSUME NEW s \in Runs
                 PROVE  /\ Fits(run[s])' /\ Believes(run[s])'
                        /\ run'[s].at = "claw" => row'[run'[s].p].status = "REVERSED"
                        /\ run'[s].at = "send" =>
                             sends'[run'[s].p] = 0 /\ row'[run'[s].p].status \notin Unsent
      BY DEF RunsKnow
    <2>1. CASE s = r
      BY <2>1, <1>0, <1>1, <1>2, <1>3, <1>7 DEF Fits, Believes
    <2>2. CASE s # r
      <3>1. run'[s] = run[s] /\ Fits(run[s]) /\ Believes(run[s]) /\ run[s] \in RunType
        BY <2>2, <1>3, Known
      <3>2. run[s].p \in Payouts \/ run[s] = Idle
        BY <3>1 DEF Fits
      <3>3. Believes(run[s])'
        <4>1. CASE run[s].p \in Payouts
          BY <4>1, <1>2, <1>7, <3>1 DEF Believes
        <4>2. CASE run[s] = Idle
          BY <4>2, <3>1 DEF Believes, Idle
        <4> QED BY <3>2, <4>1, <4>2
      <3>4. run[s].at = "send" => run[s].p # p
        BY <2>2, <1>0 DEF PayInv, OneSender
      <3>5. Fits(run[s])'
        BY <3>1 DEF Fits
      <3>6. run[s].at \in {"claw", "send"} => run[s].p \in Payouts
        BY Known
      <3>7. /\ run[s].at = "claw" => row[run[s].p].status = "REVERSED"
            /\ run[s].at = "send" => sends[run[s].p] = 0 /\ row[run[s].p].status \notin Unsent
        BY DEF PayInv, RunsKnow
      <3> QED BY <3>1, <3>3, <3>4, <3>5, <3>6, <3>7, <1>2, <1>4 DEF rowVars
    <2> QED BY <2>1, <2>2
  <1>9. OneSender'
    BY <1>1, <1>3 DEF PayInv, OneSender
  <1>10. RowsAgree'
    <2> SUFFICES ASSUME NEW q \in Payouts
                 PROVE  /\ LedgerRow(q)' /\ RowTrue(q)'
                        /\ sends'[q] <= 1 /\ (row'[q].status \in Unsent => sends'[q] = 0)
      BY DEF RowsAgree
    <2>1. LedgerRow(q)'
      BY <1>2, Known DEF LedgerRow, rowVars
    <2>2. RowTrue(q)'
      BY <1>2, <1>7, Known DEF RowTrue, rowVars
    <2>3. sends'[q] <= 1 /\ (row'[q].status \in Unsent => sends'[q] = 0)
      <3>1. sends[q] <= 1 /\ (row[q].status \in Unsent => sends[q] = 0) /\ row'[q] = row[q]
        BY <1>2 DEF PayInv, RowsAgree, rowVars
      <3>2. CASE q = p
        BY <3>1, <3>2, <1>0, <1>4
      <3>3. CASE q # p
        BY <3>1, <3>3, <1>4
      <3> QED BY <3>2, <3>3
    <2> QED BY <2>1, <2>2, <2>3
  <1> QED BY <1>6, <1>8, <1>9, <1>10 DEF PayInv

(* A run writes one row, nothing of the ledger, and goes on or ends. *)
LEMMA RowGoKeeps ==
    ASSUME PayInv, NEW r \in Runs, NEW w, Fresh(w), Go(r, w), NEW p \in Payouts,
           NEW v \in RowType, row' = [row EXCEPT ![p] = v],
           \/ row[p].status \notin {"SUCCESS", "REVERSED"} /\ v.status \notin {"SUCCESS", "REVERSED"}
           \/ v.status = row[p].status,
           v.status \in Unsent => row[p].status \in Unsent,
           HeldMatchesOpen', RowTrue(p)', UNCHANGED <<ledger, margin, jobs, worldVars>>
    PROVE  PayInv'
  <1>1. run' \in [Runs -> RunType] /\ \A s \in Runs : run'[s] = run[s] \/ Fresh(run'[s])
    BY RunWritten DEF Fresh
  <1>2. row'[p] = v
    BY DEF PayInv, Shape
  <1>3. LedgerRow(p)'
    BY <1>2, Known DEF LedgerRow
  <1>4. /\ ledger' \subseteq Payouts \X {"capture", "reversal"}
        /\ margin' \subseteq Payouts \X {"booked", "clawed"}
    BY DEF PayInv, Shape
  <1> QED BY <1>1, <1>3, <1>4, RowKeeps

(* Only the reference is written: none, or one the run knows to be p's. *)
LEMMA RefKeeps ==
    ASSUME PayInv, NEW r \in Runs, NEW w, Fresh(w), Go(r, w), NEW p \in Payouts,
           NEW ref \in Payouts \cup {Null}, row' = [row EXCEPT ![p].ref = ref],
           ~twins => ref \in {p, Null} /\ (ref # Null => rail[p] \in Accepted),
           UNCHANGED <<held, ledger, margin, jobs, worldVars>>
    PROVE  PayInv'
  <1> DEFINE v == [row[p] EXCEPT !.ref = ref]
  <1>1. v \in RowType /\ v.status = row[p].status /\ v.ref = ref
    BY Known DEF RowType
  <1>2. row' = [row EXCEPT ![p] = v]
    OBVIOUS
  <1> HIDE DEF v
  <1>3. row'[p] = v
    BY <1>2 DEF PayInv, Shape
  <1>4. HeldMatchesOpen'
    BY <1>1, <1>2, OpenCount
  <1>5. RowTrue(p)'
    BY <1>1, <1>3, Known DEF RowTrue, worldVars
  <1> QED BY <1>1, <1>2, <1>4, <1>5, RowGoKeeps

LEMMA PersistKeeps == ASSUME PayInv, NEW r \in Runs, Persist(r) PROVE PayInv'
  <1> DEFINE w   == run[r]
             p   == w.p
             ref == IF w.ans \in {"unclear", "declined"} THEN Null ELSE p
             v   == [Idle EXCEPT !.at = AfterAnswer(w.ans), !.p = p, !.ref = ref]
  <1>1. /\ p \in Payouts /\ Believes(w) /\ w \in RunType /\ w.at = "persist"
        /\ row' = [row EXCEPT ![p].ref = ref]
        /\ UNCHANGED <<held, ledger, margin, jobs, worldVars>>
    BY Known DEF Persist
  <1>2. w.ans \in {"unclear", "declined", "PROCESSING", "PAID", "FAILED"}
    BY <1>1, Known DEF Fits
  <1>3. ~twins => ref \in {p, Null} /\ (ref # Null => rail[p] \in Accepted)
    BY <1>1, <1>2 DEF Believes
  <1>4. ref \in Payouts \cup {Null}
    BY <1>1
  <1>5. CASE AfterAnswer(w.ans) = "end"
    <2>1. PICK u : Fresh(u) /\ Go(r, u)
      BY <1>5, DoneFresh DEF Persist
    <2> QED BY <2>1, <1>1, <1>3, RefKeeps
  <1>6. CASE AfterAnswer(w.ans) # "end"
    <2>1. AfterAnswer(w.ans) \in {"success", "review", "failure"}
      BY <1>2, <1>6 DEF AfterAnswer
    <2>2. /\ v \in RunType /\ v.at = AfterAnswer(w.ans) /\ v.p = p /\ v.ref = ref /\ v.seen = {}
          /\ v.ans = "none"
      BY <1>1, <2>1 DEF Idle, RunType
    <2>3. Go(r, v)
      BY <1>6 DEF Persist
    <2>4. ~twins => /\ AfterAnswer(w.ans) = "success" => rail[p] \in Paid
                    /\ AfterAnswer(w.ans) = "failure" => rail[p] \in Unpaid
      BY <1>1, <1>2 DEF AfterAnswer, Believes
    <2> HIDE DEF v, ref
    <2>5. Fresh(v)
      BY <1>1, <1>3, <2>1, <2>2, <2>4 DEF Fresh, Fits, Believes
    <2> QED BY <1>1, <1>3, <1>4, <2>3, <2>5, RefKeeps
  <1> QED BY <1>5, <1>6

(* What is looked up while the row is held is written to it if it is still *)
(* without a reference; the sweep then reads the row again.                *)
LEMMA StoreKeeps == ASSUME PayInv, NEW r \in Runs, Store(r) PROVE PayInv'
  <1> DEFINE w == run[r]
             p == w.p
             v == [w EXCEPT !.at = "reread", !.ref = Null]
  <1>1. /\ p \in Payouts /\ Believes(w) /\ w \in RunType /\ Go(r, v)
        /\ UNCHANGED <<held, ledger, margin, jobs, worldVars>>
    BY Known DEF Store
  <1>2. /\ v \in RunType /\ v.at = "reread" /\ v.p = p /\ v.ref = Null /\ v.seen = w.seen
        /\ v.ans = w.ans
    BY <1>1 DEF RunType
  <1> HIDE DEF v
  <1>3. Fresh(v)
    BY <1>1, <1>2 DEF Fresh, Fits, Believes
  <1>4. CASE row' = row
    BY <1>1, <1>3, <1>4, GoKeeps, Known DEF rowVars
  <1>5. CASE row' = [row EXCEPT ![p].ref = w.ref]
    <2>1. w.ref \in Payouts \cup {Null} /\ (~twins => w.ref \in {p, Null} /\ (w.ref # Null => rail[p] \in Accepted))
      BY <1>1 DEF RunType, Believes
    <2> QED BY <1>1, <1>3, <1>5, <2>1, RefKeeps
  <1> QED BY <1>4, <1>5 DEF Store

LEMMA LinkKeeps ==
    ASSUME PayInv, NEW r \in Runs, LinkWebhook(r) \/ TypeIn(r) PROVE PayInv'
  <1> DEFINE w  == run[r]
             p  == w.p
             at == IF LinkWebhook(r) /\ w.ans = "reversal" THEN "reverse" ELSE "read"
             v  == [Idle EXCEPT !.p = p, !.at = at]
  <1>1. /\ p \in Payouts /\ Believes(w) /\ w \in RunType
        /\ UNCHANGED <<held, ledger, margin, jobs, worldVars>>
    BY Known DEF LinkWebhook, TypeIn
  <1>2. at \in {"reverse", "read"}
    OBVIOUS
  <1>3. /\ w.ref \in Payouts \cup {Null}
        /\ ~twins => w.ref \in {p, Null} /\ (w.ref # Null => rail[p] \in Accepted)
    BY <1>1 DEF RunType, Believes
  <1>4. row' = row \/ row' = [row EXCEPT ![p].ref = w.ref]
    BY DEF LinkWebhook, TypeIn
  <1>5. \E x : Fresh(x) /\ Go(r, x)
    <2>1. CASE Done(r)
      BY <2>1, DoneFresh
    <2>2. ASSUME NEW to \in {"reverse", "read"}, NEW x \in RunType, x.at = to, x.p = p, x.ref = Null,
                 x.seen = {}, x.ans = "none", Go(r, x)
          PROVE  \E y : Fresh(y) /\ Go(r, y)
      BY <1>1, <2>2 DEF Fresh, Fits, Believes
    <2>3. CASE Go(r, v)
      <3>1. v \in RunType /\ v.at = at /\ v.p = p /\ v.ref = Null /\ v.seen = {} /\ v.ans = "none"
        BY <1>1 DEF Idle, RunType
      <3> HIDE DEF v, at
      <3> QED BY <1>2, <2>2, <2>3, <3>1
    <2>4. CASE Go(r, [Idle EXCEPT !.at = "read", !.p = p])
      <3> DEFINE x == [Idle EXCEPT !.at = "read", !.p = p]
      <3>1. x \in RunType /\ x.at = "read" /\ x.p = p /\ x.ref = Null /\ x.seen = {} /\ x.ans = "none"
        BY <1>1 DEF Idle, RunType
      <3>2. Go(r, x)
        BY <2>4
      <3> HIDE DEF x
      <3> QED BY <2>2, <3>1, <3>2
    <2> QED BY <2>1, <2>3, <2>4 DEF LinkWebhook, TypeIn
  <1>6. PICK x : Fresh(x) /\ Go(r, x)
    BY <1>5
  <1>7. CASE row' = row
    BY <1>1, <1>6, <1>7, GoKeeps, Known DEF rowVars
  <1>8. CASE row' = [row EXCEPT ![p].ref = w.ref]
    BY <1>1, <1>3, <1>6, <1>8, RefKeeps
  <1> QED BY <1>4, <1>7, <1>8

(* The row's status is written by a run that ends. *)
LEMMA SettleKeeps ==
    ASSUME PayInv, NEW r \in Runs, HoldForReview(r) \/ FinalizeFailure(r) PROVE PayInv'
  <1>0. PICK p \in Payouts : p = run[r].p
    BY Known DEF HoldForReview, FinalizeFailure
  <1> DEFINE s == IF run[r].at = "review" THEN "NEEDS_REVIEW" ELSE "FAILED"
             v == [row[p] EXCEPT !.status = s]
  <1>1. /\ p = run[r].p /\ Believes(run[r]) /\ run[r].at \in {"review", "failure"}
        /\ UNCHANGED <<ledger, margin, jobs, worldVars>>
    BY <1>0, Known DEF HoldForReview, FinalizeFailure
  <1>2. PICK w : Fresh(w) /\ Go(r, w)
    BY DoneFresh DEF HoldForReview, FinalizeFailure
  <1>3. CASE UNCHANGED <<row, held>>
    BY <1>1, <1>2, <1>3, GoKeeps, Known DEF rowVars
  <1>4. CASE /\ SetStatus(p, s) /\ row[p].status \in HOLDABLE
             /\ held' = IF s = "FAILED" THEN held - 1 ELSE held
    <2>1. v \in RowType /\ v.status = s /\ v.ref = row[p].ref
      BY <1>1, Known DEF RowType, TERMINAL, Open, HOLDABLE
    <2>2. row' = [row EXCEPT ![p] = v]
      BY <1>4 DEF SetStatus
    <2>3. s \in {"NEEDS_REVIEW", "FAILED"} /\ (s = "FAILED" => run[r].at = "failure")
      BY <1>1
    <2> HIDE DEF v, s
    <2>4. row'[p] = v
      BY <1>1, <2>1, <2>2 DEF PayInv, Shape
    <2>5. HeldMatchesOpen'
      BY <1>1, <1>4, <2>1, <2>2, <2>3, OpenCount DEF Open, HOLDABLE
    <2>6. RowTrue(p)'
      BY <1>1, <2>1, <2>3, <2>4, Known DEF RowTrue, Believes, worldVars
    <2> QED
      BY <1>1, <1>2, <1>4, <2>1, <2>2, <2>3, <2>5, <2>6, RowGoKeeps DEF HOLDABLE, Unsent
  <1> QED BY <1>0, <1>3, <1>4 DEF HoldForReview, FinalizeFailure, HOLDABLE

(* One entry of p, in a set of entries, concerns no other payout. *)
LEMMA EntryAdded ==
    ASSUME NEW Kinds, NEW E \in SUBSET (Payouts \X Kinds), NEW p \in Payouts, NEW kind \in Kinds,
           NEW F \in {E, E \cup {<<p, kind>>}}
    PROVE  /\ F \subseteq Payouts \X Kinds
           /\ \A q \in Payouts \ {p} : \A k \in Kinds : <<q, k>> \in F <=> <<q, k>> \in E
  <1>1. <<p, kind>> \in Payouts \X Kinds
    OBVIOUS
  <1>2. F \subseteq Payouts \X Kinds
    BY <1>1
  <1>3. ASSUME NEW q \in Payouts \ {p}, NEW k \in Kinds PROVE <<q, k>> \in F <=> <<q, k>> \in E
    <2>1. <<q, k>> # <<p, kind>>
      OBVIOUS
    <2> QED BY <2>1
  <1> QED BY <1>2, <1>3

(* What a step of p does to the passbook and the revenue wallet. *)
LEMMA BooksAdded ==
    ASSUME PayInv, NEW p \in Payouts, NEW kind \in {"capture", "reversal"},
           NEW m \in {"booked", "clawed"},
           ledger' \in {ledger, ledger \cup {<<p, kind>>}}, margin' \in {margin, margin \cup {<<p, m>>}}
    PROVE  /\ ledger' \subseteq Payouts \X {"capture", "reversal"}
           /\ margin' \subseteq Payouts \X {"booked", "clawed"}
           /\ \A q \in Payouts \ {p} : /\ \A k \in {"booked", "clawed"} :
                                            <<q, k>> \in margin' <=> <<q, k>> \in margin
                                       /\ \A k \in {"capture", "reversal"} :
                                            <<q, k>> \in ledger' <=> <<q, k>> \in ledger
  <1>1. /\ ledger \in SUBSET (Payouts \X {"capture", "reversal"})
        /\ margin \in SUBSET (Payouts \X {"booked", "clawed"})
    BY DEF PayInv, Shape
  <1>2. /\ ledger' \subseteq Payouts \X {"capture", "reversal"}
        /\ \A q \in Payouts \ {p} : \A k \in {"capture", "reversal"} :
             <<q, k>> \in ledger' <=> <<q, k>> \in ledger
    BY <1>1, EntryAdded
  <1>3. /\ margin' \subseteq Payouts \X {"booked", "clawed"}
        /\ \A q \in Payouts \ {p} : \A k \in {"booked", "clawed"} :
             <<q, k>> \in margin' <=> <<q, k>> \in margin
    BY <1>1, EntryAdded
  <1> QED BY <1>2, <1>3

LEMMA CaptureKeeps == ASSUME PayInv, NEW r \in Runs, Capture(r) PROVE PayInv'
  <1>0. PICK p \in Payouts : p = run[r].p
    BY Known DEF Capture
  <1> DEFINE w == run[r]
             v == [status |-> "SUCCESS", ref |-> w.ref]
  <1>1. /\ p = w.p /\ Believes(w) /\ w \in RunType /\ w.at = "capture"
        /\ UNCHANGED <<jobs, worldVars>>
    BY <1>0, Known DEF Capture
  <1>2. PICK u : Fresh(u) /\ Go(r, u)
    BY DoneFresh DEF Capture
  <1>3. CASE row[p].status \notin HOLDABLE
    BY <1>1, <1>2, <1>3, GoKeeps, Known DEF Capture
  <1>4. CASE row[p].status \in HOLDABLE
    <2>1. v \in RowType /\ v.status = "SUCCESS" /\ v.ref = w.ref
      BY <1>1 DEF RowType, RunType, TERMINAL
    <2>2. /\ row' = [row EXCEPT ![p] = v] /\ held' = held - 1
          /\ ledger' = ledger \cup {<<p, "capture">>} /\ margin' \in {margin, margin \cup {<<p, "booked">>}}
      BY <1>0, <1>4 DEF Capture, CreditServiceMargin
    <2> HIDE DEF v
    <2>3. row'[p] = v
      BY <1>1, <2>1, <2>2 DEF PayInv, Shape
    <2>4. HeldMatchesOpen'
      BY <1>1, <1>4, <2>1, <2>2, OpenCount DEF Open, HOLDABLE
    <2>5. RowTrue(p)'
      BY <1>1, <2>1, <2>3 DEF RowTrue, Believes, worldVars
    <2>6. LedgerRow(p)'
      BY <1>1, <1>4, <2>1, <2>2, <2>3, Known DEF LedgerRow, HOLDABLE
    <2>7. /\ ledger' \subseteq Payouts \X {"capture", "reversal"}
          /\ margin' \subseteq Payouts \X {"booked", "clawed"}
          /\ \A q \in Payouts \ {p} : /\ \A k \in {"booked", "clawed"} :
                                           <<q, k>> \in margin' <=> <<q, k>> \in margin
                                      /\ \A k \in {"capture", "reversal"} :
                                           <<q, k>> \in ledger' <=> <<q, k>> \in ledger
      BY <2>2, <1>1, BooksAdded
    <2>8. run' \in [Runs -> RunType] /\ \A s \in Runs : run'[s] = run[s] \/ Fresh(run'[s])
      BY <1>2, RunWritten DEF Fresh
    <2>9. v.status \notin Unsent /\ row[p].status # "REVERSED"
      BY <1>4, <2>1 DEF Unsent, HOLDABLE
    <2> QED BY <1>1, <2>1, <2>2, <2>4, <2>5, <2>6, <2>7, <2>8, <2>9, RowKeeps
  <1> QED BY <1>3, <1>4

LEMMA ReverseKeeps == ASSUME PayInv, NEW r \in Runs, Reverse(r) PROVE PayInv'
  <1>0. PICK p \in Payouts : p = run[r].p
    BY Known DEF Reverse
  <1> DEFINE v == [row[p] EXCEPT !.status = "REVERSED"]
             w == [run[r] EXCEPT !.at = "claw"]
  <1>1. /\ p = run[r].p /\ Believes(run[r]) /\ run[r] \in RunType /\ Fits(run[r])
        /\ UNCHANGED <<held, margin, jobs, worldVars>>
    BY <1>0, Known DEF Reverse
  <1>2. CASE row[p].status # "SUCCESS"
    BY <1>1, <1>2, DoneKeeps, Known DEF Reverse, rowVars
  <1>3. CASE row[p].status = "SUCCESS"
    <2>1. v \in RowType /\ v.status = "REVERSED" /\ v.ref = row[p].ref
      BY <1>1, Known DEF RowType, TERMINAL
    <2>2. /\ row' = [row EXCEPT ![p] = v] /\ ledger' = ledger \cup {<<p, "reversal">>} /\ Go(r, w)
      BY <1>0, <1>3 DEF Reverse, SetStatus, At
    <2>3. /\ w \in RunType /\ w.at = "claw" /\ w.p = p /\ w.ref = run[r].ref
          /\ w.seen = run[r].seen /\ w.ans = run[r].ans
      BY <1>1 DEF RunType
    <2> HIDE DEF v, w
    <2>4. row'[p] = v
      BY <1>1, <2>1, <2>2 DEF PayInv, Shape
    <2>5. HeldMatchesOpen'
      BY <1>1, <1>3, <2>1, <2>2, OpenCount DEF Open, HOLDABLE
    <2>6. RowTrue(p)' /\ LedgerRow(p)'
      BY <1>1, <1>3, <2>1, <2>2, <2>4, Known DEF RowTrue, LedgerRow, worldVars
    <2>7. /\ ledger' \subseteq Payouts \X {"capture", "reversal"}
          /\ margin' \subseteq Payouts \X {"booked", "clawed"}
          /\ \A q \in Payouts \ {p} : /\ \A k \in {"booked", "clawed"} :
                                           <<q, k>> \in margin' <=> <<q, k>> \in margin
                                      /\ \A k \in {"capture", "reversal"} :
                                           <<q, k>> \in ledger' <=> <<q, k>> \in ledger
      BY <2>2, <1>1, BooksAdded
    <2>8. Fits(w) /\ Believes(w)
      BY <1>1, <2>3 DEF Fits, Believes
    <2>9. /\ run' \in [Runs -> RunType]
          /\ \A s \in Runs : \/ run'[s] = run[s]
                             \/ /\ run'[s].at = "claw" /\ run'[s].p = p
                                /\ Fits(run'[s]) /\ Believes(run'[s])
      BY <2>2, <2>3, <2>8, RunWritten
    <2> QED BY <1>1, <1>3, <2>1, <2>2, <2>5, <2>6, <2>7, <2>9, RowKeeps DEF Unsent
  <1> QED BY <1>2, <1>3

LEMMA ClawKeeps == ASSUME PayInv, NEW r \in Runs, ClawMargin(r) PROVE PayInv'
  <1>0. PICK p \in Payouts : p = run[r].p
    BY Known DEF ClawMargin
  <1>1. /\ row[p].status = "REVERSED" /\ margin' \in {margin, margin \cup {<<p, "clawed">>}}
        /\ UNCHANGED <<row, held, ledger, jobs, worldVars>>
    BY <1>0 DEF ClawMargin, ReverseServiceMargin, PayInv, RunsKnow
  <1>2. PICK u : Fresh(u) /\ Go(r, u)
    BY DoneFresh DEF ClawMargin
  <1>3. row[p] \in RowType /\ row' = [row EXCEPT ![p] = row[p]] /\ row'[p] = row[p]
    BY <1>1, Known DEF PayInv, Shape
  <1>4. HeldMatchesOpen'
    BY <1>1 DEF PayInv, HeldMatchesOpen
  <1>5. RowTrue(p)' /\ LedgerRow(p)'
    BY <1>1, <1>3, Known DEF RowTrue, LedgerRow, worldVars
  <1>6. /\ ledger' \subseteq Payouts \X {"capture", "reversal"}
        /\ margin' \subseteq Payouts \X {"booked", "clawed"}
        /\ \A q \in Payouts \ {p} : /\ \A k \in {"booked", "clawed"} :
                                         <<q, k>> \in margin' <=> <<q, k>> \in margin
                                    /\ \A k \in {"capture", "reversal"} :
                                         <<q, k>> \in ledger' <=> <<q, k>> \in ledger
    BY <1>1, BooksAdded
  <1>7. run' \in [Runs -> RunType] /\ \A s \in Runs : run'[s] = run[s] \/ Fresh(run'[s])
    BY <1>2, RunWritten DEF Fresh
  <1> QED BY <1>1, <1>3, <1>4, <1>5, <1>6, <1>7, RowKeeps

-----------------------------------------------------------------------------
(* The rail goes on: what it has accepted, paid or failed stays so. *)
LEMMA RailKeeps == ASSUME PayInv, NEW p \in Payouts, RailStep(p) PROVE PayInv'
  <1>1. PICK to : /\ \/ rail[p] = "on its way" /\ to \in {"processing", "refused"}
                     \/ rail[p] = "processing" /\ to \in {"paid", "failed"}
                     \/ rail[p] = "paid" /\ to = "returned"
                  /\ rail' = [rail EXCEPT ![p] = to]
    BY DEF RailStep
  <1>2. /\ rail' \in [Payouts -> {"none", "on its way", "refused"} \cup Accepted]
        /\ \A q \in Payouts : /\ rail[q] \in Accepted => rail'[q] \in Accepted
                              /\ rail[q] \in Paid => rail'[q] \in Paid
                              /\ rail[q] \in Unpaid => rail'[q] \in Unpaid
    BY <1>1 DEF PayInv, Shape, Accepted, Paid, Unpaid
  <1>3. UNCHANGED <<rowVars, jobs, run, sends, twins>>
    BY DEF RailStep
  <1>4. Shape' /\ HeldMatchesOpen' /\ OneSender'
    BY <1>2, <1>3 DEF PayInv, Shape, HeldMatchesOpen, OneSender, rowVars
  <1>5. RunsKnow'
    <2> SUFFICES ASSUME NEW s \in Runs PROVE Fits(run[s])' /\ Believes(run[s])'
      BY <1>3 DEF PayInv, RunsKnow, rowVars
    <2>1. Fits(run[s])' /\ (run[s].p \in Payouts \/ run[s] = Idle)
      BY <1>3, Known DEF Fits
    <2>2. CASE run[s].p \in Payouts
      BY <2>2, <1>2, <1>3, Known, <2>1 DEF Believes
    <2>3. CASE run[s] = Idle
      BY <2>1, <2>3, <1>3 DEF Believes, Idle
    <2> QED BY <2>1, <2>2, <2>3
  <1>6. RowsAgree'
    <2> SUFFICES ASSUME NEW q \in Payouts PROVE LedgerRow(q)' /\ RowTrue(q)'
      BY <1>3 DEF PayInv, RowsAgree, rowVars
    <2> QED BY <1>2, <1>3, Known DEF LedgerRow, RowTrue, rowVars
  <1> QED BY <1>4, <1>5, <1>6 DEF PayInv

LEMMA StutterKeeps == ASSUME PayInv, UNCHANGED vars PROVE PayInv'
  BY DEF vars, PayInv, Shape, HeldMatchesOpen, RunsKnow, Fits, Believes, OneSender, RowsAgree, LedgerRow,
         RowTrue

LEMMA NextKeeps == PayInv /\ [Next]_vars => PayInv'
  <1> SUFFICES ASSUME PayInv, [Next]_vars PROVE PayInv' OBVIOUS
  <1>1. ASSUME NEW r \in Runs, RunStep(r) \/ Crash(r) PROVE PayInv'
    BY <1>1, EnqueueKeeps, ClaimKeeps, SendKeeps, AnswerKeeps, PersistKeeps, SettleKeeps, ReadKeeps,
       ListKeeps, CheckKeeps, StoreKeeps, RereadKeeps, PollKeeps, FinalizeSuccessKeeps, CaptureKeeps,
       ReverseKeeps, ClawKeeps, LinkKeeps, RecheckKeeps, CrashKeeps DEF RunStep
  <1>2. ASSUME NEW r \in Runs, NEW p \in Payouts, Start(r, p) PROVE PayInv'
    BY <1>2, CreateKeeps, InitiateKeeps, SweepKeeps, WebhookKeeps, DeskKeeps DEF Start
  <1>3. ASSUME NEW p \in Payouts, Reject(p) \/ RailStep(p) PROVE PayInv'
    BY <1>3, RejectKeeps, RailKeeps
  <1> QED BY <1>1, <1>2, <1>3, StutterKeeps DEF Next

LEMMA PayoutInvariant == Spec => []PayInv
  BY InitInv, NextKeeps, PTL DEF Spec

-----------------------------------------------------------------------------
(* Every state is well typed; that the hold is a natural number is not a   *)
(* fact about User.heldBalance alone but follows from what it reserves.    *)
THEOREM PayoutTyped == Spec => []TypeOK
  <1>1. PayInv => TypeOK
    <2> SUFFICES ASSUME PayInv PROVE TypeOK OBVIOUS
    <2>1. held \in Nat
      BY PayoutsAssumption, FS_Subset, FS_CardinalityType DEF PayInv, HeldMatchesOpen
    <2> QED BY <2>1 DEF PayInv, Shape, TypeOK, RowType, RunType
  <1> QED BY <1>1, PayoutInvariant, PTL

(* service.ts: "funds are HELD from submit until terminal" - for any number *)
(* of payouts and handlers, the held balance is what the open rows reserve. *)
THEOREM HoldsAgree == Spec => []HeldMatchesOpen
  <1>1. PayInv => HeldMatchesOpen
    BY DEF PayInv
  <1> QED BY <1>1, PayoutInvariant, PTL

(* The passbook has exactly the entries of the statuses, and the revenue   *)
(* wallet none that runs ahead of them, through every race of the worker,  *)
(* the sweep, the webhook and the desk and whichever margin calls fail.    *)
THEOREM BooksAgree == Spec => []LedgerMatchesStatus
  <1>1. PayInv => LedgerMatchesStatus
    BY DEF PayInv, RowsAgree, LedgerRow, LedgerMatchesStatus
  <1> QED BY <1>1, PayoutInvariant, PTL

(* service.ts: "a worker retry must NEVER re-send".                        *)
THEOREM SendsOnce == Spec => []SentOnce
  <1>1. PayInv => SentOnce
    BY DEF PayInv, RowsAgree, SentOnce
  <1> QED BY <1>1, PayoutInvariant, PTL

(* Payouts that cannot be mistaken for each other end as their transfers   *)
(* did: no money is captured for an unpaid one or freed for a paid one.    *)
THEOREM EndsAsTheRailDid == Spec => []SettledAsTheRailDid
  <1>1. PayInv => SettledAsTheRailDid
    BY DEF PayInv, RowsAgree, RowTrue, SettledAsTheRailDid, Paid, Unpaid
  <1> QED BY <1>1, PayoutInvariant, PTL

-----------------------------------------------------------------------------
(* The refinement of Disbursal. *)

Stages == [p \in Payouts |-> Stage(p)]

(* A step that writes no status is a stutter of Disbursal, and one that    *)
(* moves a row is the step of its stage.                                   *)
LEMMA StageMoved ==
    ASSUME PayInv, NEW p \in Payouts, NEW to, Stage(p)' = to,
           \A q \in Payouts \ {p} : row'[q] = row[q],
           \/ to = Stage(p)
           \/ Stage(p) \in {"none", "asked"} /\ to = "approved"
           \/ Stage(p) = "approved" /\ to = "handed off"
           \/ Stage(p) \in {"approved", "handed off"} /\ to = "captured"
           \/ Stage(p) \in {"asked", "approved", "handed off"} /\ to = "released"
           \/ Stage(p) = "captured" /\ to = "reversed"
    PROVE  [Disbursal!Next]_Stages
  <1>1. Stages' = [Stages EXCEPT ![p] = to]
    BY ZenonT(30) DEF Stages, Stage
  <1>2. Stages[p] = Stage(p)
    BY DEF Stages
  <1>3. CASE to = Stage(p)
    <2>1. Stages' = Stages
      BY <1>1, <1>2, <1>3 DEF Stages
    <2> QED BY <2>1
  <1> QED
    BY <1>1, <1>2, <1>3
       DEF Disbursal!Next, Disbursal!Change, Disbursal!Submit, Disbursal!Approve, Disbursal!HandOff,
           Disbursal!Capture, Disbursal!Release, Disbursal!Reverse, Stages

LEMMA StageKept ==
    ASSUME \A q \in Payouts : row'[q].status = row[q].status
    PROVE  [Disbursal!Next]_Stages
  <1>1. \A q \in Payouts : Stage(q)' = Stage(q)
    BY DEF Stage
  <1>2. Stages' = Stages
    BY <1>1 DEF Stages
  <1> QED BY <1>2

LEMMA RefWritten ==
    ASSUME PayInv, NEW r \in Runs, Persist(r) \/ Store(r) \/ LinkWebhook(r) \/ TypeIn(r)
    PROVE  [Disbursal!Next]_Stages
  <1>0. PICK p \in Payouts : p = run[r].p
    BY Known DEF Persist, Store, LinkWebhook, TypeIn
  <1>1. row' = row \/ \E ref : row' = [row EXCEPT ![p].ref = ref]
    BY <1>0 DEF Persist, Store, LinkWebhook, TypeIn
  <1>2. row \in [Payouts -> RowType]
    BY DEF PayInv, Shape
  <1>3. \A q \in Payouts : row'[q].status = row[q].status
    BY <1>1, <1>2 DEF RowType
  <1> QED BY <1>3, StageKept

(* The status of p becomes s. *)
LEMMA StatusWritten ==
    ASSUME PayInv, NEW p \in Payouts, NEW s, SetStatus(p, s)
    PROVE  row'[p].status = s /\ \A q \in Payouts \ {p} : row'[q] = row[q]
  BY DEF PayInv, Shape, RowType, SetStatus

LEMMA Submitted ==
    ASSUME PayInv, NEW p \in Payouts, NEW r, Create(r, p) \/ Approve(r, p)
    PROVE  [Disbursal!Next]_Stages
  <1>1. SetStatus(p, "APPROVED") /\ row[p].status \in {"none", "PENDING_APPROVAL"}
    BY DEF Create, Approve
  <1>2. Stage(p) \in {"none", "asked"} /\ Stage(p)' = "approved"
    BY <1>1, StatusWritten DEF Stage
  <1> QED BY <1>1, <1>2, StatusWritten, StageMoved

LEMMA Rejected == ASSUME PayInv, NEW p \in Payouts, Reject(p) PROVE [Disbursal!Next]_Stages
  <1>1. SetStatus(p, "REJECTED") /\ row[p].status = "PENDING_APPROVAL"
    BY DEF Reject
  <1>2. Stage(p) = "asked" /\ Stage(p)' = "released"
    BY <1>1, StatusWritten DEF Stage
  <1> QED BY <1>1, <1>2, StatusWritten, StageMoved

LEMMA Settled ==
    ASSUME PayInv, NEW r \in Runs,
           Claim(r) \/ HoldForReview(r) \/ Capture(r) \/ FinalizeFailure(r) \/ Reverse(r)
    PROVE  [Disbursal!Next]_Stages
  <1>0. PICK p \in Payouts : p = run[r].p
    BY Known DEF Claim, HoldForReview, Capture, FinalizeFailure, Reverse
  <1>1. CASE UNCHANGED row
    BY <1>1, StageKept
  <1>2. CASE row[p].status = "APPROVED" /\ SetStatus(p, "PROCESSING")
    <2>1. Stage(p) = "approved" /\ Stage(p)' = "handed off"
      BY <1>2, StatusWritten DEF Stage
    <2> QED BY <1>2, <2>1, StatusWritten, StageMoved
  <1>3. CASE row[p].status = "PROCESSING" /\ SetStatus(p, "NEEDS_REVIEW")
    <2>1. Stage(p) = "handed off" /\ Stage(p)' = "handed off"
      BY <1>3, StatusWritten DEF Stage
    <2> QED BY <1>3, <2>1, StatusWritten, StageMoved
  <1>4. CASE row[p].status \in HOLDABLE /\ row' = [row EXCEPT ![p] = [status |-> "SUCCESS", ref |-> run[r].ref]]
    <2>1. row'[p].status = "SUCCESS" /\ \A q \in Payouts \ {p} : row'[q] = row[q]
      BY <1>4 DEF PayInv, Shape
    <2>2. Stage(p) \in {"approved", "handed off"} /\ Stage(p)' = "captured"
      BY <1>4, <2>1 DEF Stage, HOLDABLE
    <2> QED BY <2>1, <2>2, StageMoved
  <1>5. CASE row[p].status \in HOLDABLE /\ SetStatus(p, "FAILED")
    <2>1. Stage(p) \in {"approved", "handed off"} /\ Stage(p)' = "released"
      BY <1>5, StatusWritten DEF Stage, HOLDABLE
    <2> QED BY <1>5, <2>1, StatusWritten, StageMoved
  <1>6. CASE row[p].status = "SUCCESS" /\ SetStatus(p, "REVERSED")
    <2>1. Stage(p) = "captured" /\ Stage(p)' = "reversed"
      BY <1>6, StatusWritten DEF Stage
    <2> QED BY <1>6, <2>1, StatusWritten, StageMoved
  <1> QED
    BY <1>0, <1>1, <1>2, <1>3, <1>4, <1>5, <1>6
       DEF Claim, Sendable, HoldForReview, Capture, rowVars, FinalizeFailure, Reverse

LEMMA StageSteps == PayInv /\ [Next]_vars => [Disbursal!Next]_Stages
  <1> SUFFICES ASSUME PayInv, [Next]_vars PROVE [Disbursal!Next]_Stages OBVIOUS
  <1>1. CASE UNCHANGED row
    BY <1>1, StageKept
  <1>2. ASSUME NEW r \in Runs, RunStep(r) \/ Crash(r) PROVE [Disbursal!Next]_Stages
    BY <1>1, <1>2, RefWritten, Settled
       DEF RunStep, Enqueue, Send, Answer, Read, List, Check, Reread, Poll, FinalizeSuccess, ClawMargin,
           Recheck, Crash, rowVars
  <1>3. ASSUME NEW r \in Runs, NEW p \in Payouts, Start(r, p) PROVE [Disbursal!Next]_Stages
    BY <1>1, <1>3, Submitted
       DEF Start, Initiate, Sweep, Drain, WebhookExact, WebhookFuzzy, Desk, rowVars
  <1>4. ASSUME NEW p \in Payouts, Reject(p) \/ RailStep(p) PROVE [Disbursal!Next]_Stages
    BY <1>1, <1>4, Rejected DEF RailStep, rowVars
  <1> QED BY <1>1, <1>2, <1>3, <1>4 DEF Next, vars

(* Every payout follows the state machine of service.ts's header: no       *)
(* terminal state is left but by the reversal of a success.                *)
THEOREM PayoutsFollowDisbursal == Spec => EndsOnce
  <1>1. Init => Disbursal!Init
    <2> SUFFICES ASSUME Init PROVE Disbursal!Init OBVIOUS
    <2>1. PICK W \in SUBSET Payouts :
              row = [p \in Payouts |-> [status |-> IF p \in W THEN "PENDING_APPROVAL" ELSE "none",
                                        ref |-> Null]]
      BY DEF Init
    <2>2. \A p \in Payouts : Stage(p) = IF p \in W THEN "asked" ELSE "none"
      BY <2>1 DEF Stage
    <2> QED BY <2>2 DEF Disbursal!Init
  <1>2. PayInv /\ [Next]_vars => [Disbursal!Next]_[p \in Payouts |-> Stage(p)]
    BY StageSteps DEF Stages
  <1> QED BY <1>1, <1>2, PayoutInvariant, PTL DEF Spec, EndsOnce, Disbursal!Spec
=============================================================================
