--------------------------- MODULE IdempotencyKeys ---------------------------
(***************************************************************************)
(* The IdempotencyKey table: withIdempotency of src/src/lib/idempotency.ts *)
(* around the payout route, which creates a row and then queues its job,   *)
(* and the day key of the company account's autosweep                      *)
(* (src/src/lib/settlement/autosweep.ts).  The daily housekeeping purges   *)
(* keys that have expired.                                                 *)
(*                                                                         *)
(* A request stands for one HTTP request; the row its handler may create   *)
(* is named by the request.                                                *)
(***************************************************************************)
EXTENDS Integers, FiniteSets

CONSTANTS
    ClientKeys, \* Idempotency-Key headers, with their scope
    Requests,   \* requests, in any order and concurrently
    Sweepers,   \* deliveries of the day's autosweep job
    NoRequest   \* a response column left NULL

ASSUME NoRequestAssumption == NoRequest \notin Requests

VARIABLES
    idemKey,    \* key -> its record: status, and the request whose response it stores
    expired,    \* keys whose record is past expiresAt
    purged,     \* keys whose record was ever purged, or given back with an answer in it
    request,    \* request -> what it is doing, its key, the response it returned
    created,    \* requests whose handler committed a row
    sweepKey,   \* the autosweep key of the day exists
    sweeper,    \* sweeper -> what it is doing
    transfers   \* settlement transfers sent today

idemVars  == <<idemKey, expired, purged, request, created>>
sweepVars == <<sweepKey, sweeper, transfers>>
keyVars   == <<idemKey, expired, purged, request, created, sweepKey, sweeper, transfers>>

NoRecord == [status |-> "none", response |-> NoRequest]

KeysAsked == {[at |-> "new", key |-> k, got |-> NoRequest] : k \in ClientKeys}

KeysInit ==
    /\ idemKey = [k \in ClientKeys |-> NoRecord]
    /\ expired = {}
    /\ purged = {}
    /\ request \in [Requests -> KeysAsked]
    /\ created = {}
    /\ sweepKey = FALSE
    /\ sweeper = [s \in Sweepers |-> "new"]
    /\ transfers = 0

-----------------------------------------------------------------------------
(* withIdempotency. *)

RequestAt(r, at) == request' = [request EXCEPT ![r].at = at]
Reply(r, got)    == request' = [request EXCEPT ![r] = [at |-> "over", key |-> @.key, got |-> got]]
SetKey(k, v)     == idemKey' = [idemKey EXCEPT ![k] = v]

(* Mutant: a key in progress may be taken over. *)
RetakeInProgress(k) == idemKey[k].status # "COMPLETED"

(* INSERT ... ON CONFLICT DO NOTHING. *)
Insertable(k) == idemKey[k].status = "none"

ClaimKey(r) ==
    LET k == request[r].key IN
    /\ request[r].at = "new"
    /\ IF Insertable(k)
       THEN SetKey(k, [status |-> "IN_PROGRESS", response |-> NoRequest]) /\ RequestAt(r, "work")
       ELSE UNCHANGED idemKey /\ RequestAt(r, "replay")
    /\ UNCHANGED <<expired, purged, created, sweepVars>>

(* The stored response, or 409. *)
Replay(r) ==
    LET k == request[r].key IN
    /\ request[r].at = "replay"
    /\ Reply(r, IF idemKey[k].status = "COMPLETED" THEN idemKey[k].response ELSE NoRequest)
    /\ UNCHANGED <<idemKey, expired, purged, created, sweepVars>>

(* Hold the funds and create the row, or fail. *)
CreateRow(r) ==
    /\ request[r].at = "work"
    /\ \/ created' = created \cup {r} /\ RequestAt(r, "enqueue")
       \/ UNCHANGED created /\ RequestAt(r, "release")
    /\ UNCHANGED <<idemKey, expired, purged, sweepVars>>

(* The audit entry and the queue are after the commit. *)
EnqueueRow(r) ==
    /\ request[r].at = "enqueue"
    /\ \E at \in {"complete", "release"} : RequestAt(r, at)
    /\ UNCHANGED <<idemKey, expired, purged, created, sweepVars>>

(* An update that was committed may have lost its answer.                  *)
CompleteKey(r) ==
    LET k == request[r].key IN
    /\ request[r].at = "complete"
    /\ \/ /\ idemKey[k].status # "none"
          /\ SetKey(k, [status |-> "COMPLETED", response |-> r])
          /\ Reply(r, r) \/ RequestAt(r, "unsure")
       \/ UNCHANGED idemKey /\ RequestAt(r, "release")
    /\ UNCHANGED <<expired, purged, created, sweepVars>>

(* Any error frees the key, if the delete gets through. *)
ReleaseKey(r) ==
    LET k == request[r].key IN
    /\ request[r].at = "release"
    /\ \/ SetKey(k, NoRecord) /\ expired' = expired \ {k}
       \/ UNCHANGED <<idemKey, expired>>
    /\ RequestAt(r, "over")
    /\ UNCHANGED <<purged, created, sweepVars>>

(* The same delete, of a record that others may have been answered from.   *)
ReleaseCompleted(r) ==
    LET k == request[r].key IN
    /\ request[r].at = "unsure"
    /\ \/ SetKey(k, NoRecord) /\ expired' = expired \ {k} /\ purged' = purged \cup {k}
       \/ UNCHANGED <<idemKey, expired, purged>>
    /\ RequestAt(r, "over")
    /\ UNCHANGED <<created, sweepVars>>

(* The process dies and its claim stays. *)
RequestDies(r) ==
    /\ request[r].at \notin {"new", "over"}
    /\ RequestAt(r, "over")
    /\ UNCHANGED <<idemKey, expired, purged, created, sweepVars>>

(* 24 hours go by; no request takes that long. *)
Holding(k) == {r \in Requests : request[r].key = k /\ request[r].at \notin {"new", "over"}}

Expire(k) ==
    /\ idemKey[k].status # "none" /\ k \notin expired
    /\ Holding(k) = {}
    /\ expired' = expired \cup {k}
    /\ UNCHANGED <<idemKey, purged, request, created, sweepVars>>

(* Mutant: only finished keys are cleaned up. *)
PurgeCompleted(k) ==
    /\ k \in expired /\ idemKey[k].status = "COMPLETED"
    /\ SetKey(k, NoRecord)
    /\ expired' = expired \ {k}
    /\ purged' = purged \cup {k}
    /\ UNCHANGED <<request, created, sweepVars>>

Purge(k) ==
    /\ k \in expired
    /\ SetKey(k, NoRecord)
    /\ expired' = expired \ {k}
    /\ purged' = purged \cup {k}
    /\ UNCHANGED <<request, created, sweepVars>>

-----------------------------------------------------------------------------
(* runSettlementAutosweep: the key of the day outlives the day, so within  *)
(* one it is never purged. *)

SweeperAt(s, at) == sweeper' = [sweeper EXCEPT ![s] = at]

(* Mutant: a key that is taken does not stop the job. *)
SweepAnyway(s) ==
    /\ sweeper[s] = "new"
    /\ sweepKey' = TRUE
    /\ SweeperAt(s, "balance")
    /\ UNCHANGED <<idemVars, transfers>>

ClaimDay(s) ==
    /\ sweeper[s] = "new"
    /\ ~sweepKey
    /\ sweepKey' = TRUE
    /\ SweeperAt(s, "balance")
    /\ UNCHANGED <<idemVars, transfers>>

(* No balance, no surplus, no verified account: the day is used up.        *)
StopSweep(s) ==
    /\ sweeper[s] = "balance"
    /\ SweeperAt(s, "over")
    /\ UNCHANGED <<idemVars, sweepKey, transfers>>

TransferSurplus(s) ==
    /\ sweeper[s] = "balance"
    /\ transfers' = transfers + 1
    /\ SweeperAt(s, "over")
    /\ UNCHANGED <<idemVars, sweepKey>>

-----------------------------------------------------------------------------
RequestStep(r) ==
    ClaimKey(r) \/ Replay(r) \/ CreateRow(r) \/ EnqueueRow(r) \/ CompleteKey(r) \/ ReleaseKey(r)
    \/ ReleaseCompleted(r)

KeysNext ==
    \/ \E r \in Requests : RequestStep(r) \/ RequestDies(r)
    \/ \E k \in ClientKeys : Expire(k) \/ Purge(k)
    \/ \E s \in Sweepers : ClaimDay(s) \/ StopSweep(s) \/ TransferSurplus(s)

KeysSpec == KeysInit /\ [][KeysNext]_keyVars

(* A handler goes on unless it died; time passes; housekeeping runs daily. *)
KeysFair ==
    /\ \A r \in Requests : WF_keyVars(request[r].at # "new" /\ RequestStep(r))
    /\ \A k \in ClientKeys : WF_keyVars(Expire(k)) /\ WF_keyVars(Purge(k))

-----------------------------------------------------------------------------
(* Properties. *)

KeysTypeOK ==
    /\ idemKey \in [ClientKeys -> [status : {"none", "IN_PROGRESS", "COMPLETED"},
                                   response : Requests \cup {NoRequest}]]
    /\ expired \subseteq ClientKeys /\ purged \subseteq ClientKeys
    /\ request \in [Requests -> [at : {"new", "work", "replay", "enqueue", "complete", "release", "unsure",
                                       "over"},
                                 key : ClientKeys, got : Requests \cup {NoRequest}]]
    /\ created \subseteq Requests
    /\ sweepKey \in BOOLEAN
    /\ sweeper \in [Sweepers -> {"new", "balance", "over"}]
    /\ transfers \in Nat

(* "Replaying the same key returns the original result": within a key's    *)
(* life, every answer to it is one and the same row, the row exists, and   *)
(* two handlers never run at once - although a failure after the row was   *)
(* committed frees the key and the retry creates another.  The life of a   *)
(* key ends when it is purged, or when the update that stored its answer   *)
(* looked like a failure and the stored answer was deleted.                *)
OneAnswerPerKey ==
    \A r, s \in Requests :
        request[r].key = request[s].key /\ request[r].key \notin purged =>
            /\ request[r].got # NoRequest => request[r].got \in created
            /\ request[r].got # NoRequest /\ request[s].got # NoRequest => request[r].got = request[s].got
            /\ {request[r].at, request[s].at} \subseteq {"work", "enqueue", "complete", "release"} => r = s

(* A claim left by a dead process, or one whose release failed, does not   *)
(* block its key for ever.                                                 *)
KeysAreFreed ==
    \A k \in ClientKeys : idemKey[k].status = "IN_PROGRESS" ~> idemKey[k].status # "IN_PROGRESS"

(* "One sweep per IST day", however often the job is delivered and         *)
(* wherever it stops.                                                      *)
AutosweepOncePerDay == transfers <= 1
=============================================================================
