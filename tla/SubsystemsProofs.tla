-------------------------- MODULE SubsystemsProofs --------------------------
(***************************************************************************)
(* Proofs about IdempotencyKeys, for any number of keys, requests and      *)
(* deliveries of the autosweep: the record of a key works as a lock, the   *)
(* one request whose handler runs finds it IN_PROGRESS and not expired,    *)
(* until it completes it or gives it back, and what a record stores is the *)
(* one answer its requests have seen.                                      *)
(*                                                                         *)
(* Then MCSubsystems: each of its behaviours is one of every component, so *)
(* the components' theorems hold of it.                                    *)
(***************************************************************************)
EXTENDS MCSubsystems, SettlementProofs, QrProofs

KeysWorking == {"work", "enqueue", "complete", "release"}

KeysRequestType == [at : {"new", "work", "replay", "enqueue", "complete", "release", "unsure", "over"},
                key : ClientKeys, got : Requests \cup {NoRequest}]
RecordType  == [status : {"none", "IN_PROGRESS", "COMPLETED"}, response : Requests \cup {NoRequest}]

(* The handler that runs holds its key, alone; its row is committed before *)
(* it is queued.  Only a record that exists is past its date.              *)
OneHolder ==
    /\ \A k \in expired : idemKey[k].status # "none"
    /\ \A r \in Requests :
         /\ request[r].at \in KeysWorking =>
              idemKey[request[r].key].status = "IN_PROGRESS" /\ request[r].key \notin expired
         /\ request[r].at \in {"enqueue", "complete"} => r \in created
    /\ \A r, s \in Requests :
         request[r].key = request[s].key /\ request[r].at \in KeysWorking /\ request[s].at \in KeysWorking => r = s

(* One that lost the answer of its last update has stored its own row.     *)
StoredOwn ==
    \A r \in Requests : request[r].at = "unsure" =>
        /\ idemKey[request[r].key].status = "COMPLETED" /\ idemKey[request[r].key].response = r
        /\ request[r].key \notin expired

(* A finished record stores a row, and whoever was answered got that row.  *)
KeysAnswered ==
    /\ \A k \in ClientKeys : idemKey[k].status = "COMPLETED" => idemKey[k].response \in created
    /\ \A r \in Requests :
         /\ request[r].at # "over" => request[r].got = NoRequest
         /\ request[r].got # NoRequest /\ request[r].key \notin purged =>
              /\ idemKey[request[r].key].status = "COMPLETED"
              /\ idemKey[request[r].key].response = request[r].got

(* Before the key of the day there is no job; with it at most one that     *)
(* still may transfer, and none once the transfer is made.                 *)
OneSweep ==
    /\ ~sweepKey => transfers = 0 /\ \A s \in Sweepers : sweeper[s] = "new"
    /\ \A s, t \in Sweepers : sweeper[s] = "balance" /\ sweeper[t] = "balance" => s = t
    /\ (\E s \in Sweepers : sweeper[s] = "balance") => transfers = 0
    /\ transfers \in {0, 1}

KeysInv == KeysTypeOK /\ OneHolder /\ StoredOwn /\ KeysAnswered /\ OneSweep

-----------------------------------------------------------------------------
LEMMA KeysInitInv == KeysInit => KeysInv
  <1> SUFFICES ASSUME KeysInit PROVE KeysInv OBVIOUS
  <1>0. request \in [Requests -> KeysRequestType] /\ \A r \in Requests : request[r].at = "new" /\ request[r].got = NoRequest
    BY DEF KeysInit, KeysAsked, KeysRequestType
  <1> USE DEF KeysInit, NoRecord
  <1>1. KeysTypeOK
    BY <1>0 DEF KeysTypeOK, KeysRequestType
  <1>2. OneHolder
    BY <1>0 DEF OneHolder, KeysWorking
  <1>3. KeysAnswered
    BY <1>0 DEF KeysAnswered
  <1>4. OneSweep
    BY DEF OneSweep
  <1>5. StoredOwn
    BY <1>0 DEF StoredOwn
  <1> QED BY <1>1, <1>2, <1>3, <1>4, <1>5 DEF KeysInv

LEMMA KeysTypes ==
    ASSUME KeysInv
    PROVE  request \in [Requests -> KeysRequestType] /\ idemKey \in [ClientKeys -> RecordType]
  BY DEF KeysInv, KeysTypeOK, KeysRequestType, RecordType

(* The autosweep and the requests never touch each other's variables. *)
LEMMA SweepUntouched == ASSUME KeysInv, UNCHANGED sweepVars PROVE OneSweep'
  BY DEF KeysInv, OneSweep, sweepVars

(* A step of a request that leaves the records alone, or that writes the   *)
(* one it holds. *)
LEMMA RequestKeeps ==
    ASSUME KeysInv, NEW r \in Requests, NEW w \in KeysRequestType, NEW v \in RecordType,
           w.key = request[r].key, request' = [request EXCEPT ![r] = w],
           idemKey' = [idemKey EXCEPT ![w.key] = v],
           created' \in {created, created \cup {r}}, expired' \in {expired, expired \ {w.key}},
           UNCHANGED purged, UNCHANGED sweepVars,
           v = idemKey[w.key] \/ request[r].at \in KeysWorking \/ idemKey[w.key].status = "none",
           w.at \in KeysWorking => v.status = "IN_PROGRESS" /\ w.key \notin expired',
           w.at \in KeysWorking => request[r].at \in KeysWorking \/ idemKey[w.key].status = "none",
           w.key \in expired' => v.status # "none",
           w.at \in {"enqueue", "complete"} => r \in created',
           w.at = "unsure" => v.status = "COMPLETED" /\ v.response = r /\ w.key \notin expired',
           v.status = "COMPLETED" => v.response \in created',
           w.at # "over" => w.got = NoRequest,
           w.got # NoRequest => v.status = "COMPLETED" /\ v.response = w.got
    PROVE  KeysInv'
  <1>0. /\ request[r] \in KeysRequestType /\ w.key \in ClientKeys
        /\ request'[r] = w /\ \A s \in Requests \ {r} : request'[s] = request[s]
        /\ idemKey'[w.key] = v /\ \A k \in ClientKeys \ {w.key} : idemKey'[k] = idemKey[k]
        /\ \A s \in Requests : request[s].key \in ClientKeys
    BY KeysTypes DEF KeysRequestType
  <1>1. KeysTypeOK'
    BY KeysTypes DEF KeysInv, KeysTypeOK, sweepVars, KeysRequestType, RecordType
  <1>2. OneHolder'
    <2>0. expired' \subseteq expired /\ expired \subseteq ClientKeys
      BY DEF KeysInv, KeysTypeOK
    <2>1. \A k \in expired' : idemKey'[k].status # "none"
      BY <1>0, <2>0 DEF KeysInv, OneHolder
    <2>2. ASSUME NEW s \in Requests, request'[s].at \in KeysWorking
          PROVE  idemKey'[request'[s].key].status = "IN_PROGRESS" /\ request'[s].key \notin expired'
      <3>1. CASE s = r
        <4>1. request'[s] = w /\ w.at \in KeysWorking
          BY <1>0, <2>2, <3>1
        <4> QED BY <1>0, <4>1
      <3>2. CASE s # r /\ request[s].key # w.key
        BY <1>0, <2>0, <2>2, <3>2 DEF KeysInv, OneHolder
      <3>3. CASE s # r /\ request[s].key = w.key
        <4>1. request[s].at \in KeysWorking /\ idemKey[w.key].status = "IN_PROGRESS" /\ w.key \notin expired
          BY <1>0, <2>2, <3>3 DEF KeysInv, OneHolder
        <4>2. request[r].at \notin KeysWorking
          BY <3>3, <4>1 DEF KeysInv, OneHolder
        <4> QED BY <1>0, <2>0, <2>2, <3>3, <4>1, <4>2
      <3> QED BY <3>1, <3>2, <3>3
    <2>3. ASSUME NEW s \in Requests, request'[s].at \in {"enqueue", "complete"} PROVE s \in created'
      BY <1>0, <2>3 DEF KeysInv, OneHolder
    <2>4. ASSUME NEW s \in Requests, NEW t \in Requests, request'[s].key = request'[t].key,
                 request'[s].at \in KeysWorking, request'[t].at \in KeysWorking
          PROVE  s = t
      BY <1>0, <2>4 DEF KeysInv, OneHolder, KeysWorking
    <2> QED BY <2>1, <2>2, <2>3, <2>4 DEF OneHolder
  <1>3. KeysAnswered'
    BY <1>0 DEF KeysInv, OneHolder, KeysAnswered, KeysWorking
  <1>4. StoredOwn'
    <2> SUFFICES ASSUME NEW s \in Requests, request'[s].at = "unsure"
                 PROVE  /\ idemKey'[request'[s].key].status = "COMPLETED" /\ idemKey'[request'[s].key].response = s
                        /\ request'[s].key \notin expired'
      BY DEF StoredOwn
    <2>1. CASE s = r
      <3>1. request'[s] = w /\ w.at = "unsure"
        BY <1>0, <2>1
      <3> QED BY <1>0, <2>1, <3>1
    <2>2. CASE s # r
      <3>1. /\ request'[s] = request[s] /\ idemKey[request[s].key].status = "COMPLETED"
            /\ idemKey[request[s].key].response = s /\ request[s].key \notin expired
        BY <1>0, <2>2 DEF KeysInv, StoredOwn
      <3>2. request[s].key = w.key => v = idemKey[w.key]
        BY <1>0, <3>1 DEF KeysInv, OneHolder
      <3> QED BY <1>0, <3>1, <3>2
    <2> QED BY <2>1, <2>2
  <1> QED BY <1>1, <1>2, <1>3, <1>4, SweepUntouched DEF KeysInv

-----------------------------------------------------------------------------
LEMMA KeysClaimKeeps == ASSUME KeysInv, NEW r \in Requests, ClaimKey(r) PROVE KeysInv'
  <1> DEFINE k == request[r].key
             new == [status |-> "IN_PROGRESS", response |-> NoRequest]
             at == IF Insertable(k) THEN "work" ELSE "replay"
             w == [request[r] EXCEPT !.at = at]
             v == IF Insertable(k) THEN new ELSE idemKey[k]
  <1>0. /\ k \in ClientKeys /\ request[r] \in KeysRequestType /\ idemKey[k] \in RecordType
        /\ request[r].at = "new" /\ (k \in expired => idemKey[k].status # "none")
    BY KeysTypes DEF KeysRequestType, ClaimKey, KeysInv, OneHolder
  <1>1. w \in KeysRequestType /\ w.at = at /\ w.key = k /\ w.got = request[r].got
    BY <1>0 DEF KeysRequestType
  <1>2. v \in RecordType
    BY <1>0 DEF RecordType
  <1>3. /\ request' = [request EXCEPT ![r] = w] /\ idemKey' = [idemKey EXCEPT ![k] = v]
        /\ UNCHANGED <<expired, purged, created>> /\ UNCHANGED sweepVars
    BY <1>0, KeysTypes DEF ClaimKey, RequestAt, SetKey
  <1>4. Insertable(k) => idemKey[k].status = "none" /\ v.status = "IN_PROGRESS"
    BY DEF Insertable
  <1>5. ~Insertable(k) => v = idemKey[k] /\ idemKey[k].status # "none"
    BY DEF Insertable
  <1>6. request[r].got = NoRequest /\ (idemKey[k].status = "COMPLETED" => idemKey[k].response \in created)
    <2>1. request[r].at # "over"
      BY <1>0
    <2> QED BY <1>0, <2>1 DEF KeysInv, KeysAnswered
  <1> HIDE DEF w, v
  <1> QED BY <1>0, <1>1, <1>2, <1>3, <1>4, <1>5, <1>6, RequestKeeps DEF KeysWorking

(* What a request and the record of its key are before a step of it. *)
LEMMA KeysBefore ==
    ASSUME KeysInv, NEW r \in Requests
    PROVE  /\ request[r].key \in ClientKeys /\ request[r] \in KeysRequestType
           /\ idemKey[request[r].key] \in RecordType
           /\ idemKey = [idemKey EXCEPT ![request[r].key] = idemKey[request[r].key]]
           /\ request[r].key \in expired => idemKey[request[r].key].status # "none"
           /\ idemKey[request[r].key].status = "COMPLETED" => idemKey[request[r].key].response \in created
           /\ request[r].at # "over" => request[r].got = NoRequest
           /\ request[r].at \in KeysWorking =>
                idemKey[request[r].key].status = "IN_PROGRESS" /\ request[r].key \notin expired
           /\ request[r].at \in {"enqueue", "complete"} => r \in created
  <1>1. request[r].key \in ClientKeys /\ request[r] \in KeysRequestType
    BY KeysTypes DEF KeysRequestType
  <1>2. /\ idemKey[request[r].key] \in RecordType
        /\ idemKey = [idemKey EXCEPT ![request[r].key] = idemKey[request[r].key]]
    BY KeysTypes, <1>1
  <1> QED BY <1>1, <1>2 DEF KeysInv, OneHolder, KeysAnswered

(* A request that only moves on: its place changes and nothing it holds.   *)
LEMMA KeysMoveKeeps ==
    ASSUME KeysInv, NEW r \in Requests,
           NEW at \in {"work", "replay", "enqueue", "complete", "release", "over"},
           RequestAt(r, at), request[r].at # "over",
           UNCHANGED <<idemKey, expired, purged>>, UNCHANGED sweepVars,
           created' \in {created, created \cup {r}},
           at \in KeysWorking => request[r].at \in KeysWorking,
           at \in {"enqueue", "complete"} => r \in created'
    PROVE  KeysInv'
  <1> DEFINE w == [request[r] EXCEPT !.at = at]
             v == idemKey[request[r].key]
  <1>1. w \in KeysRequestType /\ w.at = at /\ w.key = request[r].key /\ w.got = request[r].got
    BY KeysBefore DEF KeysRequestType
  <1>2. request' = [request EXCEPT ![r] = w]
    BY DEF RequestAt
  <1>3. v \in RecordType /\ idemKey' = [idemKey EXCEPT ![w.key] = v]
    BY <1>1, KeysBefore
  <1>4. v = idemKey[w.key]
    BY <1>1
  <1>5. /\ w.at \in KeysWorking => v.status = "IN_PROGRESS" /\ w.key \notin expired'
        /\ w.key \in expired' => v.status # "none"
        /\ v.status = "COMPLETED" => v.response \in created'
        /\ w.got = NoRequest /\ w.at # "unsure"
    BY <1>1, KeysBefore
  <1> HIDE DEF w, v
  <1> QED BY <1>1, <1>2, <1>3, <1>4, <1>5, RequestKeeps

LEMMA ReplayKeeps == ASSUME KeysInv, NEW r \in Requests, Replay(r) PROVE KeysInv'
  <1> DEFINE v == idemKey[request[r].key]
             got == IF v.status = "COMPLETED" THEN v.response ELSE NoRequest
             w == [at |-> "over", key |-> request[r].key, got |-> got]
  <1>1. request[r].at = "replay" /\ request[r].got = NoRequest
    BY KeysBefore DEF Replay
  <1>2. w \in KeysRequestType
    BY KeysBefore DEF KeysRequestType, RecordType
  <1>3. request' = [request EXCEPT ![r] = w]
    BY KeysTypes DEF Replay, Reply
  <1>4. /\ v \in RecordType /\ idemKey' = [idemKey EXCEPT ![w.key] = v]
        /\ UNCHANGED <<expired, purged, created>> /\ UNCHANGED sweepVars
    BY KeysBefore DEF Replay
  <1>5. /\ w.at = "over" /\ w.key = request[r].key /\ v = idemKey[w.key]
        /\ w.got # NoRequest => v.status = "COMPLETED" /\ v.response = w.got
    BY <1>1
  <1> HIDE DEF w, v
  <1> QED BY <1>2, <1>3, <1>4, <1>5, KeysBefore, RequestKeeps DEF KeysWorking

LEMMA CompleteKeeps == ASSUME KeysInv, NEW r \in Requests, CompleteKey(r) PROVE KeysInv'
  <1> DEFINE k == request[r].key
             v == [status |-> "COMPLETED", response |-> r]
             w == [at |-> "over", key |-> k, got |-> r]
  <1>0. request[r].at = "complete" /\ UNCHANGED <<expired, purged, created>> /\ UNCHANGED sweepVars
    BY DEF CompleteKey
  <1>1. CASE UNCHANGED idemKey /\ RequestAt(r, "release")
    BY <1>0, <1>1, KeysMoveKeeps DEF KeysWorking
  <1>2. CASE SetKey(k, v) /\ RequestAt(r, "unsure")
    <2> DEFINE u == [request[r] EXCEPT !.at = "unsure"]
    <2>1. u \in KeysRequestType /\ v \in RecordType /\ u.at = "unsure" /\ u.key = k /\ u.got = NoRequest
      BY <1>0, KeysBefore DEF KeysRequestType, RecordType
    <2>2. request' = [request EXCEPT ![r] = u]
      BY <1>2 DEF RequestAt
    <2>3. idemKey' = [idemKey EXCEPT ![k] = v] /\ v.status = "COMPLETED" /\ v.response = r
      BY <1>2 DEF SetKey
    <2>4. r \in created /\ request[r].at \in KeysWorking /\ k \notin expired'
      BY <1>0, KeysBefore DEF KeysWorking
    <2> HIDE DEF u, v
    <2> QED BY <1>0, <2>1, <2>2, <2>3, <2>4, KeysBefore, RequestKeeps DEF KeysWorking
  <1>3. CASE SetKey(k, v) /\ Reply(r, r)
    <2>1. w \in KeysRequestType /\ v \in RecordType /\ w.at = "over" /\ w.key = k /\ w.got = r
      BY KeysBefore DEF KeysRequestType, RecordType
    <2>2. request' = [request EXCEPT ![r] = w]
      BY <1>3, KeysTypes DEF Reply
    <2>3. idemKey' = [idemKey EXCEPT ![k] = v] /\ v.status = "COMPLETED" /\ v.response = r
      BY <1>3 DEF SetKey
    <2>4. r \in created /\ request[r].at \in KeysWorking
      BY <1>0, KeysBefore DEF KeysWorking
    <2> HIDE DEF w, v
    <2> QED BY <1>0, <2>1, <2>2, <2>3, <2>4, KeysBefore, RequestKeeps DEF KeysWorking
  <1> QED BY <1>1, <1>2, <1>3 DEF CompleteKey

LEMMA ReleaseKeeps == ASSUME KeysInv, NEW r \in Requests, ReleaseKey(r) PROVE KeysInv'
  <1> DEFINE k == request[r].key
             w == [request[r] EXCEPT !.at = "over"]
  <1>0. /\ request[r].at = "release" /\ RequestAt(r, "over")
        /\ UNCHANGED <<purged, created>> /\ UNCHANGED sweepVars
    BY DEF ReleaseKey
  <1>1. CASE UNCHANGED <<idemKey, expired>>
    BY <1>0, <1>1, KeysMoveKeeps DEF KeysWorking
  <1>2. CASE SetKey(k, NoRecord) /\ expired' = expired \ {k}
    <2>1. w \in KeysRequestType /\ w.at = "over" /\ w.key = k /\ w.got = NoRequest
      BY <1>0, KeysBefore DEF KeysRequestType
    <2>2. request' = [request EXCEPT ![r] = w]
      BY <1>0 DEF RequestAt
    <2>3. /\ idemKey' = [idemKey EXCEPT ![k] = NoRecord] /\ NoRecord \in RecordType
          /\ NoRecord.status = "none"
      BY <1>2 DEF SetKey, NoRecord, RecordType
    <2> HIDE DEF w
    <2> QED BY <1>0, <1>2, <2>1, <2>2, <2>3, KeysBefore, RequestKeeps DEF KeysWorking
  <1> QED BY <1>1, <1>2 DEF ReleaseKey

(* The record given back is the request's own, so no other is in progress. *)
LEMMA ReleaseCompletedKeeps == ASSUME KeysInv, NEW r \in Requests, ReleaseCompleted(r) PROVE KeysInv'
  <1> DEFINE k == request[r].key
             w == [request[r] EXCEPT !.at = "over"]
  <1>0. request[r].at = "unsure" /\ RequestAt(r, "over") /\ UNCHANGED created /\ UNCHANGED sweepVars
    BY DEF ReleaseCompleted
  <1>1. CASE UNCHANGED <<idemKey, expired, purged>>
    BY <1>0, <1>1, KeysMoveKeeps DEF KeysWorking
  <1>2. CASE SetKey(k, NoRecord) /\ expired' = expired \ {k} /\ purged' = purged \cup {k}
    <2>1. /\ k \in ClientKeys /\ w \in KeysRequestType /\ w.at = "over" /\ w.key = k /\ w.got = NoRequest
          /\ idemKey[k].status = "COMPLETED" /\ idemKey[k].response = r /\ k \notin expired
      BY <1>0, KeysBefore DEF KeysInv, StoredOwn, KeysRequestType
    <2>2. request'[r] = w /\ \A s \in Requests \ {r} : request'[s] = request[s]
      BY <1>0, KeysTypes DEF RequestAt
    <2>3. /\ idemKey'[k] = NoRecord /\ NoRecord \in RecordType /\ NoRecord.status = "none"
          /\ \A j \in ClientKeys \ {k} : idemKey'[j] = idemKey[j]
          /\ \A s \in Requests : request[s].key \in ClientKeys
          /\ expired \subseteq ClientKeys
      BY <1>2, <2>1, KeysTypes DEF SetKey, NoRecord, RecordType, KeysRequestType, KeysInv, KeysTypeOK
    <2>4. KeysTypeOK'
      <3>1. request' \in [Requests -> KeysRequestType]
        BY <1>0, <2>1, KeysTypes DEF RequestAt
      <3>2. idemKey' \in [ClientKeys -> RecordType]
        BY <1>2, <2>1, <2>3, KeysTypes DEF SetKey
      <3> QED BY <1>0, <1>2, <2>1, <3>1, <3>2 DEF KeysInv, KeysTypeOK, sweepVars, KeysRequestType, RecordType
    <2>5. \A s \in Requests : request[s].at \in KeysWorking => request[s].key # k
      BY <2>1 DEF KeysInv, OneHolder
    <2>6. \A s \in Requests \ {r} : request[s].at = "unsure" => request[s].key # k
      BY <2>1 DEF KeysInv, StoredOwn
    <2> HIDE DEF w, k
    <2>7. OneHolder'
      BY <1>0, <1>2, <2>1, <2>2, <2>3, <2>5 DEF KeysInv, OneHolder, KeysWorking
    <2>8. StoredOwn'
      BY <1>0, <1>2, <2>1, <2>2, <2>3, <2>6 DEF KeysInv, StoredOwn
    <2>9. KeysAnswered'
      BY <1>0, <1>2, <2>1, <2>2, <2>3 DEF KeysInv, KeysAnswered
    <2> QED BY <1>0, <2>4, <2>7, <2>8, <2>9, SweepUntouched DEF KeysInv
  <1> QED BY <1>1, <1>2 DEF ReleaseCompleted

LEMMA KeysStepKeeps == ASSUME KeysInv, NEW r \in Requests, RequestStep(r) \/ RequestDies(r) PROVE KeysInv'
  <1>1. ASSUME CreateRow(r) PROVE KeysInv'
    BY <1>1, KeysMoveKeeps DEF CreateRow, KeysWorking
  <1>2. ASSUME EnqueueRow(r) PROVE KeysInv'
    BY <1>2, KeysBefore, KeysMoveKeeps DEF EnqueueRow, KeysWorking
  <1>3. ASSUME RequestDies(r) PROVE KeysInv'
    BY <1>3, KeysMoveKeeps DEF RequestDies, KeysWorking
  <1> QED BY <1>1, <1>2, <1>3, KeysClaimKeeps, ReplayKeeps, CompleteKeeps, ReleaseKeeps,
            ReleaseCompletedKeeps DEF RequestStep

-----------------------------------------------------------------------------
(* A key expires when no request holds it, so purging takes none away.     *)
LEMMA ExpireKeeps == ASSUME KeysInv, NEW k \in ClientKeys, Expire(k) PROVE KeysInv'
  <1>0. \A r \in Requests : request[r].at \in KeysWorking \cup {"unsure"} => request[r].key # k
    BY DEF Expire, Holding, KeysWorking
  <1>1. KeysTypeOK' /\ OneHolder' /\ StoredOwn' /\ KeysAnswered'
    BY <1>0 DEF Expire, KeysInv, KeysTypeOK, OneHolder, StoredOwn, KeysAnswered, sweepVars
  <1> QED BY <1>1, SweepUntouched DEF Expire, KeysInv

LEMMA PurgeKeeps == ASSUME KeysInv, NEW k \in ClientKeys, Purge(k) PROVE KeysInv'
  <1>0. /\ idemKey \in [ClientKeys -> RecordType] /\ idemKey' = [idemKey EXCEPT ![k] = NoRecord]
        /\ NoRecord \in RecordType /\ NoRecord.status = "none"
        /\ k \in expired /\ expired' = expired \ {k} /\ purged' = purged \cup {k}
        /\ UNCHANGED <<request, created>> /\ UNCHANGED sweepVars
        /\ \A r \in Requests : request[r].key \in ClientKeys
    BY KeysTypes DEF Purge, SetKey, NoRecord, RecordType, KeysRequestType
  <1>1. KeysTypeOK'
    BY <1>0 DEF KeysInv, KeysTypeOK, sweepVars, RecordType
  <1>2. OneHolder'
    BY <1>0 DEF KeysInv, OneHolder
  <1>3. KeysAnswered'
    BY <1>0 DEF KeysInv, KeysAnswered
  <1>4. StoredOwn'
    BY <1>0 DEF KeysInv, StoredOwn
  <1> QED BY <1>0, <1>1, <1>2, <1>3, <1>4, SweepUntouched DEF KeysInv

LEMMA SweeperKeeps ==
    ASSUME KeysInv, NEW s \in Sweepers, ClaimDay(s) \/ StopSweep(s) \/ TransferSurplus(s)
    PROVE  KeysInv'
  <1> USE DEF KeysInv, ClaimDay, StopSweep, TransferSurplus, SweeperAt, idemVars
  <1>1. KeysTypeOK'
    <2>0. sweepKey' \in BOOLEAN
      BY Zenon DEF KeysTypeOK
    <2>1. sweeper' \in [Sweepers -> {"new", "balance", "over"}] /\ transfers' \in Nat
      BY DEF KeysTypeOK
    <2>2. UNCHANGED <<idemKey, expired, purged, request, created>>
      OBVIOUS
    <2> QED BY <2>0, <2>1, <2>2 DEF KeysTypeOK
  <1>2. OneHolder' /\ StoredOwn' /\ KeysAnswered'
    BY DEF OneHolder, StoredOwn, KeysAnswered
  <1>3. OneSweep'
    BY DEF KeysTypeOK, OneSweep
  <1> QED BY <1>1, <1>2, <1>3

LEMMA KeysNextInv == KeysInv /\ [KeysNext]_keyVars => KeysInv'
  <1> SUFFICES ASSUME KeysInv, [KeysNext]_keyVars PROVE KeysInv' OBVIOUS
  <1>1. CASE UNCHANGED keyVars
    BY <1>1 DEF keyVars, KeysInv, KeysTypeOK, OneHolder, StoredOwn, KeysAnswered, OneSweep
  <1>2. CASE KeysNext
    BY <1>2, KeysStepKeeps, ExpireKeeps, PurgeKeeps, SweeperKeeps DEF KeysNext
  <1> QED BY <1>1, <1>2

LEMMA KeysAlwaysInv == KeysSpec => []KeysInv
  BY KeysInitInv, KeysNextInv, PTL DEF KeysSpec

-----------------------------------------------------------------------------
(* Type correctness of the records, the requests and the day key, for any  *)
(* number of keys and requests (idempotency.ts, autosweep.ts). *)
THEOREM KeysTyped == KeysSpec => []KeysTypeOK
  BY KeysAlwaysInv, PTL DEF KeysInv

(* withIdempotency: between two purges one handler at a time runs under a  *)
(* key and every answer to it is the one committed row, wherever requests  *)
(* fail, die, or come late. *)
THEOREM KeysAnswerOnce == KeysSpec => []OneAnswerPerKey
  <1>1. KeysInv => OneAnswerPerKey
    <2> SUFFICES ASSUME KeysInv, NEW r \in Requests, NEW s \in Requests,
                        request[r].key = request[s].key, request[r].key \notin purged
                 PROVE  /\ request[r].got # NoRequest => request[r].got \in created
                        /\ request[r].got # NoRequest /\ request[s].got # NoRequest => request[r].got = request[s].got
                        /\ {request[r].at, request[s].at} \subseteq {"work", "enqueue", "complete", "release"} => r = s
      BY DEF OneAnswerPerKey
    <2>0. request[r].key \in ClientKeys
      BY KeysBefore
    <2>1. request[r].got # NoRequest => request[r].got \in created
      BY <2>0 DEF KeysInv, KeysAnswered
    <2>2. request[r].got # NoRequest /\ request[s].got # NoRequest => request[r].got = request[s].got
      BY DEF KeysInv, KeysAnswered
    <2>3. {request[r].at, request[s].at} \subseteq {"work", "enqueue", "complete", "release"} => r = s
      BY DEF KeysInv, OneHolder, KeysWorking
    <2> QED BY <2>1, <2>2, <2>3
  <1> QED BY <1>1, KeysAlwaysInv, PTL

(* runSettlementAutosweep transfers at most once a day, however often its  *)
(* job is delivered and wherever it stops. *)
THEOREM OneTransferADay == KeysSpec => []AutosweepOncePerDay
  <1>1. KeysInv => AutosweepOncePerDay
    BY DEF KeysInv, OneSweep, AutosweepOncePerDay
  <1> QED BY <1>1, KeysAlwaysInv, PTL

-----------------------------------------------------------------------------
(* A behaviour of the subsystems is a behaviour of each: the component it  *)
(* is about moves, the others stutter.                                     *)
LEMMA PartsBegin ==
    PartInit => PosInit /\ QrInit /\ RotInit /\ TopUpInit /\ T1Init /\ KeysInit
  BY DEF PartInit

LEMMA PartsMove ==
    [PartNext]_partVars =>
        /\ [PosNext]_posVars /\ [QrNext]_qrVars /\ [RotNext]_rotVars
        /\ [TopUpNext]_topupVars /\ [T1Next]_t1Vars /\ [KeysNext]_keyVars
  <1>1. CASE UNCHANGED partVars
    BY <1>1 DEF partVars
  <1>2. CASE PartNext
    BY <1>2 DEF PartNext
  <1> QED BY <1>1, <1>2

LEMMA PartsBehave ==
    PartSpec => PosSpec /\ QrSpec /\ RotSpec /\ TopUpSpec /\ T1Spec /\ KeysSpec
  BY PartsBegin, PartsMove, PTL DEF PartSpec, PosSpec, QrSpec, RotSpec, TopUpSpec, T1Spec, KeysSpec

(* Type correctness of the settlement, claim, rotation, top-up and key     *)
(* tables side by side, for any number of rows and executions of each.     *)
THEOREM SubsystemsTyped == PartSpec => []SubsystemsTypeOK
  <1>1. PosTypeOK /\ QrTypeOK /\ RotTypeOK /\ TopUpTypeOK /\ T1TypeOK /\ KeysTypeOK => SubsystemsTypeOK
    BY DEF SubsystemsTypeOK
  <1> QED BY <1>1, PartsBehave, SwipesTyped, ClaimsTyped, RotationTyped, TopUpsTyped, SlotsTyped, KeysTyped, PTL

(* What the run of the subsystems checks of its components holds of the    *)
(* composition for any number of captures, claims, top-ups, triggers, keys *)
(* and jobs (pos.ts, claims.ts, topup.ts, t1.ts, idempotency.ts). *)
THEOREM SubsystemsSafe ==
    PartSpec => [](/\ PosPaidOnce /\ QrMoneyMatchesStatus /\ QrLargeNeedsTwo /\ TopUpCreditsMatch
                   /\ T1BooksAgree /\ OneAnswerPerKey /\ AutosweepOncePerDay)
  BY PartsBehave, PaidOnce, MoneyMatchesStatus, LargeNeedsTwo, CreditsMatch, BooksAgree,
     KeysAnswerOnce, OneTransferADay, PTL
=============================================================================
