------------------------------ MODULE QrRotation ------------------------------
(***************************************************************************)
(* The live QR code: resolveLiveQr of src/src/lib/qr/rotation.ts, called   *)
(* by every poll of the retailers' page, every submitted claim and every   *)
(* change an admin makes.                                                  *)
(*                                                                         *)
(* A statement is a step.  The winner's two updates are one transaction    *)
(* under READ COMMITTED: the first locks the rows it switches off until    *)
(* the commit, and does not see a code another transaction is about to     *)
(* switch on.                                                              *)
(***************************************************************************)
EXTENDS Integers

CONSTANTS
    Codes,      \* StaticQr rows
    CreatedAt,  \* code -> when its row was created
    Priorities, \* priorities an admin types in
    Resolvers,  \* concurrent resolveLiveQr calls
    MaxChanges  \* how often an admin, a claim or midnight changes the queue

ASSUME CodesAreOrdered ==
    /\ CreatedAt \in [Codes -> Nat] /\ \A c, d \in Codes : CreatedAt[c] = CreatedAt[d] => c = d
    /\ Priorities \subseteq Nat

ASSUME MaxChangesAssumption == MaxChanges \in Nat

VARIABLES
    codePriority, \* code -> priority, the lowest is collected on first
    codeEnabled,  \* enabled codes
    codePaused,   \* code -> "no", "today" or "earlier" (autoPausedOn)
    codeFull,     \* codes whose claims of today reach the daily limit
    codeLive,     \* active codes
    resolver,     \* resolver -> what it is doing
    changes       \* changes so far

queueVars == <<codePriority, codeEnabled, codeFull, changes>>
rotVars   == <<codePriority, codeEnabled, codePaused, codeFull, codeLive, resolver, changes>>

NotResolving == [at |-> "idle", todo |-> {}, off |-> {}]

(* ORDER BY priority, createdAt: the first of a set of candidates. *)
Precedes(x, y) ==
    \/ x.priority < y.priority
    \/ x.priority = y.priority /\ CreatedAt[x.code] < CreatedAt[y.code]

First(S) == {x \in S : \A y \in S \ {x} : Precedes(x, y)}

Candidates ==
    {[code |-> c, priority |-> codePriority[c]] : c \in {d \in codeEnabled : codePaused[d] = "no"}}

DefaultPriority == 100

RotInit ==
    /\ codePriority = [c \in Codes |-> DefaultPriority]
    /\ codeEnabled = Codes
    /\ codePaused = [c \in Codes |-> "no"]
    /\ codeFull = {}
    /\ codeLive = {x.code : x \in First(Candidates)}
    /\ resolver = [v \in Resolvers |-> NotResolving]
    /\ changes = 0

-----------------------------------------------------------------------------
RotGo(v, w) == resolver' = [resolver EXCEPT ![v] = w]

(* Rows another transaction has updated and not committed. *)
Locked(v) == UNION {resolver[u].off : u \in Resolvers \ {v}}

(* Pauses of an earlier day end. *)
ResetPauses(v) ==
    /\ resolver[v].at = "idle"
    /\ \A c \in Codes : codePaused[c] = "earlier" => c \notin Locked(v)
    /\ codePaused' = [c \in Codes |-> IF codePaused[c] = "earlier" THEN "no" ELSE codePaused[c]]
    /\ RotGo(v, [NotResolving EXCEPT !.at = "list"])
    /\ UNCHANGED <<queueVars, codeLive>>

ListCandidates(v) ==
    /\ resolver[v].at = "list"
    /\ RotGo(v, [resolver[v] EXCEPT !.at = "walk", !.todo = Candidates])
    /\ UNCHANGED <<queueVars, codePaused, codeLive>>

(* The next candidate: over its limit, the winner, or there is none. *)
Walk(v) ==
    LET w == resolver[v] IN
    /\ w.at = "walk"
    /\ \/ w.todo = {} /\ RotGo(v, [w EXCEPT !.at = "exhausted"])
       \/ \E x \in First(w.todo) :
            RotGo(v, [w EXCEPT !.at = IF x.code \in codeFull THEN "pause" ELSE "deactivate"])
    /\ UNCHANGED <<queueVars, codePaused, codeLive>>

Pause(v) ==
    LET w == resolver[v] IN
    /\ w.at = "pause"
    /\ \E x \in First(w.todo) :
         /\ x.code \notin Locked(v)
         /\ IF codePaused[x.code] = "no"
            THEN codePaused' = [codePaused EXCEPT ![x.code] = "today"] /\ codeLive' = codeLive \ {x.code}
            ELSE UNCHANGED <<codePaused, codeLive>>
         /\ RotGo(v, [w EXCEPT !.at = "walk", !.todo = @ \ {x}])
    /\ UNCHANGED queueVars

(* Mutant: the winner is switched on and nothing else off. *)
KeepOthers(v) ==
    LET w == resolver[v] IN
    /\ w.at = "deactivate"
    /\ RotGo(v, [w EXCEPT !.at = "activate", !.off = {}])
    /\ UNCHANGED <<queueVars, codePaused, codeLive>>

DeactivateOthers(v) ==
    LET w == resolver[v] IN
    /\ w.at = "deactivate"
    /\ \E x \in First(w.todo) :
         LET off == codeLive \ {x.code} IN
         /\ off \cap Locked(v) = {}
         /\ RotGo(v, [w EXCEPT !.at = "activate", !.off = off])
    /\ UNCHANGED <<queueVars, codePaused, codeLive>>

ActivateWinner(v) ==
    LET w == resolver[v] IN
    /\ w.at = "activate"
    /\ \E x \in First(w.todo) :
         /\ x.code \notin Locked(v)
         /\ codeLive' = (codeLive \ w.off) \cup {x.code}
    /\ RotGo(v, NotResolving)
    /\ UNCHANGED <<queueVars, codePaused>>

(* Two winners that wait for each other's row: the database ends one.      *)
WaitsForRow(v, u) ==
    /\ resolver[v].at = "activate" /\ resolver[u].at = "activate"
    /\ \E x \in First(resolver[v].todo) : x.code \in resolver[u].off

DeadlockVictim(v) ==
    /\ \E u \in Resolvers \ {v} : WaitsForRow(v, u) /\ WaitsForRow(u, v)
    /\ RotGo(v, NotResolving)
    /\ UNCHANGED <<queueVars, codePaused, codeLive>>

Exhausted(v) ==
    /\ resolver[v].at = "exhausted"
    /\ codeLive \cap Locked(v) = {}
    /\ codeLive' = {}
    /\ RotGo(v, NotResolving)
    /\ UNCHANGED <<queueVars, codePaused>>

-----------------------------------------------------------------------------
(* Changes: an admin, a claim submitted or rejected, midnight. *)
Unlocked(c) == \A v \in Resolvers : c \notin resolver[v].off

Changed == changes < MaxChanges /\ changes' = changes + 1 /\ UNCHANGED resolver

DisableQr(c) ==
    /\ Changed /\ Unlocked(c)
    /\ codeEnabled' = codeEnabled \ {c}
    /\ codeLive' = codeLive \ {c}
    /\ UNCHANGED <<codePriority, codePaused, codeFull>>

EnableQr(c) ==
    /\ Changed /\ Unlocked(c)
    /\ codeEnabled' = codeEnabled \cup {c}
    /\ UNCHANGED <<codePriority, codePaused, codeFull, codeLive>>

SetPriority(c) ==
    /\ Changed /\ Unlocked(c)
    /\ \E p \in Priorities : codePriority' = [codePriority EXCEPT ![c] = p]
    /\ UNCHANGED <<codeEnabled, codePaused, codeFull, codeLive>>

(* Enabled, not paused, and below every enabled code's priority. *)
Lowest ==
    IF codeEnabled = {} THEN {DefaultPriority}
    ELSE {codePriority[d] : d \in {e \in codeEnabled : \A c \in codeEnabled : codePriority[e] <= codePriority[c]}}

MakeLiveNow(c) ==
    /\ Changed /\ Unlocked(c)
    /\ codeEnabled' = codeEnabled \cup {c}
    /\ codePaused' = [codePaused EXCEPT ![c] = "no"]
    /\ \E p \in Lowest : codePriority' = [codePriority EXCEPT ![c] = p - 1]
    /\ UNCHANGED <<codeFull, codeLive>>

Collect(c) ==
    /\ Changed
    /\ \E full \in {codeFull \cup {c}, codeFull \ {c}} : codeFull' = full
    /\ UNCHANGED <<codePriority, codeEnabled, codePaused, codeLive>>

Midnight ==
    /\ Changed
    /\ codeFull' = {}
    /\ codePaused' = [c \in Codes |-> IF codePaused[c] = "today" THEN "earlier" ELSE codePaused[c]]
    /\ UNCHANGED <<codePriority, codeEnabled, codeLive>>

-----------------------------------------------------------------------------
ResolveStep(v) ==
    \/ ListCandidates(v) \/ Walk(v) \/ Pause(v)
    \/ DeactivateOthers(v) \/ ActivateWinner(v) \/ DeadlockVictim(v) \/ Exhausted(v)

RotNext ==
    \/ \E v \in Resolvers : ResetPauses(v) \/ ResolveStep(v)
    \/ \E c \in Codes : DisableQr(c) \/ EnableQr(c) \/ SetPriority(c) \/ MakeLiveNow(c) \/ Collect(c)
    \/ Midnight

RotSpec == RotInit /\ [][RotNext]_rotVars

(* Pages poll as long as retailers collect, and a call that began goes on. *)
RotFair == \A v \in Resolvers : WF_rotVars(ResetPauses(v) \/ ResolveStep(v))

-----------------------------------------------------------------------------
(* Properties. *)

(* Type invariant. *)
RotTypeOK ==
    /\ codePriority \in [Codes -> Int]
    /\ codeEnabled \subseteq Codes /\ codeFull \subseteq Codes /\ codeLive \subseteq Codes
    /\ codePaused \in [Codes -> {"no", "today", "earlier"}]
    /\ resolver \in [Resolvers ->
         [at : {"idle", "list", "walk", "pause", "deactivate", "activate", "exhausted"},
          todo : SUBSET [code : Codes, priority : Int], off : SUBSET Codes]]
    /\ changes \in 0..MaxChanges

(* The code retailers should collect on. *)
Best == {x.code : x \in First({y \in Candidates : y.code \notin codeFull})}

(* "Make it the sole live QR (race-safe)": two resolutions may leave two   *)
(* codes live, or one that was just disabled; once the queue stops         *)
(* changing the polls that follow leave exactly the first with headroom.   *)
QrRotationSettles == <>[](codeLive = Best)
=============================================================================
