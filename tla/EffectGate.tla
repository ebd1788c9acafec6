----------------------------- MODULE EffectGate -----------------------------
(***************************************************************************)
(* DemoMutationGate of demo/runtime/enforcement-gate.mjs: the one entry    *)
(* through which an approved effect reaches a provider.                    *)
(*                                                                         *)
(* The gate is one Node process.  A request runs synchronously between its *)
(* awaits, so a step is the code from one await to the next; requests      *)
(* interleave at awaits, every await is raced against the operation        *)
(* deadline, and the process may crash between two steps.  The store is a  *)
(* file replaced by rename: `disk' is what a restart reads.                *)
(*                                                                         *)
(* A grant is a signed authority (owner lease, agent authority, installer  *)
(* approval) that validates: it fixes the replay key, the action digest    *)
(* and the authority kind of every request that presents it.               *)
(***************************************************************************)
EXTENDS Integers, FiniteSets

CONSTANTS
    Req,            \* calls of execute, each made at most once
    Grant,          \* validly signed authorities
    Key,            \* operation (replay) keys
    GrantOf,        \* the grant a request presents
    KeyOf,          \* the key, and the kind of authority, of a grant
    KindOf,
    Owned,          \* is the store on an owned synthetic path?
    MaxAttempts,    \* maxReconcileAttempts
    MaxCrashes,     \* bound: process crashes
    MaxFaults,      \* bound: storage operations that throw
    MaxChanges,     \* bound: controls recorded and authorities closed
    NoGrant

ASSUME GrantsAssumption ==
    /\ GrantOf \in [Req -> Grant]
    /\ KeyOf \in [Grant -> Key]
    /\ KindOf \in [Grant -> {"owner", "agent", "installer"}]
    /\ NoGrant \notin Grant

ASSUME BoundsAssumption ==
    /\ Owned \in BOOLEAN
    /\ MaxAttempts \in Nat \ {0}
    /\ MaxCrashes \in Nat
    /\ MaxFaults \in Nat
    /\ MaxChanges \in Nat

VARIABLES
    up,             \* is the process running?
    reservations,   \* this.state: reservation, receipt per key, used leases
    effects,
    consumed,
    disk,           \* the store file
    pc,             \* the await a request stands at, or its answer
    existed,        \* per request: was `existing' defined when it was read?
    seen,           \* per request: the authoritative snapshot it was served
    wire,           \* per request: its POST at the provider
    asked,          \* requests that called provider.reconcile
    attempts,       \* the recovery attempt ledger of the owned journal
    forgotten,      \* requests whose attempt it counts no more
    stopped,        \* keys under a durable STOP, under a durable REVOKE
    revoked,
    closed,         \* grants outside their window or of a superseded policy
    crashes,
    faults

store == <<reservations, effects, consumed>>
control == <<stopped, revoked, closed>>
vars == <<up, store, disk, pc, existed, seen, wire, asked, attempts, forgotten,
          control, crashes, faults>>

Key_(r) == KeyOf[GrantOf[r]]
Kind(r) == KindOf[GrantOf[r]]

None == [status |-> "NONE", recovery |-> "NONE", grant |-> NoGrant]
Reservation == [status : {"NONE", "EXECUTING", "APPLIED", "AMBIGUOUS"},
                recovery : {"NONE", "RECONCILE"},
                grant : Grant \cup {NoGrant}]
Receipt == {"none", "fresh", "reconciled"}
Store == [reservations : [Key -> Reservation], effects : [Key -> Receipt],
          consumed : SUBSET Grant]

Driving == {"post", "mutate", "readback"}
Reconciling == {"reconcile", "corroborate"}
Waiting == {"snapshot", "mutate", "readback"} \cup Reconciling
Answered == {"PASS", "DENIED", "PENDING", "FAILED", "LOST"}

Taken(grant) == [status |-> "EXECUTING", recovery |-> "NONE", grant |-> grant]

\* Slip: an operation that failed is given free for another authority.
UnsureFreed(row) ==
    [row EXCEPT !.status = "AMBIGUOUS", !.recovery = "RECONCILE", !.grant = NoGrant]

Unsure(row) == [row EXCEPT !.status = "AMBIGUOUS", !.recovery = "RECONCILE"]

AppliedFresh(row) == [row EXCEPT !.status = "APPLIED"]

\* Slip: the recovery mark is left in place.
AppliedStillRecovering(row) == [row EXCEPT !.status = "APPLIED"]

AppliedReconciled(row) == [row EXCEPT !.status = "APPLIED", !.recovery = "NONE"]

-----------------------------------------------------------------------------
(* persist() replaces the file by rename.  It may throw before the rename; *)
(* on an owned path it may also throw after it, at the directory fsync.    *)

Throws == {"before"} \cup (IF Owned THEN {"after"} ELSE {})

\* The state a persist of this step writes.
Written == [reservations |-> reservations', effects |-> effects', consumed |-> consumed']

PersistOk == disk' = Written /\ UNCHANGED faults

\* The persist of `bytes' throws; "after" leaves the bytes on disk.
PersistThrows(bytes, how) ==
    /\ how \in Throws
    /\ faults < MaxFaults
    /\ faults' = faults + 1
    /\ disk' = IF how = "after" THEN bytes ELSE disk

Answer(r, result) == pc' = [pc EXCEPT ![r] = result]
Moves(r, place) == pc' = [pc EXCEPT ![r] = place]

Idle == <<store, disk, faults>>

-----------------------------------------------------------------------------
Init ==
    /\ up = TRUE
    /\ reservations = [k \in Key |-> None]
    /\ effects = [k \in Key |-> "none"]
    /\ consumed = {}
    /\ disk = [reservations |-> reservations, effects |-> effects, consumed |-> consumed]
    /\ pc = [r \in Req |-> "idle"]
    /\ existed = [r \in Req |-> FALSE]
    /\ seen = [r \in Req |-> "none"]
    /\ wire = [r \in Req |-> "none"]
    /\ asked = {}
    /\ attempts = [k \in Key |-> 0]
    /\ forgotten = {}
    /\ stopped = {}
    /\ revoked = {}
    /\ closed = {}
    /\ crashes = 0
    /\ faults = 0

-----------------------------------------------------------------------------
(* Entering execute: the checks up to the first await *)

Ambiguous(k) == reservations[k].status = "AMBIGUOUS"

\* Authority and, for the agent, the policy generation; an approval binds neither.
AuthorityHolds(r) == Kind(r) = "installer" \/ GrantOf[r] \notin closed

\* Another authority, or another action, already holds the key.
Conflict(r) == reservations[Key_(r)].grant \notin {NoGrant, GrantOf[r]}

ReconcileEligible(r) == Owned /\ Kind(r) = "owner" /\ Ambiguous(Key_(r))

\* Slip: the recovery path is let through before REVOKE is looked at.
ControlAllowsRecovery(r) ==
    Owned => \/ ReconcileEligible(r)
             \/ Key_(r) \notin revoked /\ Key_(r) \notin stopped

\* assertEffectControl: REVOKE always denies, STOP denies new effects.
ControlAllows(r) ==
    Owned => /\ Key_(r) \notin revoked
             /\ ReconcileEligible(r) \/ Key_(r) \notin stopped

LeaseUnused(r) ==
    Kind(r) = "owner" => GrantOf[r] \notin consumed \/ Ambiguous(Key_(r))

Cleared(r) ==
    /\ AuthorityHolds(r)
    /\ ~Conflict(r)
    /\ ControlAllows(r)
    /\ LeaseUnused(r)

EnterDenied(r) ==
    /\ up
    /\ pc[r] = "idle"
    /\ ~Cleared(r)
    /\ Answer(r, "DENIED")
    /\ UNCHANGED <<up, Idle, existed, seen, wire, asked, attempts, forgotten, control, crashes>>

\* An owner lease waits for the authoritative snapshot first.
EnterOwner(r) ==
    /\ up
    /\ pc[r] = "idle"
    /\ Kind(r) = "owner"
    /\ Cleared(r)
    /\ existed' = [existed EXCEPT ![r] = reservations[Key_(r)].status # "NONE"]
    /\ Moves(r, "snapshot")
    /\ UNCHANGED <<up, Idle, seen, wire, asked, attempts, forgotten, control, crashes>>

\* The receipt of an earlier execution is returned again.
EnterReplay(r) ==
    /\ up
    /\ pc[r] = "idle"
    /\ Kind(r) # "owner"
    /\ Cleared(r)
    /\ effects[Key_(r)] # "none"
    /\ Answer(r, "PASS")
    /\ UNCHANGED <<up, Idle, existed, seen, wire, asked, attempts, forgotten, control, crashes>>

-----------------------------------------------------------------------------
(* The snapshot.  Every lease was issued against the target as it was       *)
(* before any POST of an owner's operation landed.                          *)

TargetClean == \A q \in Req : Kind(q) = "owner" => wire[q] # "landed"

SnapshotServed(r) ==
    /\ up
    /\ pc[r] = "snapshot"
    /\ seen[r] = "none"
    /\ seen' = [seen EXCEPT ![r] = IF TargetClean THEN "clean" ELSE "dirty"]
    /\ UNCHANGED <<up, Idle, pc, existed, wire, asked, attempts, forgotten, control, crashes>>

\* `existing' is a live object: its status is read again after the await.
StillAmbiguous(r) == existed[r] /\ Ambiguous(Key_(r))

\* Slip: the authority is not validated again after the snapshot's await.
SnapshotHoldsUnchecked(r) ==
    (Owned /\ StillAmbiguous(r)) \/ seen[r] = "clean"

SnapshotHolds(r) ==
    /\ (Owned /\ StillAmbiguous(r)) \/ seen[r] = "clean"
    /\ AuthorityHolds(r)

SnapshotDenied(r) ==
    /\ up
    /\ pc[r] = "snapshot"
    /\ seen[r] # "none"
    /\ ~SnapshotHolds(r)
    /\ Answer(r, "DENIED")
    /\ UNCHANGED <<up, Idle, existed, seen, wire, asked, attempts, forgotten, control, crashes>>

-----------------------------------------------------------------------------
(* Past the checks: an owner's request with a snapshot that holds, any     *)
(* other directly on entry.                                                *)

Ready(r) ==
    /\ up
    /\ \/ /\ Kind(r) = "owner"
          /\ pc[r] = "snapshot"
          /\ seen[r] # "none"
          /\ SnapshotHolds(r)
       \/ /\ Kind(r) # "owner"
          /\ pc[r] = "idle"
          /\ Cleared(r)
          /\ effects[Key_(r)] = "none"

\* Slip: an operation whose attempts are spent falls through to a new dispatch.
RecoversWithinBudget(r) ==
    /\ Ambiguous(Key_(r)) /\ (Kind(r) = "owner" => existed[r])
    /\ attempts[Key_(r)] < MaxAttempts

Recovers(r) ==
    Ambiguous(Key_(r)) /\ (Kind(r) = "owner" => existed[r])

\* reconcileOperation up to its first await: the attempt is durable before the
\* provider is read.
AskReconcile(r) ==
    /\ Ready(r)
    /\ Recovers(r)
    /\ Owned => attempts[Key_(r)] < MaxAttempts
    /\ attempts' = IF Owned THEN [attempts EXCEPT ![Key_(r)] = @ + 1] ELSE attempts
    /\ asked' = asked \cup {r}
    /\ Moves(r, "reconcile")
    /\ UNCHANGED <<up, Idle, existed, seen, wire, forgotten, control, crashes>>

\* No read: the budget of attempts is spent, or a full ledger would have to drop
\* a spent budget, of another operation, to begin this one's.
ReconcileRefused(r) ==
    /\ Ready(r)
    /\ Recovers(r)
    /\ Owned
    /\ attempts[Key_(r)] \notin 1 .. MaxAttempts - 1
    /\ Answer(r, "DENIED")
    /\ UNCHANGED <<up, Idle, existed, seen, wire, asked, attempts, forgotten, control, crashes>>

\* The attempt ledger cannot be written, or its write throws after the rename.
AttemptFails(r) ==
    /\ Ready(r)
    /\ Recovers(r)
    /\ Owned
    /\ attempts[Key_(r)] < MaxAttempts
    /\ attempts' \in {attempts, [attempts EXCEPT ![Key_(r)] = @ + 1]}
    /\ faults < MaxFaults
    /\ faults' = faults + 1
    /\ Answer(r, "FAILED")
    /\ UNCHANGED <<up, store, disk, existed, seen, wire, asked, forgotten, control, crashes>>

\* reserveOperation with no reservation of the key: reserve, persist, dispatch.
Reserve(r) ==
    /\ Ready(r)
    /\ reservations[Key_(r)].status = "NONE"
    /\ reservations' = [reservations EXCEPT ![Key_(r)] = Taken(GrantOf[r])]
    /\ consumed' = IF Kind(r) = "owner" THEN consumed \cup {GrantOf[r]} ELSE consumed
    /\ UNCHANGED effects

\* Slip: the reservation is written only with the receipt.
ReserveUnpersisted(r) ==
    /\ Reserve(r)
    /\ UNCHANGED <<disk, faults>>
    /\ Moves(r, "post")
    /\ UNCHANGED <<up, existed, seen, wire, asked, attempts, forgotten, control, crashes>>

ReserveFresh(r) ==
    /\ Reserve(r)
    /\ PersistOk
    /\ Moves(r, "post")
    /\ UNCHANGED <<up, existed, seen, wire, asked, attempts, forgotten, control, crashes>>

\* The reservation stays in memory, EXECUTING, when its persist throws.
ReserveFails(r) ==
    /\ Reserve(r)
    /\ \E how \in Throws : PersistThrows(Written, how)
    /\ Answer(r, "FAILED")
    /\ UNCHANGED <<up, existed, seen, wire, asked, attempts, forgotten, control, crashes>>

\* reserveOperation hands out a reservation of the same authority that became
\* AMBIGUOUS since `existing' was read.
ReserveShared(r) ==
    /\ Ready(r)
    /\ ~Conflict(r)
    /\ Ambiguous(Key_(r))
    /\ ~Recovers(r)
    /\ Moves(r, "post")
    /\ UNCHANGED <<up, Idle, existed, seen, wire, asked, attempts, forgotten, control, crashes>>

ReserveDenied(r) ==
    /\ Ready(r)
    /\ reservations[Key_(r)].status # "NONE"
    /\ Ambiguous(Key_(r)) => Conflict(r)
    /\ Answer(r, "DENIED")
    /\ UNCHANGED <<up, Idle, existed, seen, wire, asked, attempts, forgotten, control, crashes>>

-----------------------------------------------------------------------------
(* The provider *)

\* runBounded calls the provider in a microtask of its own.
Post(r) ==
    /\ up
    /\ pc[r] = "post"
    /\ wire' = [wire EXCEPT ![r] = "flight"]
    /\ Moves(r, "mutate")
    /\ UNCHANGED <<up, Idle, existed, seen, asked, attempts, forgotten, control, crashes>>

\* A POST on its way lands or is lost whatever became of the request.
Lands(r) ==
    /\ wire[r] = "flight"
    /\ \E end \in {"landed", "dropped"} : wire' = [wire EXCEPT ![r] = end]
    /\ UNCHANGED <<up, Idle, pc, existed, seen, asked, attempts, forgotten, control, crashes>>

MutateAnswers(r) ==
    /\ up
    /\ pc[r] = "mutate"
    /\ Moves(r, "readback")
    /\ UNCHANGED <<up, Idle, existed, seen, wire, asked, attempts, forgotten, control, crashes>>

KeyLanded(k) == \E q \in Req : Key_(q) = k /\ wire[q] = "landed"

ReconcileUnknown(r) ==
    /\ up
    /\ pc[r] = "reconcile"
    /\ Answer(r, "PENDING")
    /\ UNCHANGED <<up, Idle, existed, seen, wire, asked, attempts, forgotten, control, crashes>>

\* On an owned path the provider's claim is corroborated by a second read.
ReconcileClaims(r) ==
    /\ up
    /\ Owned
    /\ pc[r] = "reconcile"
    /\ Moves(r, "corroborate")
    /\ UNCHANGED <<up, Idle, existed, seen, wire, asked, attempts, forgotten, control, crashes>>

-----------------------------------------------------------------------------
(* The receipt: set it, mark the reservation APPLIED, persist; when that   *)
(* throws, take both back and rethrow.                                     *)

\* What the persist of the receipt writes.
With(k, receipt, row) ==
    [reservations |-> [reservations EXCEPT ![k] = row],
     effects |-> [effects EXCEPT ![k] = receipt],
     consumed |-> consumed]

\* Slip: PASS is answered and the write left for the next persist.
RecordsInMemory(r, receipt, row) ==
    /\ reservations' = [reservations EXCEPT ![Key_(r)] = row]
    /\ effects' = [effects EXCEPT ![Key_(r)] = receipt]
    /\ UNCHANGED <<consumed, disk, faults>>
    /\ Answer(r, "PASS")
    /\ UNCHANGED <<up, existed, seen, wire, asked, attempts, forgotten, control, crashes>>

Records(r, receipt, row) ==
    /\ reservations' = [reservations EXCEPT ![Key_(r)] = row]
    /\ effects' = [effects EXCEPT ![Key_(r)] = receipt]
    /\ UNCHANGED consumed
    /\ PersistOk
    /\ Answer(r, "PASS")
    /\ UNCHANGED <<up, existed, seen, wire, asked, attempts, forgotten, control, crashes>>

\* Slip: only the reservation is taken back, not the receipt.
TakesBackRow(k) ==
    /\ reservations' = [reservations EXCEPT ![k] = Unsure(@)]
    /\ effects' = [effects EXCEPT ![k] = "reconciled"]
    /\ UNCHANGED consumed

TakesBack(k) ==
    /\ reservations' = [reservations EXCEPT ![k] = Unsure(@)]
    /\ effects' = [effects EXCEPT ![k] = "none"]
    /\ UNCHANGED consumed

\* Slip: the provider's answer is taken for the effect, without a readback.
ReadbackAssumed(r) ==
    /\ up
    /\ pc[r] = "readback"

ReadbackConfirms(r) ==
    /\ up
    /\ pc[r] = "readback"
    /\ wire[r] = "landed"

Apply(r) ==
    /\ ReadbackConfirms(r)
    /\ Records(r, "fresh", AppliedFresh(reservations[Key_(r)]))

\* execute's catch runs markAmbiguous, which persists again: that may work, ...
ApplyFails(r) ==
    /\ ReadbackConfirms(r)
    /\ TakesBack(Key_(r))
    /\ faults < MaxFaults
    /\ faults' = faults + 1
    /\ disk' = Written
    /\ Answer(r, "FAILED")
    /\ UNCHANGED <<up, existed, seen, wire, asked, attempts, forgotten, control, crashes>>

\* ... or throw as well, before its rename or after it.
ApplyFailsTwice(r) ==
    /\ ReadbackConfirms(r)
    /\ TakesBack(Key_(r))
    /\ faults + 1 < MaxFaults
    /\ faults' = faults + 2
    /\ \E how, again \in Throws :
          disk' = IF again = "after" THEN Written
                  ELSE IF how = "after"
                  THEN With(Key_(r), "fresh", AppliedFresh(reservations[Key_(r)]))
                  ELSE disk
    /\ Answer(r, "FAILED")
    /\ UNCHANGED <<up, existed, seen, wire, asked, attempts, forgotten, control, crashes>>

\* A claim is corroborated on an owned path; elsewhere the provider is believed,
\* and the model's provider claims only what landed.
ReconcileConfirms(r) ==
    /\ up
    /\ pc[r] = IF Owned THEN "corroborate" ELSE "reconcile"
    /\ KeyLanded(Key_(r))

ApplyReconciled(r) ==
    /\ ReconcileConfirms(r)
    /\ Records(r, "reconciled", AppliedReconciled(reservations[Key_(r)]))

\* The reconciliation path does not mark or persist again.
ApplyReconciledFails(r) ==
    /\ ReconcileConfirms(r)
    /\ TakesBack(Key_(r))
    /\ \E how \in Throws :
          PersistThrows(With(Key_(r), "reconciled",
                             AppliedReconciled(reservations[Key_(r)])), how)
    /\ Answer(r, "FAILED")
    /\ UNCHANGED <<up, existed, seen, wire, asked, attempts, forgotten, control, crashes>>

-----------------------------------------------------------------------------
(* An awaited call fails, answers what the gate refuses, or the deadline   *)
(* passes first.                                                           *)

\* Slip: the corroborating read is awaited without the deadline.
AwaitFailsUncorroborated(r) ==
    /\ up
    /\ pc[r] \in {"snapshot", "reconcile"}
    /\ Answer(r, "FAILED")
    /\ UNCHANGED <<up, Idle, existed, seen, wire, asked, attempts, forgotten, control, crashes>>

AwaitFails(r) ==
    /\ up
    /\ pc[r] \in {"snapshot"} \cup Reconciling
    /\ Answer(r, "FAILED")
    /\ UNCHANGED <<up, Idle, existed, seen, wire, asked, attempts, forgotten, control, crashes>>

\* After the reservation, execute's catch marks it AMBIGUOUS unless a receipt
\* exists.
EffectFails(r) ==
    /\ up
    /\ pc[r] \in {"mutate", "readback"}
    /\ effects[Key_(r)] = "none"
    /\ reservations' = [reservations EXCEPT ![Key_(r)] = Unsure(@)]
    /\ UNCHANGED <<effects, consumed>>
    /\ \/ PersistOk
       \/ \E how \in Throws : PersistThrows(Written, how)
    /\ Answer(r, "FAILED")
    /\ UNCHANGED <<up, existed, seen, wire, asked, attempts, forgotten, control, crashes>>

EffectFailsApplied(r) ==
    /\ up
    /\ pc[r] \in {"mutate", "readback"}
    /\ effects[Key_(r)] # "none"
    /\ Answer(r, "FAILED")
    /\ UNCHANGED <<up, Idle, existed, seen, wire, asked, attempts, forgotten, control, crashes>>

-----------------------------------------------------------------------------
(* Outside the requests *)

MayChange ==
    Cardinality(stopped) + Cardinality(revoked) + Cardinality(closed) < MaxChanges

\* A STOP or REVOKE is recorded in the owned journal.
Stop(k) ==
    /\ Owned
    /\ MayChange
    /\ k \notin stopped
    /\ stopped' = stopped \cup {k}
    /\ UNCHANGED <<up, Idle, pc, existed, seen, wire, asked, attempts, forgotten,
                   revoked, closed, crashes>>

Revoke(k) ==
    /\ Owned
    /\ MayChange
    /\ k \notin revoked
    /\ revoked' = revoked \cup {k}
    /\ UNCHANGED <<up, Idle, pc, existed, seen, wire, asked, attempts, forgotten,
                   stopped, closed, crashes>>

\* The window of a grant ends, or its policy generation is superseded.
Close(g) ==
    /\ MayChange
    /\ g \notin closed
    /\ closed' = closed \cup {g}
    /\ UNCHANGED <<up, Idle, pc, existed, seen, wire, asked, attempts, forgotten,
                   stopped, revoked, crashes>>

\* Slip: attempts are counted in memory.
CrashForgetsAttempts ==
    /\ up
    /\ crashes < MaxCrashes
    /\ crashes' = crashes + 1
    /\ up' = FALSE
    /\ reservations' = [k \in Key |-> None]
    /\ effects' = [k \in Key |-> "none"]
    /\ consumed' = {}
    /\ attempts' = [k \in Key |-> 0]
    /\ pc' = [r \in Req |-> IF pc[r] \in Waiting \cup {"post"} THEN "LOST" ELSE pc[r]]
    /\ UNCHANGED <<disk, existed, seen, wire, asked, forgotten, control, faults>>

Crash ==
    /\ up
    /\ crashes < MaxCrashes
    /\ crashes' = crashes + 1
    /\ up' = FALSE
    /\ reservations' = [k \in Key |-> None]
    /\ effects' = [k \in Key |-> "none"]
    /\ consumed' = {}
    /\ pc' = [r \in Req |-> IF pc[r] \in Waiting \cup {"post"} THEN "LOST" ELSE pc[r]]
    /\ UNCHANGED <<disk, existed, seen, wire, asked, attempts, forgotten, control, faults>>

\* What normalizeEffectStore requires of a row it loads.
RowLoads(s, k) ==
    LET row == s.reservations[k]
        leased == row.grant \in Grant /\ KindOf[row.grant] = "owner"
    IN  row.status # "NONE" =>
          /\ (row.recovery = "RECONCILE") <=> (row.status = "AMBIGUOUS")
          /\ (row.status = "APPLIED") <=> (s.effects[k] # "none")
          /\ leased => row.grant \in s.consumed

\* Slip: what was executing stays so over a restart.
RecoveredAsIs(row) == row

Recovered(row) == IF row.status = "EXECUTING" THEN Unsure(row) ELSE row

\* The constructor: an operation that was executing is ambiguous now.  A store
\* that does not load refuses the start.
Restart ==
    /\ ~up
    /\ \A k \in Key : RowLoads(disk, k)
    /\ up' = TRUE
    /\ reservations' = [k \in Key |-> Recovered(disk.reservations[k])]
    /\ effects' = disk.effects
    /\ consumed' = disk.consumed
    /\ PersistOk
    /\ UNCHANGED <<pc, existed, seen, wire, asked, attempts, forgotten, control, crashes>>

\* Recoveries of other operations fill the ledger, and the oldest counter below
\* the maximum goes: the next recovery of its operation begins a new budget.
Evict(k) ==
    /\ up
    /\ Owned
    /\ attempts[k] \in 1 .. MaxAttempts - 1
    /\ attempts' = [attempts EXCEPT ![k] = 0]
    /\ forgotten' = forgotten \cup {r \in asked : Key_(r) = k}
    /\ UNCHANGED <<up, Idle, pc, existed, seen, wire, asked, control, crashes>>

-----------------------------------------------------------------------------
Execute(r) ==
    \/ EnterDenied(r) \/ EnterOwner(r) \/ EnterReplay(r)
    \/ SnapshotServed(r) \/ SnapshotDenied(r)
    \/ AskReconcile(r) \/ ReconcileRefused(r) \/ AttemptFails(r)
    \/ ReserveFresh(r) \/ ReserveFails(r) \/ ReserveShared(r) \/ ReserveDenied(r)
    \/ Post(r) \/ MutateAnswers(r) \/ Apply(r) \/ ApplyFails(r) \/ ApplyFailsTwice(r)
    \/ ReconcileUnknown(r) \/ ReconcileClaims(r)
    \/ ApplyReconciled(r) \/ ApplyReconciledFails(r)
    \/ AwaitFails(r) \/ EffectFails(r) \/ EffectFailsApplied(r)

Next ==
    \/ \E r \in Req : Execute(r) \/ Lands(r)
    \/ \E k \in Key : Stop(k) \/ Revoke(k) \/ Evict(k)
    \/ \E g \in Grant : Close(g)
    \/ Crash
    \/ Restart

Spec == Init /\ [][Next]_vars

\* Every await is raced against the deadline, whose timer fires, and the event
\* loop runs what is ready; clients submit their requests.
FairSpec == Spec /\ \A r \in Req : WF_vars(Execute(r))

-----------------------------------------------------------------------------
(* Properties *)

\* State and store are well formed.
TypeOK ==
    /\ up \in BOOLEAN
    /\ reservations \in [Key -> Reservation]
    /\ effects \in [Key -> Receipt]
    /\ consumed \in SUBSET Grant
    /\ disk \in Store
    /\ pc \in [Req -> {"idle", "post"} \cup Waiting \cup Answered]
    /\ existed \in [Req -> BOOLEAN]
    /\ seen \in [Req -> {"none", "clean", "dirty"}]
    /\ wire \in [Req -> {"none", "flight", "landed", "dropped"}]
    /\ asked \in SUBSET Req
    /\ attempts \in [Key -> 0 .. MaxAttempts]
    /\ forgotten \in SUBSET asked
    /\ stopped \in SUBSET Key
    /\ revoked \in SUBSET Key
    /\ closed \in SUBSET Grant
    /\ crashes \in 0 .. MaxCrashes
    /\ faults \in 0 .. MaxFaults

Posted(r) == wire[r] # "none"

\* A POST leaves only after a reservation of its key by its own grant is on
\* disk, with the lease marked used, and no crash, restart or storage failure
\* takes that record away.
PostIsReserved ==
    \A r \in Req : Posted(r) =>
        /\ disk.reservations[Key_(r)].grant = GrantOf[r]
        /\ Kind(r) = "owner" => GrantOf[r] \in disk.consumed

\* A second request POSTs an operation only when both present the same owner
\* lease and neither found a reservation when it entered; everything else -
\* retries, retries after a restart, another authority for the key - never
\* sends a second POST.
OnePostPerKey ==
    \A q, r \in Req :
        q # r /\ Key_(q) = Key_(r) /\ Posted(q) /\ Posted(r) =>
            /\ GrantOf[q] = GrantOf[r]
            /\ Kind(r) = "owner"
            /\ ~existed[q] /\ ~existed[r]

\* A receipt, on disk or in memory, exists only for an effect the provider has.
ReceiptMeansEffect ==
    \A k \in Key : disk.effects[k] # "none" \/ effects[k] # "none" => KeyLanded(k)

\* No receipt is held in memory that the disk does not have.
NoUndurableReceipt ==
    \A k \in Key : effects[k] # "none" => disk.effects[k] # "none"

\* Two requests hold, or held, the reservation of a key.
Shared(k) ==
    \E q, r \in Req : /\ q # r /\ Key_(q) = k /\ Key_(r) = k
                      /\ Posted(q) \/ pc[q] = "post"
                      /\ Posted(r) \/ pc[r] = "post"

\* What is written is always accepted by the next start, storage failures
\* included, unless two requests came to share a reservation.
StoreLoads == \A k \in Key : Shared(k) \/ RowLoads(disk, k)

\* The receipt of a key is kept: on disk, and in memory while there is one.
ReceiptStands(k) == disk.effects[k] # "none" /\ (up => effects[k] # "none")

\* The request confirms the effect and cannot write its receipt.
FailsToRecord(r) == ApplyFails(r) \/ ApplyFailsTwice(r) \/ ApplyReconciledFails(r)

\* A request answered PASS has its receipt kept, from that step on through every
\* other one, crashes and restarts included, but the one in which a second
\* request of the key confirms the effect and fails to write its own receipt.
PassIsDurable ==
    [][\A r \in Req : pc'[r] = "PASS" /\ (pc[r] = "PASS" => ReceiptStands(Key_(r))) =>
          \/ ReceiptStands(Key_(r))'
          \/ \E q \in Req \ {r} : Key_(q) = Key_(r) /\ FailsToRecord(q)]_vars

\* While nothing fails to be written, an EXECUTING reservation in memory belongs
\* to a request that is still executing it: none is stuck.
ExecutingIsDriven ==
    \A k \in Key : reservations[k].status = "EXECUTING" =>
        \E r \in Req : Key_(r) = k /\ pc[r] \in Driving

\* Provider reconciliation reads of a key, restarts included, stay inside the
\* attempt budget for as long as the ledger keeps its counter.  Only an unspent
\* budget is ever dropped and begun again.
ReadsBounded ==
    Owned => \A k \in Key :
                Cardinality({r \in asked \ forgotten : Key_(r) = k}) <= MaxAttempts

\* A request goes on to its POST only with an authority that still holds, after
\* the snapshot's await too.
PostUnderAuthority ==
    [][\A r \in Req : pc[r] # "post" /\ pc'[r] = "post" => AuthorityHolds(r)]_vars

\* A request that enters after its key was revoked never POSTs nor reconciles.
RevokedNeverActs ==
    \A r \in Req : [](pc[r] = "idle" /\ Key_(r) \in revoked =>
                       [](wire[r] = "none" /\ r \notin asked))

\* A request that entered is answered or lost with the process.
CallsEnd == \A r \in Req : pc[r] # "idle" ~> pc[r] \in Answered

\* The gate without its memory: what the disk reserves, who may POST or did,
\* and which receipts stand.  An approval's authority never ends.
Ended == {g \in closed : KindOf[g] # "installer"}
Reserved == [k \in Key |-> disk.reservations[k].grant]
LetThrough == {r \in Req : pc[r] = "post"}
Receipted == {k \in Key : disk.effects[k] # "none"}
Told == {r \in Req : pc[r] = "PASS"}

Dispatch == INSTANCE ReservedDispatch WITH
    Lease <- {g \in Grant : KindOf[g] = "owner"},
    ended <- Ended, custody <- Reserved, cleared <- LetThrough, post <- wire,
    receipts <- Receipted, told <- Told

\* Through concurrent requests, deadlines, reconciliations, failing writes and
\* crashes, all that reaches disk and provider is ReservedDispatch.
KeepsDispatch == Dispatch!Spec

(* The inductive invariant *)

Holds(r) == Posted(r) \/ pc[r] \in Driving

\* A row names a grant exactly when it is taken.
Rows(rows) == \A k \in Key : rows[k].status = "NONE" <=> rows[k].grant = NoGrant

\* The lease of a reservation is marked used with it.
Leased(rows, used) ==
    \A k \in Key : rows[k].grant \in Grant /\ KindOf[rows[k].grant] = "owner"
                      => rows[k].grant \in used

\* Memory never forgets what the disk holds, and holds more than it only as
\* EXECUTING.
Follows ==
    up => \A k \in Key :
            /\ disk.reservations[k].status # "NONE" =>
                 reservations[k].grant = disk.reservations[k].grant
            /\ reservations[k].status \in {"APPLIED", "AMBIGUOUS"} =>
                 disk.reservations[k].status # "NONE"

Custody ==
    \A r \in Req :
        /\ Holds(r) => disk.reservations[Key_(r)].grant = GrantOf[r] /\ ~existed[r]
        /\ pc[r] \in Reconciling => disk.reservations[Key_(r)].status # "NONE"
        /\ pc[r] = "snapshot" /\ existed[r] => reservations[Key_(r)].status # "NONE"

OneHolder ==
    \A q, r \in Req : q # r /\ Key_(q) = Key_(r) /\ Holds(q) /\ Holds(r) => Kind(r) = "owner"

Phases ==
    \A r \in Req :
        /\ pc[r] = "idle" => ~existed[r]
        /\ pc[r] \in {"idle", "snapshot", "post"} => wire[r] = "none"
        /\ pc[r] \in Waiting \cup {"post"} => up

IInv ==
    /\ TypeOK
    /\ Rows(reservations) /\ Rows(disk.reservations)
    /\ Leased(reservations, consumed) /\ Leased(disk.reservations, disk.consumed)
    /\ Follows
    /\ Custody
    /\ OneHolder
    /\ Phases
    /\ NoUndurableReceipt
    /\ ReceiptMeansEffect

(* What the repository's documents say, and the code does not do *)

\* "concurrent pair yields one provider call"
OneProviderCall == \A q, r \in Req : q # r /\ Key_(q) = Key_(r) => ~(Posted(q) /\ Posted(r))
=============================================================================
