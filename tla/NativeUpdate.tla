---------------------------- MODULE NativeUpdate -----------------------------
(***************************************************************************)
(* The native update executor: src/pan463/native-update-executor.mjs with  *)
(* the journal calls it makes on demo/runtime/enforcement-gate.mjs and     *)
(* demo/runtime/local-journal-owner.mjs.                                   *)
(*                                                                         *)
(* Any number of processes run one admitted plan against one database,     *)
(* each time with an executor configured with one of the roots.  A step    *)
(* below is what a process does between two awaits; a process may be       *)
(* killed, its database session dropped, or a write to its journal fail    *)
(* at any of them.  The controller withdraws and reissues the grant, an    *)
(* operator stops or revokes the operation and the fence of the target     *)
(* moves, at any time.                                                     *)
(***************************************************************************)
EXTENDS Naturals

CONSTANTS
    Exec,       \* executor processes
    Root,       \* journal roots
    Nobody,     \* no owner
    Gone,       \* an owner that was killed
    Torn,       \* an owner that was killed before it wrote who it is
    Fence,      \* the fence of each grant the controller issues, in order
    MaxGrant,   \* bound: grants issued
    MaxEvents   \* bound: events, and events of controller, operator and target

ASSUME ExecAssumption ==
    /\ Exec \cap {Nobody, Gone, Torn} = {}
    /\ Nobody # Gone /\ Nobody # Torn /\ Gone # Torn
    /\ Nobody \notin Root
ASSUME GrantAssumption ==
    /\ MaxGrant \in Nat \ {0} /\ MaxEvents \in Nat
    /\ Fence \in [1 .. MaxGrant -> Nat]

VARIABLES
    migrations,     \* pan463_native_state: migration_count, 1 once APPLIED
    fence,          \* pan463_native_state: fence
    session,        \* who holds the advisory lock; Gone: a backend left behind
    marker,         \* operation.lock of each root
    disk,           \* effects.json of each root: the plan's one operation
    control,        \* the control each root's ledger holds for it
    grant, live,    \* the current grant, and that it is neither revoked nor expired
    pc,             \* where each executor is
    home,           \* the journal root it was created for; Nobody: no call
    held,           \* grantBinding: the grant its call began with; 0: none
    journal,        \* its gate's copy of the record
    seen,           \* what it observed: the target is APPLIED, at its fence
    dispatches,     \* history: transactions each root began
    passed,         \* history: the roots whose caller was told PASS
    events

database == <<migrations, fence, session>>
files == <<marker, disk, control>>
controller == <<grant, live>>
process == <<pc, home, held, journal, seen>>
history == <<dispatches, passed>>
vars == <<database, files, controller, process, history, events>>

\* The reservation and, with it, the effect recorded under the same key.
Status == {"NONE", "EXECUTING", "AMBIGUOUS", "APPLIED"}
Record == [status : Status, binding : 0 .. MaxGrant, receipt : BOOLEAN]
NoRecord == [status |-> "NONE", binding |-> 0, receipt |-> FALSE]

Init ==
    /\ migrations = 0 /\ fence = Fence[1] /\ session = Nobody
    /\ marker = [r \in Root |-> Nobody]
    /\ disk = [r \in Root |-> NoRecord]
    /\ control = [r \in Root |-> "NONE"]
    /\ grant = 1 /\ live = TRUE
    /\ pc = [e \in Exec |-> "idle"]
    /\ home = [e \in Exec |-> Nobody]
    /\ held = [e \in Exec |-> 0]
    /\ journal = [e \in Exec |-> NoRecord]
    /\ seen = [e \in Exec |-> FALSE]
    /\ dispatches = [r \in Root |-> 0]
    /\ passed = {}
    /\ events = 0

At(e, label) == pc[e] = label
Goto(e, label) == pc' = [pc EXCEPT ![e] = label]

Applied == migrations = 1

\* checkAuthority: the grant is the one the call began with.
Authorised(e) == live /\ held[e] = grant

\* assertEffectControl: STOP spares a reconciliation, REVOKE denies that too.
Dispatchable(e) == control[home[e]] = "NONE"

\* Slip: a stop ends the reconciliation of what is already reserved, too.
ReconcilableUnstopped(e) == control[home[e]] = "NONE"

Reconcilable(e) == control[home[e]] # "REVOKE"

\* assertLocalJournalOwner: the marker is still this process's own.
Owns(e) == marker[home[e]] = e

\* The labels of a call that has made or found its reservation.
ReservedLabel == {"reserved", "opening", "inTransaction", "committing", "committed", "readback",
                  "observed", "resolving", "resolved", "failed"}

\* The labels of a call whose journal owner is still undefined.
UnownedLabel == {"connecting", "locked", "adopting", "creating", "marking"}

InTransaction(e) == pc[e] \in {"inTransaction", "committing"} /\ session = e

-----------------------------------------------------------------------------
(* A call begins *)

Start(e, r) ==
    /\ At(e, "idle")
    /\ live
    /\ home' = [home EXCEPT ![e] = r]
    /\ held' = [held EXCEPT ![e] = grant]
    /\ Goto(e, "connecting")
    /\ UNCHANGED <<database, files, controller, journal, seen, history, events>>

\* pg_try_advisory_lock
Connectable(e) == session = Nobody

Connect(e) ==
    /\ At(e, "connecting")
    /\ Connectable(e)
    /\ session' = e
    /\ Goto(e, "locked")
    /\ UNCHANGED <<migrations, fence, files, controller, home, held, journal, seen, history,
                   events>>

\* nativeOwner looks at the marker: absent, or of a process that is no more.  It
\* refuses one that names a living process, its own too, and one it cannot read.
InspectMarker(e) ==
    /\ At(e, "locked")
    /\ marker[home[e]] \in {Nobody, Gone}
    /\ Goto(e, IF marker[home[e]] = Nobody THEN "creating" ELSE "adopting")
    /\ UNCHANGED <<database, files, controller, home, held, journal, seen, history, events>>

\* It unlinks the path, whoever's marker is there by then.
Adopt(e) ==
    /\ At(e, "adopting")
    /\ marker[home[e]] # Nobody
    /\ marker' = [marker EXCEPT ![home[e]] = Nobody]
    /\ Goto(e, "creating")
    /\ UNCHANGED <<database, disk, control, controller, home, held, journal, seen, history, events>>

\* acquireLocalJournalOwner opens the marker, empty, ...
Create(e) ==
    /\ At(e, "creating")
    /\ marker[home[e]] = Nobody
    /\ marker' = [marker EXCEPT ![home[e]] = e]
    /\ Goto(e, "marking")
    /\ UNCHANGED <<database, disk, control, controller, home, held, journal, seen, history, events>>

\* ... and writes into it, whatever the path leads to by then.
Mark(e) ==
    /\ At(e, "marking")
    /\ Goto(e, "owning")
    /\ UNCHANGED <<database, files, controller, home, held, journal, seen, history, events>>

\* Slip: a reservation found EXECUTING is forgotten.
RestoredFresh(record) == IF record.status = "EXECUTING" THEN NoRecord ELSE record

\* The gate's constructor: whoever was executing is gone.
Restored(record) ==
    IF record.status = "EXECUTING" THEN [record EXCEPT !.status = "AMBIGUOUS"] ELSE record

Load(e) ==
    /\ At(e, "owning")
    /\ Owns(e)
    /\ journal' = [journal EXCEPT ![e] = Restored(disk[home[e]])]
    /\ disk' = [disk EXCEPT ![home[e]] = Restored(@)]
    /\ Goto(e, "loaded")
    /\ UNCHANGED <<database, marker, control, controller, home, held, seen, history, events>>

-----------------------------------------------------------------------------
(* reserveOperation *)

Admitted(e) ==
    /\ Authorised(e)
    /\ IF journal[e].status = "AMBIGUOUS" THEN Reconcilable(e) ELSE Dispatchable(e)

Fresh(e) == journal[e].status = "NONE"

Resumable(e) ==
    /\ journal[e].binding = held[e]
    /\ journal[e].status = "AMBIGUOUS" \/ (journal[e].status = "APPLIED" /\ journal[e].receipt)

Executing(e) == [status |-> "EXECUTING", binding |-> held[e], receipt |-> FALSE]

Reserve(e) ==
    /\ At(e, "loaded")
    /\ Admitted(e)
    /\ Fresh(e) /\ Owns(e)
    /\ journal' = [journal EXCEPT ![e] = Executing(e)]
    /\ disk' = [disk EXCEPT ![home[e]] = Executing(e)]
    /\ Goto(e, "reserved")
    /\ UNCHANGED <<database, marker, control, controller, home, held, seen, history, events>>

Resume(e) ==
    /\ At(e, "loaded")
    /\ Admitted(e)
    /\ Resumable(e)
    /\ Goto(e, "resolving")
    /\ UNCHANGED <<database, files, controller, home, held, journal, seen, history, events>>

-----------------------------------------------------------------------------
(* The effect: one serializable transaction, of DDL and the state row *)

\* Slip: the state of the target is not read inside the transaction.
MigratableUnread(e) == fence = Fence[held[e]]

Migratable(e) == migrations = 0 /\ fence = Fence[held[e]]

\* Grant and control are asked once more before the transaction is opened.
Proceed(e) ==
    /\ At(e, "reserved")
    /\ Authorised(e) /\ Dispatchable(e)
    /\ Goto(e, "opening")
    /\ UNCHANGED <<database, files, controller, home, held, journal, seen, history, events>>

\* BEGIN, the lock on the state row, what it shows, and the change.
Dispatch(e) ==
    /\ At(e, "opening")
    /\ session = e
    /\ Migratable(e)
    /\ dispatches' = [dispatches EXCEPT ![home[e]] = @ + 1]
    /\ Goto(e, "inTransaction")
    /\ UNCHANGED <<database, files, controller, home, held, journal, seen, passed, events>>

\* Slip: what was admitted before the transaction is not asked again in it.
CommittableStill(e) == session = e

\* Slip: only the operator's controls are asked again, not the grant.
CommittableUnauthorised(e) == session = e /\ Dispatchable(e)

Committable(e) == session = e /\ Authorised(e) /\ Dispatchable(e)

\* The last checks; COMMIT is on its way.
SendCommit(e) ==
    /\ At(e, "inTransaction")
    /\ Committable(e)
    /\ Goto(e, "committing")
    /\ UNCHANGED <<database, files, controller, home, held, journal, seen, history, events>>

Commit(e) ==
    /\ At(e, "committing")
    /\ session = e
    /\ migrations' = migrations + 1
    /\ Goto(e, "committed")
    /\ UNCHANGED <<fence, session, files, controller, home, held, journal, seen, history, events>>

\* A backend whose client is gone, or no longer waits, ends its COMMIT alone.
SettleBackend ==
    /\ session = Gone
    /\ session' = Nobody
    /\ migrations' \in {migrations, migrations + 1}
    /\ UNCHANGED <<fence, files, controller, process, history, events>>

-----------------------------------------------------------------------------
(* Readback and receipt *)

\* A read-only transaction; after a commit the grant is asked before it.
Observe(e) ==
    /\ \/ At(e, "committed") /\ Authorised(e)
       \/ At(e, "resolving")
    /\ session = e
    /\ seen' = [seen EXCEPT ![e] = (Applied /\ fence = Fence[held[e]])]
    /\ Goto(e, IF At(e, "committed") THEN "observed" ELSE "resolved")
    /\ UNCHANGED <<database, files, controller, home, held, journal, history, events>>

\* Slip: what the target shows is not looked at.
CompletableUnseen(e) == Authorised(e) /\ Reconcilable(e)

Completable(e) == seen[e] /\ Authorised(e) /\ Reconcilable(e)

Receipted(e) == [journal[e] EXCEPT !.status = "APPLIED", !.receipt = TRUE]

\* complete, and PASS, which a release that throws would still withhold.
Complete(e) ==
    /\ pc[e] \in {"observed", "resolved"}
    /\ Completable(e) /\ Owns(e)
    /\ journal' = [journal EXCEPT ![e] = Receipted(e)]
    /\ disk' = [disk EXCEPT ![home[e]] = Receipted(e)]
    /\ passed' = passed \cup {home[e]}
    /\ Goto(e, "releasing")
    /\ UNCHANGED <<database, marker, control, controller, home, held, seen, dispatches, events>>

\* A held reservation that is not APPLIED is answered HELD and kept.
AnswerHeld(e) ==
    /\ At(e, "resolved")
    /\ ~seen[e] /\ Authorised(e)
    /\ Goto(e, "releasing")
    /\ UNCHANGED <<database, files, controller, home, held, journal, seen, history, events>>

-----------------------------------------------------------------------------
(* A call ends *)

\* A check says no.
Refusal(e) ==
    \/ At(e, "connecting") /\ ~Connectable(e)
    \/ At(e, "locked") /\ marker[home[e]] \in Exec \cup {Torn}
    \/ At(e, "adopting") /\ marker[home[e]] # Gone
    \/ At(e, "creating") /\ marker[home[e]] # Nobody
    \/ At(e, "owning") /\ ~Owns(e)
    \/ At(e, "loaded") /\ ~(Admitted(e) /\ (Resumable(e) \/ (Fresh(e) /\ Owns(e))))
    \/ At(e, "reserved") /\ ~(Authorised(e) /\ Dispatchable(e))
    \/ At(e, "opening")    \* NOWAIT: the row may be locked by its other writer, too
    \/ At(e, "inTransaction") /\ ~Committable(e)
    \/ pc[e] \in {"committing", "resolving"} /\ session # e
    \/ At(e, "committed") /\ ~(Authorised(e) /\ session = e)
    \/ At(e, "observed") /\ ~(Completable(e) /\ Owns(e))
    \/ At(e, "resolved") /\ ~Authorised(e)
    \/ At(e, "resolved") /\ seen[e] /\ ~(Reconcilable(e) /\ Owns(e))

\* The error handler marks a reservation this call made or found, and releases
\* an owner it has.
OnError(e) ==
    IF pc[e] \in ReservedLabel THEN "failed"
    ELSE IF pc[e] \in UnownedLabel THEN "ending" ELSE "releasing"

Refuse(e) ==
    /\ Refusal(e)
    /\ Goto(e, OnError(e))
    /\ UNCHANGED <<database, files, controller, home, held, journal, seen, history, events>>

\* markAmbiguous leaves a record with its effect alone.
Ambiguous(e) ==
    IF journal[e].receipt THEN journal[e] ELSE [journal[e] EXCEPT !.status = "AMBIGUOUS"]

MarkAmbiguous(e) ==
    /\ At(e, "failed")
    /\ journal' = [journal EXCEPT ![e] = Ambiguous(e)]
    /\ disk' = IF Owns(e) /\ ~journal[e].receipt
               THEN [disk EXCEPT ![home[e]] = Ambiguous(e)] ELSE disk
    /\ Goto(e, "releasing")
    /\ UNCHANGED <<database, marker, control, controller, home, held, seen, history, events>>

\* owner.release refuses a marker that is not its own.
Release(e) ==
    /\ At(e, "releasing")
    /\ marker' = IF Owns(e) THEN [marker EXCEPT ![home[e]] = Nobody] ELSE marker
    /\ Goto(e, "ending")
    /\ UNCHANGED <<database, disk, control, controller, home, held, journal, seen, history, events>>

\* Nothing of a call outlives it in the process.
Forget(e) ==
    /\ Goto(e, "idle")
    /\ home' = [home EXCEPT ![e] = Nobody]
    /\ held' = [held EXCEPT ![e] = 0]
    /\ journal' = [journal EXCEPT ![e] = NoRecord]
    /\ seen' = [seen EXCEPT ![e] = FALSE]

\* client.end
End(e) ==
    /\ At(e, "ending")
    /\ session' = IF session = e THEN Nobody ELSE session
    /\ Forget(e)
    /\ UNCHANGED <<migrations, fence, files, controller, history, events>>

-----------------------------------------------------------------------------
(* Faults, and what else happens while calls run *)

Happens == events < MaxEvents /\ events' = events + 1

\* The session a client leaves: a COMMIT that was sent goes on without it.
Left(e) ==
    IF session # e THEN session
    ELSE IF At(e, "committing") THEN Gone ELSE Nobody

\* What the markers of a process are once it is dead.
Orphaned(e) ==
    [r \in Root |-> IF marker[r] # e THEN marker[r]
                    ELSE IF At(e, "marking") /\ home[e] = r THEN Torn ELSE Gone]

Kill(e) ==
    /\ pc[e] # "idle" \/ \E r \in Root : marker[r] = e
    /\ Happens
    /\ session' = Left(e)
    /\ marker' = Orphaned(e)
    /\ Forget(e)
    /\ UNCHANGED <<migrations, fence, disk, control, controller, history>>

\* The database ends the session, or the answer to a query does not come.
DropSession(e) ==
    /\ session = e
    /\ Happens
    /\ session' = Left(e)
    /\ UNCHANGED <<migrations, fence, files, controller, process, history>>

\* The marker cannot be written or synced: the path is unlinked, and there is no
\* owner to release.
FailCreate(e) ==
    /\ At(e, "marking")
    /\ Happens
    /\ marker' = [marker EXCEPT ![home[e]] = Nobody]
    /\ Goto(e, "ending")
    /\ UNCHANGED <<database, disk, control, controller, home, held, journal, seen, history>>

\* The release throws before its unlink: the marker goes on naming the process.
FailRelease(e) ==
    /\ At(e, "releasing")
    /\ Happens
    /\ Goto(e, "ending")
    /\ UNCHANGED <<database, files, controller, home, held, journal, seen, history>>

\* A persist throws, before or after its rename.
FailReserve(e) ==
    /\ At(e, "loaded")
    /\ Admitted(e)
    /\ Fresh(e) /\ Owns(e)
    /\ Happens
    /\ disk' \in {disk, [disk EXCEPT ![home[e]] = Executing(e)]}
    /\ Goto(e, "releasing")
    /\ UNCHANGED <<database, marker, control, controller, home, held, journal, seen, history>>

WithdrawnReceipt(e) == [journal[e] EXCEPT !.status = "AMBIGUOUS", !.receipt = FALSE]

FailComplete(e) ==
    /\ pc[e] \in {"observed", "resolved"}
    /\ Completable(e) /\ Owns(e)
    /\ Happens
    /\ disk' \in {disk, [disk EXCEPT ![home[e]] = Receipted(e)]}
    /\ journal' = [journal EXCEPT ![e] = WithdrawnReceipt(e)]
    /\ Goto(e, "failed")
    /\ UNCHANGED <<database, marker, control, controller, home, held, seen, history>>

FailMark(e) ==
    /\ At(e, "failed")
    /\ Happens
    /\ Goto(e, "releasing")
    /\ UNCHANGED <<database, files, controller, home, held, journal, seen, history>>

-----------------------------------------------------------------------------
(* Controller, operator and target *)

Withdraw ==
    /\ live
    /\ live' = FALSE
    /\ Happens
    /\ UNCHANGED <<database, files, grant, process, history>>

Reissue ==
    /\ grant < MaxGrant
    /\ grant' = grant + 1
    /\ live' = TRUE
    /\ Happens
    /\ UNCHANGED <<database, files, process, history>>

\* A STOP may be followed by a REVOKE; nothing ends a control.
RecordControl(r, kind) ==
    /\ control[r] = "NONE" \/ (control[r] = "STOP" /\ kind = "REVOKE")
    /\ control' = [control EXCEPT ![r] = kind]
    /\ Happens
    /\ UNCHANGED <<database, marker, disk, controller, process, history>>

\* The state row is locked while a transaction is open.
MoveFence ==
    /\ session # Gone
    /\ \A e \in Exec : ~InTransaction(e)
    /\ fence # Fence[MaxGrant]
    /\ fence' = Fence[MaxGrant]
    /\ Happens
    /\ UNCHANGED <<migrations, session, files, controller, process, history>>

-----------------------------------------------------------------------------
\* The steps a process takes once it is inside a call.
Continue(e) ==
    \/ Connect(e) \/ InspectMarker(e) \/ Adopt(e) \/ Create(e) \/ Mark(e) \/ Load(e)
    \/ Reserve(e) \/ Resume(e)
    \/ Proceed(e) \/ Dispatch(e) \/ SendCommit(e) \/ Commit(e)
    \/ Observe(e) \/ Complete(e) \/ AnswerHeld(e)
    \/ Refuse(e) \/ MarkAmbiguous(e) \/ Release(e) \/ End(e)

Fault(e) ==
    \/ Kill(e) \/ DropSession(e)
    \/ FailCreate(e) \/ FailReserve(e) \/ FailComplete(e) \/ FailMark(e) \/ FailRelease(e)

Next ==
    \/ \E e \in Exec : (\E r \in Root : Start(e, r)) \/ Continue(e) \/ Fault(e)
    \/ SettleBackend
    \/ Withdraw \/ Reissue \/ MoveFence
    \/ \E r \in Root, kind \in {"STOP", "REVOKE"} : RecordControl(r, kind)

\* A call inside a process runs on, a backend left behind ends, and the
\* controller asks for the update again.
Fairness ==
    /\ WF_vars(SettleBackend)
    /\ \A e \in Exec : WF_vars(Continue(e)) /\ WF_vars(\E r \in Root : Start(e, r))

Spec == Init /\ [][Next]_vars /\ Fairness

-----------------------------------------------------------------------------
Label == ReservedLabel \cup UnownedLabel \cup {"idle", "owning", "loaded", "releasing", "ending"}

TypeOK ==
    /\ migrations \in Nat /\ fence \in Nat
    /\ session \in Exec \cup {Nobody, Gone}
    /\ marker \in [Root -> Exec \cup {Nobody, Gone, Torn}]
    /\ disk \in [Root -> Record]
    /\ control \in [Root -> {"NONE", "STOP", "REVOKE"}]
    /\ grant \in 1 .. MaxGrant /\ live \in BOOLEAN
    /\ pc \in [Exec -> Label]
    /\ home \in [Exec -> Root \cup {Nobody}]
    /\ held \in [Exec -> 0 .. MaxGrant]
    /\ journal \in [Exec -> Record]
    /\ seen \in [Exec -> BOOLEAN]
    /\ \A e \in Exec : (pc[e] = "idle") <=> (home[e] = Nobody)
    /\ \A e \in Exec : (pc[e] = "idle") <=> (held[e] = 0)
    /\ dispatches \in [Root -> Nat]
    /\ passed \in SUBSET Root
    /\ events \in Nat

\* Whatever crashes, however many executors and roots there are, the column is
\* added once; and a held reservation never dispatches again, applied or not.
EffectOnce ==
    /\ migrations <= 1
    /\ \A r \in Root : dispatches[r] <= 1

\* A receipt says what the database holds, and a caller that was told PASS
\* can have it again: from the receipt, or by resolving the reservation.
ReceiptMeansEffect ==
    \A r \in Root :
        /\ disk[r].receipt => disk[r].status = "APPLIED" /\ Applied
        /\ r \in passed => Applied /\ (disk[r].receipt \/ disk[r].status = "AMBIGUOUS")

Committing(r) == \E e \in Exec : home[e] = r /\ pc[e] = "committing"

\* The root is under a control, and no COMMIT of it is on its way.
Quiet(r) == control[r] # "NONE" /\ ~Committing(r)

\* Once a root is stopped or revoked, only a COMMIT that was already sent
\* takes effect: none is sent any more.
ControlEndsCommits == [][\A r \in Root : Quiet(r) => Quiet(r)']_vars

\* The controller's view: the database session and the backend it may leave as
\* one COMMIT on its way, each root's record as the attempt it stands for.
Denied == {r \in Root : control[r] # "NONE"}
Begun == [r \in Root |-> disk[r].binding]
Sent == session = Gone \/ \E e \in Exec : session = e /\ At(e, "committing")

Migration == INSTANCE GuardedMigration WITH
    denied <- Denied, begun <- Begun, sent <- Sent, applied <- Applied, told <- passed

\* Whatever executors, roots, kills and lost answers there are, all the
\* controller sees is GuardedMigration.
KeepsGuard == Migration!Spec

\* A root whose update cannot be resolved by asking again: under a control, a
\* grant or a fence, or behind a marker that no call adopts.
Held(r) ==
    \/ control[r] = "REVOKE"
    \/ control[r] = "STOP" /\ disk[r].status = "NONE"
    \/ ~live
    \/ disk[r].status # "NONE" /\ disk[r].binding # grant
    \/ fence # Fence[grant]
    \/ marker[r] = Torn
    \/ marker[r] \in Exec /\ home[marker[r]] # r

AskedElsewhere(r) == \E e \in Exec : home[e] \notin {r, Nobody}

\* After an update took effect, every root that nothing holds gets its receipt, if
\* it is the one at which the controller goes on asking, whatever holds the others.
CommittedIsReceipted ==
    \A r \in Root : Applied ~> (disk[r].receipt \/ Held(r) \/ AskedElsewhere(r))

\* What the proofs add: a call that has its reservation works under the grant it
\* is bound to, the record on disk stays bound to it, and the target keeps its
\* fence while a transaction is open.
BindingKept ==
    /\ \A e \in Exec : pc[e] \in ReservedLabel =>
         journal[e].status # "NONE" /\ journal[e].binding = held[e]
    /\ \A e \in Exec : pc[e] \in ReservedLabel \cup {"loaded"} /\ journal[e].status # "NONE" =>
         disk[home[e]].status # "NONE" /\ disk[home[e]].binding = journal[e].binding
    /\ \A e \in Exec : InTransaction(e) => fence = Fence[held[e]]
=============================================================================
