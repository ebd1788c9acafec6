# Formal models of the PanSphaira control plane

PanSphaira keeps an agent away from the systems it works on: every change to a
provider passes a gate, every approval binds one exact action, every policy has
one active generation, and every model call is paid for from a ledger before it
is made.  The promises are of the kind *never twice*, *never without*, *never
more than* and *still true after a crash*.  The modules of this directory state
those promises about the code, TLC checks them on small instances, and TLAPS
proves some of them for every instance.

## 1. Inventory

Paths are relative to the repository root.

| Component | Source | State it keeps | Operations | What is hard | What makes it correct | Modelled |
|---|---|---|---|---|---|---|
| Effect gate | `demo/runtime/enforcement-gate.mjs` | effect store: `effects`, `reservations`, `consumedAuthorityLeases`, in memory and in one file replaced by rename | `execute`, `reserveOperation`, `reconcileOperation`, `markAmbiguous`, `persist`, load at start | up to four awaits in one `execute`, each raced by a deadline; concurrent calls for one operation; a POST that lands after its caller gave up; crash or write failure between reservation, POST and receipt | one POST per operation; no POST without a durable reservation and a standing authority; a receipt is true and durable | yes |
| Journal owner and its ledgers | `demo/runtime/local-journal-owner.mjs` | owner lock, control records and fences, recovery-attempt counters, task identities, each a bounded file | `acquire`, `release`, `recordLocalJournalControl`, `recordLocalJournalRecoveryAttempt`, `recordLocalJournalTaskIdentity` | bounded retention: what is dropped when a ledger is full must never be what still denies | a denial or a spent budget outlives every retention bound; one owner of a journal | control and attempts; the lock in two users of it |
| Approval workbench | `demo/runtime/approval-workbench.mjs`, `authoritative-approval-snapshot.mjs` | proposals and decisions, in memory and on disk | `register`, `decide`, `readDecision`, queue views | two decisions of one proposal around an await; a failing write after the decision is in memory; leases that outlive the start they were issued in | an answered decision is the only one, and durable; what was rejected does not act | yes |
| Policy generation fence | `demo/runtime/policy-generation-fence.mjs` | active and last-known-safe record, retired digests, dispatch state, in one file cached in memory | `activate`, `freezeDispatch`, `assertUseBinding` | two holders of one file, each with its own cache | the generation only rises; no use of another one | one holder |
| Policy lifecycle | `demo/management/policy-lifecycle.mjs` | records, diffs, receipt chain, active and last-safe generation | draft, validate, simulate, approve, stage, activate, rollback, retire, revoke, report rollout | two files written one after the other (fence, then record); diff computed at one generation and used at another; operation replay | use only after review; out of use for good; widening only with consent | yes |
| Policy evaluator, proposal path | `demo/runtime/policy-evaluator.mjs`, `admin-ai-poc.mjs`, `admin-ai-policy.mjs` | none (pure) and a rate window | `evaluate`, `createProposal` | none of its own; inputs to the gate | deny by default | no |
| Runtime server | `demo/runtime/server.mjs` | the objects above, a per-boot profile generation | HTTP routes | composes gate, workbench and fence | no effect while the policy is frozen | its start, as the workbench sees it |
| Paperless adapter | `demo/runtime/paperless-ngx-zoo-adapter.mjs` | none | read-only mapping | none | read-only | no |
| Native runtime budget | `demo/runtime/atomic-resource-budget.mjs`, `src/pan529/native-budget-controller.mjs` | SQLite ledger of reservations; per controller in-flight map, plans, broker counts | `reserve`, `markUnknownUsage`, `settle`; `plan`, `activate`, `invoke` | many processes over one ledger; kill between hold, dispatch and settlement | limits hold; one dispatch per operation; what was consumed is charged | yes |
| Model access broker | `packages/contracts/src/model-access-broker.ts`, `demo/model-access-broker/*` | receipts, request counts, in-flight map | `invoke`, `invokeToolStep` | joined calls, throttling, late answers | one provider call per request identity | as the budget sees it |
| Bound task handle | `src/pan442/bound-task-handle.mjs` | task identity, journal | run, resume | drives gate, workbench and journal in one protocol | one effect per task identity | no |
| Native backup and restore | `src/pan462/native-backup-restore.mjs` | backup set, restore fence | backup, verify, restore | crash between phases | restore is all or nothing | no |
| Native update executor | `src/pan463/native-update-executor.mjs` | one row of the target database, a journal root, a grant per call | `execute`: connect, own, reserve, migrate, read back, receipt, release | several processes and roots over one database; a COMMIT whose client is gone; a control or a new grant in the open transaction | the column is added once; a receipt is true; a control stops what is not yet sent | yes |
| Retained pair | `src/pan464/retained-pair-controller.mjs` | a pair of containers | external commands behind the effect gate | external tools | as the gate's | no |
| Writer scope cut-over and draft transfer | `src/pan473/writer-scope-cutover.mjs`, `independent-scope-diagnosis.mjs`, `src/pan472/persistent-draft-transfer.mjs` | source, target and scope database, each with a gate; two journals | capture, cut over, recover, diagnose, import, source and target writes | three databases written one after the other by a controller that may die between any two, with writers and importers around it | one writer at a time; no accepted batch is lost; what a dead controller left can be diagnosed and recovered | yes |
| Native journey, sessions, human backend | `src/pan527`, `src/pan528`, `src/pan542` | session and view state of one user | HTTP routes | none beyond the objects above | - | no |
| Business state modules | `src/pan515`, `src/pan517`, `src/pan523`, `src/procurement-434` | business records | pure projections | none | - | no |
| OpenClaw gateway | `demo/openclaw-agent/gateway.mjs`, `gateway-state.mjs`, `mind-store.mjs` | sessions, replay state, mind records | HTTP and tool routes | replay, persistence | no replayed turn | no |
| Builder agent | `demo/builder-agent/*` | workspace | build steps | external tools | stays in its workspace | no |
| Managed skill lifecycle | `demo/managed-skill-lifecycle/manager.mjs` | skills and generations | admit, activate, roll back | partial failure | active generation is an admitted one | no |
| Dev worker | `packages/dev-worker/src/*` | controller tasks, publication broker | claim, run, publish | leases, retries | no publication without receipt | no |
| Setup coordinator | `packages/setup-coordinator/src/index.ts` | setup plan and progress | plan, apply, resume | crash in the middle | resume repeats no step | no |
| CCP contracts | `packages/contracts/src/ccp-*.ts` | pure state machines: intake ledger, fair queue, runner lease, head supersession, cost budget, LKG restore | reduce an event over a state | ordering, fencing, replay | a fenced-off runner or head never acts | no |
| Activation, rollback, rings | `packages/contracts/src/asf-*.ts`, `update-*.ts` | journals | activate, roll back, promote | crash recovery, ordering | rollback target is the last known good | no |
| Other contracts | `packages/contracts/src/*` | none or records | parse, digest, validate | closed schemas, no state | - | no |
| Knowledge packages | `packages/knowledge-solution`, `packages/local-knowledge`, `packages/cks`, `src/cks*`, `src/cscl-*`, `src/rks-*` | documents, evidence | pure derivations | data, not control | - | no |
| Browser packages | `packages/browser-shell`, `packages/browser-workspace`, `packages/hmi-adapters` | view state | rendering | presentation | - | no |
| Usage insights, analytics | `packages/usage-insights`, `src/analytics` | aggregates | derivations | data | - | no |
| Scripts, tools, provisioning | `scripts`, `tools`, `demo/*.sh`, `.github` | none | install, verify, release | external tools | - | no |
| Archive, fixtures, assets | `archive`, `closure-audits`, `fixtures`, `assets` | none | none | not code | - | no |

Calls and shared state: the server composes gate, workbench, evaluator and fence
in one process.  `execute` of the gate calls the fence (is this generation in
use?), the workbench's snapshot (is this approval still about this target?), the
journal's control ledger (is this operation denied?), its attempt ledger (may
recovery read again?) and the provider.  The lifecycle manager calls the fence
and nothing else.  The budget controller calls its ledger and the model access
broker.  The bound task handle drives workbench, gate and journal.  The update executor
runs a gate of its own over a journal root while it holds a session of the target
database.  The cut-over calls the draft transfer for its last import and the
diagnosis before each of its decisions.  Files and databases are the only state
that survives a process: effect store, journal ledgers and owner markers,
workbench state, fence record, lifecycle record, budget database, the three
databases of a cut-over and the target of an update.

## 2. The modules, and how they stand for the code

Eight components are modelled; each has its module, an `MC` module with the
instances, configurations named after it, and a module of proofs.  The two journal
ledgers are checked together, by the instances of `RecoveryAttempts`.  Six more
modules are abstract: each says what a component promises in the words of its
documents, without a process, a file or a crash, and the component implements it
under the mapping its module names (`Account`, `Dispatch`, `Promise`, `InForce`, `H`,
`Migration`).

| Module | Stands for | Composed with |
|---|---|---|
| `RuntimeBudget` | `atomic-resource-budget.mjs` with `native-budget-controller.mjs` on top, in several processes | implements `MeteredAccount`; the broker's `invoke`, folded in |
| `MeteredAccount` | what the budget promises who pays: admitted when it fits, run once, closed at what it consumed | - |
| `EffectGate` | `DemoMutationGate.execute` and the effect store | implements `ReservedDispatch`; provider, control ledger and attempt ledger, folded in |
| `ReservedDispatch` | what the gate promises those whose approvals it carries out: reserved durably and for good before it is sent, let through under a standing authority, PASS with a receipt kept | - |
| `DenialLedger` | what the control ledger promises: a denial, once recorded, only rises | - |
| `JournalControl` | `recordLocalJournalControl` and what the gate reads from it | implements `DenialLedger` |
| `RecoveryAttempts` | `recordLocalJournalRecoveryAttempt`, and a recovery's way through both ledgers: `assertEffectControl`, the await, the count, the read | extends `JournalControl` |
| `PolicyLifecycle` | `PolicyLifecycleManager` over `PolicyGenerationFence` | implements `PolicyInForce`; both files in one module |
| `PolicyInForce` | what the owner of a policy is promised: a generation takes its turn once, and is in force in its turn and after its review only | - |
| `WriterHandover` | what a cut-over promises: the right to write goes from the source over nobody to the target | - |
| `WriterCutover` | `executePan473Cutover`, `recoverPan473Cutover`, the diagnosis, `executePan472DraftTransfer` and the writers of both sides | implements `WriterHandover`; diagnosis, transfer and journal markers folded in |
| `Workbench` | `ApprovalWorkbench` in the server that hosts it, over its starts | the gate's check of a lease's profile generation, folded in |
| `NativeUpdate` | `execute` of the native update executor | implements `GuardedMigration`; the gate's reservation and receipt for one operation, the owner marker and the target database, folded in |
| `GuardedMigration` | what the update promises its controller: an attempt is bound to its grant, a COMMIT is sent under a standing grant and no control, one at a time, and PASS is true | - |

Definitions whose comment begins with *Slip* are plausible mistakes in the
operation below them.  No specification uses them; they show that a property
would notice.

### 2.1 RuntimeBudget

One SQLite ledger is shared by processes; each process runs a controller with
its own in-flight map, plans and broker counts, which die with it.

| Model | Code |
|---|---|
| `ledger`, `Row`, `RowRecord` | table `reservations`; `Selection` is the row of the template selection |
| `ModelCommitted`, `RuntimeCommitted`, `Fits` | `snapshot` and the limit checks inside the reserving transaction |
| `ReserveHeld`, `ReserveResumed`, `ReserveAnswered`, `ReserveDenied` | the outcomes of `reserve` |
| `FenceGranted`, `FenceRefused` | `markUnknownUsage`: the row becomes UNKNOWN_USAGE before the provider is called |
| `BrokerDispatches`, `BrokerThrottles`, `ProviderAnswers`, `ProviderFails` | the broker between mark and settlement |
| `Settle` | `settle`, at the used amount or at the full hold |
| `InvokeLeads`, `InvokeJoins`, `InvokeDenied` | `invoke` and its `inFlight` map |
| `Plan`, `Activate...` | `plan`, `activate` and its settlement of the selection row |
| `Busy`, `ActivateBusy` | the writer lock is not granted within its timeout |
| `Kill` | the process dies at any point; `StrayUsage` is what its provider call may still consume |

A transaction is one step: `BEGIN IMMEDIATE` takes the writer lock before the
first read.  Amounts are small numbers; what the properties tell apart is
whether the sum fits.

As an account (`KeepsAccount`) a row is its operation's phase: open while it is
RESERVED or UNKNOWN_USAGE, closed once it is SETTLED.  A dispatched call is a run,
and the kill of a process may let several of its calls consume at once.

### 2.2 EffectGate

A request's step is the code between two awaits.  Node runs it without
interruption, so requests interleave only at awaits; each await is raced against
the operation's deadline (`AwaitFails`, `EffectFails`), and the process may crash
between any two steps (`Crash`).

| Model | Code |
|---|---|
| `reservations`, `effects`, `consumed` | `this.state`: per key the reservation, the receipt, and the used leases |
| `disk`, `PersistOk`, `PersistThrows` | the file `persist()` replaces by rename; it may throw before the rename and, on an owned path, at the directory sync after it |
| `pc`, `existed`, `seen` | where a request stands, whether it read a reservation on entry, the snapshot it was served |
| `EnterDenied`, `EnterOwner`, `EnterReplay`, `Cleared` | `execute` up to its first await, for owner leases (which wait for the authoritative snapshot) and for agent and installer authorities (which do not) |
| `SnapshotServed`, `SnapshotDenied`, `SnapshotHolds` | the snapshot and the second check of lease and policy after it |
| `ReserveFresh`, `ReserveShared`, `ReserveDenied`, `ReserveFails` | the outcomes of `reserveOperation` |
| `Post`, `Lands`, `wire` | the provider's POST, which may land after its caller gave up, or never |
| `MutateAnswers`, `Apply`, `ApplyFails`, `ApplyFailsTwice` | readback, receipt and the two nested failure paths of its write |
| `AskReconcile`, `ReconcileUnknown`, `ReconcileClaims`, `ApplyReconciled`, `ApplyReconciledFails` | `reconcileOperation`: bounded read, corroborating readback, receipt and rollback |
| `Stop`, `Revoke`, `Close` | a control is recorded; a lease window or policy generation ends |
| `attempts`, `Evict`, `forgotten` | the recovery counter of an operation in the bounded attempt ledger; recoveries of other operations push an unspent one out, and the reads it counted are counted no more |
| `Restart`, `RowLoads`, `Recovered` | the constructor: `normalizeEffectStore`, then EXECUTING becomes AMBIGUOUS |

A `Grant` stands for a signed authority that validates, and fixes its key;
signatures and digests are not modelled.  `closed` merges the end of the lease
window with a superseded policy generation, because the gate treats both alike.
Saturation of the control ledger denies every new effect and is, here, a STOP of
every key.  The provider is trusted only where the code trusts it: through
readback, and on a path that is not owned through `provider.reconcile` itself.
A request is made once; a retry is another request with the same grant.
Which counter the ledger drops is `RecoveryAttempts`'; here any counter below the
maximum may go at any time, and `ReconcileRefused` is also what an operation without
a counter meets when the ledger is full of spent ones.

`ReservedDispatch` sees the disk and the wire and none of the memory: whom each
operation is reserved by on disk (`Reserved`), which receipts stand there
(`Receipted`), the requests that are about to POST (`LetThrough`), and the answers
told.  A persist writes every key at once, so one `Write` may reserve several keys,
as when a reservation whose own write threw goes to disk with another key's.

### 2.3 JournalControl and DenialLedger

`DenialLedger` says what a caller may rely on: the epoch at which a control key
is denied only rises, and a ledger without room refuses a new key instead of
dropping one.  `JournalControl` keeps detail records, which
are pruned at `RecordLimit`, and one fence per control key (source and target for
a STOP, the operation for a REVOKE), which is never evicted: at `FenceLimit` a
new control is refused (`HasRoom`) and new effects are denied (`Saturated`).
`Record` is `recordLocalJournalControl`, one read-modify-rename; `Denies` is
`assertEffectControl`.

### 2.4 RecoveryAttempts

`RecordFits`, `RecordEvicting` and `RecordSaturated` are the three ways
`recordLocalJournalRecoveryAttempt` ends.  `Counted` protects a counter at its
bound; `Before` and `Victims` are the eviction order; `reads` counts the provider
reads the gate was granted.  The module extends `JournalControl`, since both
ledgers lie in one journal: `Enter` is `assertEffectControl` for a reservation that
may be reconciled, which only a REVOKE denies; it is followed by the await of the
snapshot, so a control recorded meanwhile is not seen by what is `inside`.

### 2.5 PolicyLifecycle

`record` is the manager's file, `fence` the fence's.  The review steps are one
write each.  `activate`, an active `revoke` and a diverging `reportRollout` write
the fence first and the record after, so they are two actions with `running` in
between; `Abandon` ends them there, which stands for a crash, a write that
throws, and an operation id that turns out to be a replay (the check follows
`fence.activate`).  `ActivateUnrecorded` is the freeze after a record that could
not be written.  `Widens` is the semantic diff, over the request kinds a source
allows instead of ranked outcomes.  `expired` merges artifact window, approval
expiry and trust drift: each denies the same steps for good (a drift that is
undone denies them meanwhile and changes no state: a delay).  One manager process
is assumed, as the contract document does, so the fence's cached record is its
file.

Of this `PolicyInForce` sees the fence's generation, whose turn it is, and what
became of it (`Turn`): called while its activation has written the fence and not
the record, in force while both allow its use, over otherwise, which an activation
that stopped half-way is for good.  `Cleared` are the generations whose review
approved them, whatever became of them since.

### 2.6 WriterCutover and WriterHandover

Three SQLite files and two journal directories are shared by any number of
processes.  A step is one SQLite transaction, or one marker created or removed;
a process may fail or be killed between any two.

| Model | Code |
|---|---|
| `head`, `fencePlan` | the source: batches accepted, and its gate |
| `cursor`, `receipts`, `activePlan`, `baseline`, `routed`, `events` | the target: import metadata, receipts, gate, baseline and its own events |
| `route`, `retained`, `lease` | the scope database: routing with its ACK, and the meta rows *plan* and *lease* |
| `transferOwner`, `controllerOwner` | the `operation.lock` of either journal; `Gone` is a marker whose process died |
| `Diagnosis` with `KnownSource`, `KnownInactive`, `KnownActive`, `RouteOutcome` | `diagnosePan473WriterScope` |
| `NativeBatch`, `StartWrite`, `WriteSource` | a client of the source, and a writer that owns the pan472 journal; both meet the guards in the database, which ask for the gate only.  Only the second asks for the bound on the history (`Writable`): a client may push the source past it (`head` to `MaxHead`), after which nothing reads it any more (`Readable`) |
| `StartImport`, `CommitImport`, `EndTransfer` | `executePan472DraftTransfer`: its checks precede its transaction |
| `Capture`, `Recover`, `Bind` ... `Finish` | `capturePan473CutoverPlan`, `recoverPan473Cutover` and the cut-over, in order |
| `StartTargetWrite`, `WriteTarget`, `CorrectField` | the authorised writers of the activated target |
| `Denied`, `Fail`, `Kill`, `GiveBack` | a check that says no, a store that throws, a process that dies; the `finally` blocks |

A state of the source is known by the number of its batches, so a cutoff stands
for its digest as well; `Sound` are the cutoffs at which its references resolve
(the others make the final transfer and the diagnosis refuse).  A grant lives in
the process it was issued to, and what it binds is checked again by the step that
consumes it: its 30 seconds are one more reason for `Fail`.  `Diagnosis` is one
read of the three files: its three transactions are opened together and closed
together, the files are in rollback-journal mode, and so a transaction that has
read keeps every commit to its file out until the last one has read.

### 2.7 NativeUpdate

Any number of processes run one admitted plan against one database, each call with
an executor of one of the roots.  A step is what a process does between two
awaits.

| Model | Code |
|---|---|
| `migrations`, `fence`, `session` | `pan463_native_state` and the holder of the advisory lock; `Gone` is a backend that goes on with a COMMIT its client sent |
| `marker`, `disk`, `control` | `operation.lock`, `effects.json` and the control ledger of each root |
| `grant`, `live`, `held` | the controller's grant, and the one a call is bound to; each grant carries its own fence |
| `Connect`, `InspectMarker`, `Adopt` | the advisory lock, and `nativeOwner` with the marker it finds |
| `Create`, `Mark`, `FailCreate`, `Load` | `acquireLocalJournalOwner`, which opens the marker (`local-journal-owner.mjs:35`), then writes it (`:40`) or unlinks it, and the gate's constructor |
| `Reserve`, `Resume`, `FailReserve` | `reserveOperation`, fresh, found, or not written |
| `Proceed`, `Dispatch`, `SendCommit`, `Commit` | the checks before the transaction, its locked read and its change, the same checks inside it, and COMMIT |
| `Observe`, `Complete`, `AnswerHeld`, `FailComplete` | readback, the receipt, an answer of HELD, and a receipt that is withdrawn because its write threw |
| `Refuse`, `MarkAmbiguous`, `FailMark`, `Release`, `FailRelease`, `End` | the error handler and the `finally` block, with a release that throws |
| `Kill`, `DropSession`, `SettleBackend` | death of a process, loss of its session, and the backend that is left |

Adopting a dead marker is two steps, as in the code: two processes may both find
it dead, and the second then unlinks the first one's new marker.  Creating one is
two steps as well.  A process killed between them leaves an empty `operation.lock`
(`Torn`), which `JSON.parse` (`native-update-executor.mjs:81`) refuses from then on:
no call adopts it, and nothing in the code removes it.  A release that throws before
its unlink (`local-journal-owner.mjs:48-50`) leaves a marker that names a living
process, which is refused until that process dies.  Identities of
the executor are folded into the grant.  The readback of a target whose state row
contradicts itself is not modelled: nothing in the system writes one.

Of all this the controller of `GuardedMigration` sees the grant a root's attempt
began under (`Begun`, the binding of its reservation), whether a
COMMIT is on its way (`Sent`: a process waits for it, or a backend goes on without
one), and whether the column is there.

### 2.8 Workbench

| Model | Code |
|---|---|
| `mem`, `disk`, `Persist` | `this.state` and the store file, replaced as a whole: a write that throws leaves the file and keeps the change in memory |
| `boot` | the start of the server, for the random `profileGeneration` every proposal and lease carries |
| `RegisterStart`, `RegisterReturns`, `Register` | `register` around its await of the snapshot |
| `Decidable`, `Pending`, `DecideStart`, `DecideDenied`, `Decide`, `DecideFails` | `decide` up to the await, with `pendingDecisions`, and after it |
| `Read` | `readDecision`, which answers from memory |
| `answers`, `leases` | what got out: verdicts `decide` answered, approvals from either |
| `LeaseIsCurrent`, `Act` | the gate accepts a lease of its own generation, and its POST |
| `Restart` | the process dies anywhere, is started and loads the file |

Whether the snapshot allows a call is left open, which covers every change of the
target by others; that the gate sends one lease once is `EffectGate`'s, and here
`acted`.  The decision digest does not contain the profile generation, so the same
escalation may come back in a later start.  The server's path is not an owned one:
`persist` syncs nothing and its only outcomes are written and not written.

## 3. Runs

All run with the constants in their configuration; bounds are named constants.

| Run | Instance | What it shows |
|---|---|---|
| `budget_retry` | two processes; two equal calls in one, a retry in the other, another operation; limit for one hold and a half | limits, charge, one dispatch, agreeing answers, through any kill; the whole is the abstract account |
| `budget_live` | a leader, a joiner and a call with another digest in one process, a second process that activates | every call ends |
| `gate_lease` | three requests with one owner lease, one crash, one control or expiry, one recovery read | who may POST, under which authority, how often recovery reads within a budget, and that every request is answered |
| `gate_storage` | an installer approval presented three times and an owner lease compete for one key beside another key; two recovery reads, whose counter may be evicted, two storage faults, one crash | reservation, lease and receipt on disk stay true and loadable, a receipt answered PASS stands; the whole is the abstract reserved dispatch |
| `gate_double` | part of `gate_lease` | section 6 |
| `journal_ledgers` | two operations on a target each, epochs to 2, two records and three fences, one counter for both with two reads each, one tick: every bound overflows | denials persist and implement the abstract ledger; a spent budget survives eviction; a revoked operation is not read again |
| `lifecycle_use` | three generations of a narrow and a wide source | what is used was approved, what left stays out; the whole is the abstract generation in force |
| `lifecycle_widening` | the same | section 6 |
| `cutover_crash` | two processes, up to five batches of which the second is unsound and the fifth beyond the bound, one repeated pan472 call, two kills or failures, one control | no batch lost, one writer at a time, every stop diagnosable, and a fenced source is followed by an active target unless one of four named reasons holds it |
| `cutover_stranded` | one batch less and no faults | section 6 |
| `workbench_restart` | two proposals over three starts | an answered verdict is final, and a rejection is not undone by a lease of an earlier start |
| `native_crash` | two executors, two roots, two grants with a fence each, two events among kill, dropped session, failed write, failed release, withdrawal, new grant, control and fence | one migration, true receipts, controls that bite inside the transaction, and a receipt in the end at every root that is free and asked; the whole is the abstract guarded migration |

Why the bounds are enough: two processes and two requests for one operation are
the least with which an interleaving can go wrong, the third shows a retry after
the pair; one crash separates before and after, and what matters of a second is
that recovery is idempotent, which `gate_lease` shows for the row a crash leaves;
two faults reach the catch inside the catch; three requests of one approval are the
least with which one times out, one recovers to PASS and one more reconciles beside it
(`PassIsDurable`); `gate_lease` counts the reads of a budget of one, which is spent at
once and so never dropped, `gate_storage` evicts from a budget of two, and that the
bound holds beside evictions is the theorem `ReadsStayBounded`; ledgers overflow with one entry more
than their limit; three generations are the least in which one is superseded and
its source tried again; three starts let a lease outlive two restarts while another
proposal's write carries along what an earlier one left in memory; two faults let a recovery die as well; two grants are the
least with which a call can be overtaken.  The proofs of section 5 have no bounds.

Deadlock is checked where the system can always move (`budget_retry`,
`budget_live`).  It is off for the cut-over and the update, whose calls and events
are bounded and which may be at rest; for the gate, because its requests are made
once and the last answer ends a behaviour, and a store that does not load keeps the
process down; for the ledgers, because epochs and time are bounded; for the
lifecycle, because generations run out; for the workbench, which is at rest when
everything is decided and its starts are used up.

### Fairness

- Gate (`FairSpec`): weak fairness of each request's next step.  Every await of
  `execute` is raced against the operation deadline, whose timer fires whatever
  the provider does; no fairness is given to the provider (`Lands`), to crashes
  or to controls.  A crash answers a request with `LOST`.
- Budget (`FairSpec`): strong fairness of a started call, because the ledger's
  lock is contended and so a call's transaction is enabled again and again
  rather than continuously; the busy timeout bounds the wait, and Node serves
  ready tasks in order.  The provider is assumed to settle its promise once the
  abort signal fires: `model-access-broker.ts:637` awaits it without a race.
  This assumption is the provider's, not the code's, and is listed as a hazard.
- Cut-over: weak fairness of the next step of a call, which is synchronous code of
  one process, and of `Recover`, which is the operator's: a fenced source waits for
  somebody who asks for a recovery, and nothing else starts one.  No fairness for
  writers, importers or new cut-overs.
- Update: weak fairness of the next step of a call (every query has a timeout, and
  a lost session is a `DropSession`), of `SettleBackend` (the database ends what no
  client waits for), and of `Start` of each executor with some root: the controller
  asks again until it has its receipt.  At which root it asks is left open;
  `CommittedIsReceipted` promises the receipt of the root at which it goes on asking.

## 4. Properties worth reading first

- `DispatchedOnce`, `SpentIsCharged` (budget): at most one paid call for an
  operation, and whatever was consumed is charged, across processes and kills.
- `KeepsAccount` (budget), `KeepsDispatch` (gate), `KeepsForce` (lifecycle), `KeepsGuard` (update): the
  component, with all its processes and files, is a behaviour of the abstract
  module, so each promise holds of every step and not only of the states reached.
  An account that closes at its hold, a half-done activation that thaws what was
  frozen, and a COMMIT sent after the grant was withdrawn break them and nothing
  else in their runs.  `KeepsDispatch` adds to the invariants of the gate that a
  reservation, once on disk, is never another authority's again.
- `ReadsBounded` (gate): recovery reads of an operation stay inside its budget for as
  long as the ledger keeps the counter.  An evicted counter begins again, so there is
  no bound over all time (`reads` in `RecoveryAttempts` passes `MaxAttempts`); what
  never begins again is a budget that is spent (`SpentStaysSpent`).
- `OnePostPerKey` (gate): exactly when a second POST of one operation is
  possible, and that nothing else leads to one.
- `PostIsReserved`, `NoUndurableReceipt`, `ReceiptMeansEffect`, `PassIsDurable`,
  `StoreLoads` (gate): what the disk knows of the world.  The last two name the
  one exception each has.  `PassIsDurable` speaks of every step: the only one that
  takes the receipt of an answered PASS away is that of a second request of the key
  which confirms the effect too and cannot write its own receipt; its rollback
  (`enforcement-gate.mjs:932`, `:1218`) deletes the first one's.  A timed-out POST
  before the recovery that answered PASS is no exception.  `StoreLoads`: two
  requests came to share a reservation, and the second left APPLIED with
  `recovery` RECONCILE, which `normalizeEffectStore` refuses.
- `ControlWindowNeverEnds`, `PromiseKept` (control ledger): a recorded control
  denies for good.  The exception it states: a REVOKE's fence is filed under the
  operation alone, so a REVOKE of the same operation for another pair takes it
  over and ends the denial of the first pair, not of the operation.
- `SpentStaysSpent`, `RevokedReadsNoMore` (attempts beside controls): neither the
  churn of other operations nor a pruned record or a replaced fence gives a
  recovery its provider reads back.
- `VerdictIsFinal`, `RejectedNeverActs` (workbench): both speak of a verdict that
  `decide` has *answered*.  One whose write threw is not answered, yet
  `readDecision` tells it and hands its lease out until the next start; if the
  registration's write had thrown too, the same proposal can be decided the other
  way afterwards.  What then protects the rejection is only that the gate takes no
  lease of an earlier start.
- `OutOfUseForever`, `UseIsApproved`, `SourceNeverReturns` (lifecycle): through
  operations that stop between their two files.
- `NothingLost`, `HandsOver`, `Diagnosable`, `FenceIsFollowed` (cut-over): what
  survives a controller that dies between fence, import, activation, routing and
  ACK, with writers and importers of any timing around it.  `FenceIsFollowed` is
  liveness, and names the four states that need a person: a control, either
  journal's marker left by a dead process (the cut-over adopts none), and an import that outran the retained plan (section 6).
- `EffectOnce`, `ReceiptMeansEffect`, `ControlEndsCommits`, `CommittedIsReceipted`
  (update): one effect, and the truth about it, whatever is killed while a COMMIT
  is on its way.  `CommittedIsReceipted` speaks of each root for itself: once the
  update took effect, a root gets its receipt if the controller goes on asking there
  (`AskedElsewhere` otherwise) and nothing holds that very root, whatever holds the
  other ones.  What holds a root (`Held`) is a control, a withdrawn or changed grant, a moved
  fence, and a marker no call adopts: a torn one, which only a person can remove, or
  one that names a living process after a release that threw.
- `RevokedNeverActs` (gate) speaks of the requests that enter after the revocation.  A
  control recorded while a request waits for its snapshot is not read again before the
  POST (`enforcement-gate.mjs:1090`); no property forbids that POST.

## 5. Proofs

TLAPS checks every theorem below for all values of the constants, from the named
assumptions of the module (`BoundsAssumption`, `LimitsAssumption`, ...): limits
are natural numbers, calls and grants map to operations and keys.

| Module | Theorems | Argument |
|---|---|---|
| `RuntimeBudget_proofs` | `TypeCorrect`, `AtMostOneDispatch`, `OneAnswer`, `HoldsSettle`, `SelectionFirst`, `SelectionOnce`, `LimitsHold`, `ConsumptionCharged`, `BudgetIsAccount` | `IInv` and the sums below; `IInv` relates the row of an operation to the one call between mark and settlement: an UNKNOWN_USAGE row has at most one driver, a dispatched operation no other, and a settled row is not dispatched again; a call that leads entered after the selection, which stays |
| `EffectGate_proofs` | `TypeCorrect`, `PostReserved`, `PostsOnce`, `ReceiptsDurable`, `ReceiptsTrue`, `PostsAuthorized`, `RevokedIsSilent`, `ReadsStayBounded`, `StoreAlwaysLoads`, `PassStaysDurable`, `NoneStuck` (assumes `MaxFaults = 0`), `GateKeepsDispatch` | `IInv` and `Past` below; silence of a request that entered too late is stable; an attempt is counted before its read, and dropped with its counter; every step maps to a step of `ReservedDispatch` or a stutter |
| `JournalControl_proofs` | `TypeCorrect`, `FencesHold`, `WindowNeverEnds`, `LedgerBounded`, `LedgerKeepsPromise` | fences only rise, and each is a recorded control, the only one of its epoch (`FenceIsRecorded`); every initial state and step maps to `DenialLedger` |
| `RecoveryAttempts_proofs` | `CountersCorrect`, `ControlsAreControls`, `SpentForever`, `RevokedIsLeftAlone` | a protected counter is never a victim, and saturation grants no read; the control part is a behaviour of `JournalControl`, so `ControlWindowNeverEnds` holds and keeps a revoked operation out |
| `Workbench_proofs` | `TypeCorrect`, `FinalForGood`, `RejectionHolds`, `AlwaysLoads` | `IInv`: one decision of a digest under way, and only while it has no verdict (`OneDecision`); leases of this start are of approvals in memory, all others are older (`LeasesApproved`) |
| `PolicyLifecycle_proofs` | `TypeCorrect`, `UseApproved`, `RecordFollows`, `LastSafe`, `FenceRises`, `OutForever`, `NeverReturns`, `LifecycleKeepsForce` | `IInv` below; every step maps to a step of `PolicyInForce` or a stutter |
| `WriterCutover_proofs` | `TypeCorrect`, `WritesSurvive`, `StopsAreDiagnosed`, `Handover` | `IInv` below; every step maps to a step of `WriterHandover` or a stutter |
| `NativeUpdate_proofs` | `TypeCorrect`, `MigratesOnce`, `ReceiptsTrue`, `ControlsEnd`, `UpdateKeepsGuard` | `IInv` below; *controlled and nothing on its way* is stable; every step maps to a step of `GuardedMigration` or a stutter |

**The budget.**  Row by row `IInv` is enough; the limits and the charge are sums
over sets of rows and of calls.  A sum of the community modules is a `CHOOSE` of a
recursive function, so first comes what it is: two such functions agree and one
exists (`SumsAgree`, `SumsExist`, by a smallest counterexample among the finite
subsets), hence the sum of a set with one element more, with one value changed, of
zeros, and of one element (`SumUnfolds`, `SumChanges`, `SumOfZeros`, `SumOfOne`).
With them `LimitsHold` needs only that a reservation adds its whole hold after it
checked that it fits (`AdmittedFits`) and that no row ever grows
(`MovedFits`): what is left of a hold is never handed out before it is settled.
`ConsumptionCharged` needs `UsageIsDispatched`: units are consumed by a dispatched
call alone, of which an operation has one, and settled rows carry what that call
consumed.  `BudgetIsAccount` maps each step: reserving is `Admit`, dispatching is
`Run`, an answer or a kill is `Consume`, settling is `Close`, and everything else
(fences, joins, denials, the template selection) is invisible to the owner.

**The gate.**  `PostIsReserved` is not inductive: it says nothing of a request
about to POST, nor of what memory knows that the disk does not.  `IInv` adds
`Custody` (a request that drives an operation has its own reservation on disk and
read none on entry), `Follows` (memory never forgets what the disk has, and is
ahead of it only as EXECUTING), `OneHolder` (two requests hold one key only with
one owner lease), `Leased` and `Rows` (lease and row go together), and `Phases`.
The interesting case is the write that throws after its rename: memory takes the
receipt back while the disk keeps it, which `Follows` allows and
`NoUndurableReceipt` survives.

What a row says of the requests that had it needs a second invariant, `Past`, proved
on top of `IInv`.  Its core is `Settling`: a row that a request found free or drives,
and that is no longer EXECUTING, was settled by a POST of *another* request.  So a
receipt written over a row that still carries its recovery mark comes with two POSTs
(`RowsSound`, hence `StoreLoads`).  A receipt only on an APPLIED row
(`ReceiptApplied`) is what keeps an effect that fails beside a receipt from leaving
its row EXECUTING (`ExecutingIsDriven`).  Each storing step is first shown to be a
`Wrote` of one row, and the invariant is proved of `Wrote` once.

`PassIsDurable` is an action property and is proved step by step (`PassStep`): a
request that writes without having confirmed the effect leaves receipts as they are,
one that answers PASS leaves its own in memory and on disk, a replayed PASS found the
receipt in memory and so on disk (`NoUndurableReceipt`), and a restart reads back
what the disk holds.

`GateKeepsDispatch` uses the same `Wrote`: a request that writes rewrites the row of
its own key, for whom it is already or for itself when memory has it free (`Keeps`),
and `Follows` says that what memory has free the disk has free too, so what goes to disk
reserves free operations only (`ReservesFree`), each under its own key (`Filed`).
`OneHolder` and `Custody`, taken after the step, give the one way two requests are
let through for one operation (`ReservingClears`).

**The lifecycle.**  `UseIsApproved` needs that approval and diff stay with the
entry until use (`Reviewed`).  `RecordFollowsFence` needs what a stopped
operation leaves behind: `HalfDone` says that an activation has moved the fence
to its STAGED generation, and that a revocation or divergence has frozen it.
`OutForever` and `NeverReturns` are of the form *from now on never again*; each
is a state predicate that `IInv` makes stable.
`LifecycleKeepsForce` needs more than that a used generation was reviewed: a review
must stay approved.  It does because the steps that change an approval or a diff start from an
entry that has none (`Unreviewed`), so `Cleared` only grows.  The fence's step of
an activation is `Call`, the record's is `Enforce`, and each way out of use, the
half-done activation that is abandoned included, is one `Withdraw`.

**The cut-over.**  `NothingLost` speaks of an activated target and says nothing of
the way there.  `IInv` follows the hand-over stage by stage: `LeaseKept` (the one
controller inside the cut-over holds the lease and works for the retained plan),
`FenceKept` (the fence is for that plan, and the head has stood still since),
`ImportKept` (what was imported is one gapless history up to the cursor),
`CallersKept` (the caller that is importing holds the journal, and its range still
continues the target although its checks are past), `ActivationKept` and
`RouteKept` (each gate implies the ones written before it).  With these the
diagnosis recognises every state a kill can leave, and each step of the code is
one of four steps of `WriterHandover` or none.

**The update.**  `EffectOnce` needs `SessionKept`: whoever can still commit, be it
a process or the backend a dead one left, holds the session, and while it is in its
transaction the target is unchanged.  `ReservationKept` says that a call that has
just read its root's record, and owns the marker, knows what is on disk, and that a
reservation which was found is not a fresh one: it never dispatches.  `SeenKept`
makes what was read back true at the time of the receipt.  Two
processes may both get past a dead marker; only the one whose marker stands can
reserve, and only the one with the session can dispatch.

`UpdateKeepsGuard` asks under which grant each step is taken.  `BindingKept` answers:
a call past its reservation works on a record bound to the grant it holds, what it
loaded of its root is still on disk, and while its transaction is open the fence of
the target is the one of that grant, since to move it needs the same row.  A reservation
is made under a grant that stands, with no control against its root, and nothing
rebinds it (`ReservationBegins`, `BegunStays`).  So the
check inside the transaction is made for the grant the attempt began under
(`CommitIsSent`), and PASS is told under no other
(`CompleteTells`).  That a COMMIT is on its way outlives the process that sent it:
`SentStays` lets nothing but `Commit` and the backend end it (`CommitSettles`).

Proved and left out of the runs: `LedgerBounded`, `FencesHold`, the type invariants
of all components, `AlwaysLoads`, `SelectionFirst`,
`SelectionOnce`, `LastSafe` and `FenceRises`, which hold for all values of the
constants anyway.

Only model-checked is liveness: `CallsEnd` (budget and gate), `FenceIsFollowed` and
`CommittedIsReceipted`, whose proofs need ENABLED of the actions under fairness,
which is out of the prover's reach.

## 6. Where the code and its text disagree

| Run | Code | Text |
|---|---|---|
| `gate_double` | Two requests with one owner lease pass the entry check before either reserves and both wait for the snapshot; the first times out and leaves AMBIGUOUS, `reserveOperation` hands that row to the second, and it POSTs too. | `docs/development/v0.2-approval-workbench-pdca.md:138`: "concurrent pair yields one provider call" |
| `cutover_stranded` | A recovery always takes the retained plan. An import that was past its checks may move the target's cursor after that plan was captured as a snapshot; the final transfer (`persistent-draft-transfer.mjs:197`) is then denied at every recovery, and the fenced source is never followed by a target. | `docs/architecture/pan473-writer-scope-cutover-v1.md:33`: "Fresh recovery completes one epoch" |
| `lifecycle_widening` | The diff is computed against the generation active at validation and not compared again at activation. A generation validated before the first activation has no diff at all. | `docs/development/admin-ai-aas-017-signed-policy-lifecycle-pdca.md:32-33`: "any authority widening requires explicit widening approval" |

Three more observations are stated as the exceptions of properties that hold
(section 4): the refused reload behind `StoreLoads`, the deleted receipt behind
`PassIsDurable`, and the replaced binding behind `ControlWindowNeverEnds`.

## 7. Not modelled, and why

The last column of the inventory marks what is modelled.  Of the modelled
components the following is outside: signatures, digests and schemas (a grant, an
approval or an artifact is one that validates); wall-clock time (a window ends
once); the byte format of the files; processes that write a ledger's file at
once, which the owner lock excludes and which is modelled where the update and the
cut-over use it; several holders of the policy fence; the content of batches,
events and drafts beyond the one field a correction may name; and the server's
boot activation of the fence.

Most of the repository keeps no state between two calls: contracts that parse
and digest, derivations over documents and fixtures, presentation, evidence
scripts, tests and archived material.  There is nothing in them for a state
machine to say, and a table of their field checks would restate them.  What is left
of the stateful parts is in section 8.

Hazards that no property covers are listed in `PROJECT.json` with their reasons:
the template selection that stays UNKNOWN_USAGE, the retained plan that is never
cleared, the half-done activation as the gate sees it, and two holders of the fence
file.  Two more are reached by the models and
are consequences rather than hazards of their own: a denied target write has used
up a task identity of the controller's bounded ledger
(`writer-scope-cutover.mjs:184`), and a grant that changes after the reservation, like
a torn marker, holds that root for ever (`Held` in `NativeUpdate`).

## 8. Plan

Done, in this order: `RuntimeBudget`, `EffectGate`, the two journal ledgers,
`PolicyLifecycle`, `WriterCutover`, `NativeUpdate`, the ledgers together, and
`Workbench`.  Next:

1. `PolicyFence`: two holders of one fence file with their caches and the
   server's boot activation, and the gate that asks the fence alone.  Abstract
   specification: a generation that only rises.
2. `TaskHandle`: the bound task handle over workbench, gate and task identities.
   Property: one task identity, one operation key, one effect, through re-issued
   handles and restarts.
3. `GateOverJournal`: the gate with the real control and attempt ledgers in
   place of `stopped`, `revoked` and `attempts`, as a refinement of `EffectGate`.
4. `RetainedPair` and the backup executor (`pan462`), then the CCP contracts with
   a runner lease.
