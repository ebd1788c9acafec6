---------------------------- MODULE WriterCutover ----------------------------
(***************************************************************************)
(* The cut-over of one writer scope from a source to a target database:    *)
(* src/pan473/writer-scope-cutover.mjs with the diagnosis it decides by    *)
(* (independent-scope-diagnosis.mjs) and the draft transfer it imports     *)
(* with (src/pan472/persistent-draft-transfer.mjs).                        *)
(*                                                                         *)
(* Three SQLite files and two journal directories are shared by any number *)
(* of processes.  Every action below is one SQLite transaction, or one     *)
(* file created or removed; a process may be killed between any two.  A    *)
(* state of the source is known by the number of batches it accepted, so   *)
(* a cutoff stands for its digest as well.  A grant lives in the process   *)
(* it was issued to and binds what the step that consumes it checks again; *)
(* its 30 seconds are one more reason for a call to be denied.             *)
(***************************************************************************)
EXTENDS Naturals, Sequences

CONSTANTS
    Proc,           \* operating system processes
    Nobody, Gone,   \* no owner; an owner that was killed
    EventLimit,     \* PAN472_LIMITS_V1.events
    Sound,          \* cutoffs at which the source's references hold
    Stop,           \* the control of the pair; others name a plan's operation
    Value,          \* values of the one field a correction may name
    MaxHead,        \* bound: batches the source accepts
    MaxCalls,       \* bound: calls of the pan472 entries
    MaxFaults       \* bound: killed processes and failing calls

Cutoff == 1 .. EventLimit
Original == 0

ASSUME OwnersAssumption == Nobody \notin Proc /\ Gone \notin Proc /\ Nobody # Gone
ASSUME BoundsAssumption ==
    /\ EventLimit \in Nat /\ MaxHead \in Nat /\ MaxCalls \in Nat /\ MaxFaults \in Nat
    /\ Sound \subseteq Cutoff
    /\ Original \in Value

\* A plan transfers the batches after "from" up to its cutoff: nothing when
\* from = cutoff (NO_CHANGES), a SNAPSHOT when from = 0.
Plan == {q \in [cutoff : Cutoff, from : 0 .. EventLimit] : q.from <= q.cutoff}
NoPlan == [cutoff |-> 0, from |-> 0]

ASSUME StopAssumption == Stop \notin Plan

VARIABLES
    head,           \* source.sqlite: batches accepted
    fencePlan,      \* its gate: the plan it is FENCED for; NoPlan: ACTIVE
    cursor,         \* target.sqlite: how far it was imported; 0: never
    receipts,       \* the ranges imported, with approval, dedup and receipt
    activePlan,     \* its gate: the plan it is ACTIVE for, in epoch 1
    baseline,       \* pan473_baseline: the cutoff whose rows it holds
    routed,         \* its gate: routed
    events,         \* pan473_target_events
    route,          \* pan473-scope.sqlite: routing
    retained,       \* its meta "plan"
    lease,          \* its meta "lease"
    transferOwner,  \* operation.lock of the pan472 journal
    controllerOwner,\* operation.lock of the pan473-controller journal
    controls,       \* STOP, and the plans whose operation is revoked
    pc,             \* where each process is
    plan,           \* the plan it works on
    calls, faults

source == <<head, fencePlan>>
target == <<cursor, receipts, activePlan, baseline, routed, events>>
scope == <<route, retained, lease>>
owners == <<transferOwner, controllerOwner>>
local == <<pc, plan>>
vars == <<source, target, scope, owners, controls, local, calls, faults>>

Init ==
    /\ head = 0 /\ fencePlan = NoPlan
    /\ cursor = 0 /\ receipts = {}
    /\ activePlan = NoPlan /\ baseline = 0 /\ routed = FALSE /\ events = <<>>
    /\ route = [destination |-> "SOURCE", acked |-> TRUE]
    /\ retained = NoPlan /\ lease = Nobody
    /\ transferOwner = Nobody /\ controllerOwner = Nobody
    /\ controls = {}
    /\ pc = [p \in Proc |-> "idle"]
    /\ plan = [p \in Proc |-> NoPlan]
    /\ calls = 0 /\ faults = 0

Fenced == fencePlan # NoPlan
Active == activePlan # NoPlan
LeaseDown == lease \in {Nobody, Gone}

Goto(p, label) == pc' = [pc EXCEPT ![p] = label]
At(p, label) == pc[p] = label

-----------------------------------------------------------------------------
(* What the observers read *)

\* The rows the target holds, by the batch they came with.
Rows == UNION {(r.from + 1) .. r.cutoff : r \in receipts}

ReceiptsHold(through) ==
    /\ \A r \in receipts : r.cutoff <= through
    /\ \E r \in receipts : r.cutoff = through

\* A source that its native clients filled beyond the bound is not read at all.
Readable == head <= EventLimit

\* reconcilePan472DraftTransfer: VERIFIED.
Verified ==
    /\ Readable
    /\ cursor \in 1 .. head
    /\ cursor \in Sound
    /\ Rows = 1 .. cursor
    /\ ReceiptsHold(cursor)

\* No event before the i-th changed the field.
UntouchedBefore(i) == \A j \in 1 .. i - 1 : events[j].value = Original

KnownSource ==
    /\ head \in Sound
    /\ Fenced => retained = fencePlan /\ fencePlan.cutoff = head

KnownInactive ==
    /\ ~routed /\ baseline = 0 /\ events = <<>>
    /\ route = [destination |-> "SOURCE", acked |-> TRUE]
    /\ (cursor = 0 /\ receipts = {}) \/ Verified

KnownActive ==
    /\ Fenced
    /\ activePlan = retained
    /\ baseline = head /\ cursor = head
    /\ ReceiptsHold(head)
    /\ head + Len(events) <= EventLimit
    /\ \A i \in 1 .. Len(events) :
          events[i].kind = "FORWARD_CORRECTION" => UntouchedBefore(i)

\* Routing and its ACK against the target's gate.
RouteOutcome ==
    CASE route.destination = "SOURCE" /\ route.acked /\ ~routed -> "HELD_ACTIVATED_ROUTING_REQUIRED"
      [] route.destination = "TARGET" /\ ~route.acked -> "HELD_ROUTING_ACK_REQUIRED"
      [] route.destination = "TARGET" /\ route.acked /\ routed -> "ACTIVE"
      [] OTHER -> "UNKNOWN"

\* diagnosePan473WriterScope.  Its read transactions on the three files are open
\* together until the last row is read, and an open one keeps the commits to
\* its file out: what it saw is one state of the three.
Diagnosis ==
    CASE ~KnownSource -> "UNKNOWN"
      [] Active /\ KnownActive -> RouteOutcome
      [] Active /\ ~KnownActive -> "UNKNOWN"
      [] ~Active /\ ~KnownInactive -> "UNKNOWN"
      [] ~Active /\ KnownInactive /\ ~Fenced -> "PREPARED"
      [] ~Active /\ KnownInactive /\ Fenced ->
            IF cursor = head THEN "HELD_SOURCE_FENCED_ACTIVATION_REQUIRED"
            ELSE "HELD_SOURCE_FENCED_FINAL_TRANSFER_REQUIRED"

Controlled(q) == Stop \in controls \/ q \in controls

-----------------------------------------------------------------------------
(* Calls end: by their last step, by a denial or by an error.  Every owner  *)
(* and lease is given back in a finally block; a killed process gives back  *)
(* nothing, and its lease is found DEAD.                                    *)

Freed(owner, p) == IF owner = p THEN Nobody ELSE owner
Orphaned(owner, p) == IF owner = p THEN Gone ELSE owner

\* Slip: a call that gives back its lease reopens the source it had fenced.
GiveBackReopens(p) ==
    /\ transferOwner' = Freed(transferOwner, p)
    /\ controllerOwner' = Freed(controllerOwner, p)
    /\ lease' = Freed(lease, p)
    /\ fencePlan' = IF lease = p /\ ~Active THEN NoPlan ELSE fencePlan
    /\ Goto(p, "idle")
    /\ plan' = [plan EXCEPT ![p] = NoPlan]
    /\ UNCHANGED <<head, target, route, retained, controls, calls>>

GiveBack(p) ==
    /\ transferOwner' = Freed(transferOwner, p)
    /\ controllerOwner' = Freed(controllerOwner, p)
    /\ lease' = Freed(lease, p)
    /\ Goto(p, "idle")
    /\ plan' = [plan EXCEPT ![p] = NoPlan]
    /\ UNCHANGED <<source, target, route, retained, controls, calls>>

\* A store or file operation throws.
Fail(p) ==
    /\ pc[p] # "idle"
    /\ faults < MaxFaults
    /\ faults' = faults + 1
    /\ GiveBack(p)

Kill(p) ==
    /\ pc[p] # "idle"
    /\ faults < MaxFaults
    /\ faults' = faults + 1
    /\ transferOwner' = Orphaned(transferOwner, p)
    /\ controllerOwner' = Orphaned(controllerOwner, p)
    /\ lease' = Orphaned(lease, p)
    /\ Goto(p, "idle")
    /\ plan' = [plan EXCEPT ![p] = NoPlan]
    /\ UNCHANGED <<source, target, route, retained, controls, calls>>

\* The operator records a STOP, or a REVOKE of a cut-over's operation,
\* in the journal of the controller, which an import on its own does not read.
Control(c) ==
    /\ controls = {}
    /\ controls' = {c}
    /\ UNCHANGED <<source, target, scope, owners, local, calls, faults>>

-----------------------------------------------------------------------------
(* Source writers: the pan472 entry, which owns the journal while it        *)
(* writes, and a native client with a connection of its own.                *)

\* Slip: the trigger guards of the source are missing.
SourceOpenAlways == TRUE

\* The triggers of SOURCE_GUARDS let a row through: they ask for the gate only.
SourceOpen == ~Fenced

\* The bound on the history is asked for by the pan472 entry only.
Writable == SourceOpen /\ head < EventLimit

NativeBatch ==
    /\ SourceOpen
    /\ head < MaxHead
    /\ head' = head + 1
    /\ UNCHANGED <<fencePlan, target, scope, owners, controls, local, calls, faults>>

\* Acquire the pan472 journal for a call that the caller may repeat at will.
OwnTransfer(p) ==
    /\ calls < MaxCalls
    /\ transferOwner = Nobody
    /\ transferOwner' = p
    /\ calls' = calls + 1

StartWrite(p) ==
    /\ At(p, "idle")
    /\ OwnTransfer(p)
    /\ Goto(p, "writing")
    /\ UNCHANGED <<source, target, scope, controllerOwner, controls, plan, faults>>

WriteSource(p) ==
    /\ At(p, "writing")
    /\ Writable
    /\ head' = head + 1
    /\ Goto(p, "written")
    /\ UNCHANGED <<fencePlan, target, scope, owners, controls, plan, calls, faults>>

-----------------------------------------------------------------------------
(* Import: executePan472DraftTransfer, called by the controller for the     *)
(* final transfer, and by anyone with a plan of the source's history.       *)

AsReceipt(q) == [from |-> q.from, cutoff |-> q.cutoff]

Importable(q) ==
    /\ Readable
    /\ q.from < q.cutoff /\ q.cutoff <= head /\ q.cutoff \in Sound

\* The plan is the next one for this target: it reaches the source's head
\* and starts where the last import ended.
Continues(q) ==
    /\ head = q.cutoff
    /\ AsReceipt(q) \notin receipts
    /\ q.from = cursor
    /\ IF cursor = 0 THEN receipts = {} ELSE Verified

MayImport(q) == Importable(q) /\ cursor <= q.cutoff /\ Continues(q)

StartImport(p, q) ==
    /\ At(p, "idle")
    /\ MayImport(q)
    /\ OwnTransfer(p)
    /\ plan' = [plan EXCEPT ![p] = q]
    /\ Goto(p, "importing")
    /\ UNCHANGED <<source, target, scope, controllerOwner, controls, faults>>

\* TARGET_GUARDS abort an import's rows and metadata once they are installed.
TargetOpen == ~Active

CommitImport(p) ==
    /\ At(p, "importing")
    /\ TargetOpen
    /\ receipts' = receipts \cup {AsReceipt(plan[p])}
    /\ cursor' = plan[p].cutoff
    /\ Goto(p, "imported")
    /\ UNCHANGED <<source, activePlan, baseline, routed, events, scope, owners,
                   controls, plan, calls, faults>>

\* The journal is given back; the controller reconciles again.
EndTransfer(p) ==
    /\ pc[p] \in {"written", "imported"}
    /\ transferOwner' = Freed(transferOwner, p)
    /\ IF lease = p
       THEN Goto(p, "reconciling") /\ UNCHANGED plan
       ELSE Goto(p, "idle") /\ plan' = [plan EXCEPT ![p] = NoPlan]
    /\ UNCHANGED <<source, target, scope, controllerOwner, controls, calls, faults>>

-----------------------------------------------------------------------------
(* The cut-over *)

\* capturePan473CutoverPlan: a snapshot for a virgin target, else a delta.
Capture(p) ==
    /\ At(p, "idle")
    /\ ~Fenced
    /\ head \in Sound
    /\ cursor = head => Verified
    /\ plan' = [plan EXCEPT ![p] = [cutoff |-> head, from |-> cursor]]
    /\ Goto(p, "captured")
    /\ UNCHANGED <<source, target, scope, owners, controls, calls, faults>>

\* recoverPan473Cutover: the retained plan, once no controller is alive.
Recover(p) ==
    /\ At(p, "idle")
    /\ Diagnosis # "UNKNOWN"
    /\ retained # NoPlan
    /\ LeaseDown
    /\ plan' = [plan EXCEPT ![p] = retained]
    /\ Goto(p, "captured")
    /\ UNCHANGED <<source, target, scope, owners, controls, calls, faults>>

\* validatePlan and controls; then bindTask needs the controller's journal.
Admissible(p) ==
    /\ plan[p].cutoff = head
    /\ ~Controlled(plan[p])
    /\ controllerOwner = Nobody

Bind(p) ==
    /\ At(p, "captured")
    /\ Admissible(p)
    /\ controllerOwner' = p
    /\ Goto(p, "binding")
    /\ UNCHANGED <<source, target, scope, transferOwner, controls, plan, calls, faults>>

Bound(p) ==
    /\ pc[p] \in {"binding", "tBinding"}
    /\ controllerOwner' = Freed(controllerOwner, p)
    /\ Goto(p, IF At(p, "binding") THEN "bound" ELSE "tBound")
    /\ UNCHANGED <<source, target, scope, transferOwner, controls, plan, calls, faults>>

\* Slip: the lease of a killed controller is not taken.
LeasableIdle(p) == lease = Nobody /\ retained \in {NoPlan, plan[p]}

\* Slip: a retained plan is replaced by the next one.
LeasableAnyPlan(p) == LeaseDown

Leasable(p) == LeaseDown /\ retained \in {NoPlan, plan[p]}

TakeController(p) ==
    /\ At(p, "bound")
    /\ Leasable(p)
    /\ retained' = plan[p]
    /\ lease' = p
    /\ Goto(p, "leased")
    /\ UNCHANGED <<source, target, route, owners, controls, plan, calls, faults>>

\* The final cutoff and the gate, in the transaction that fences the source.
Fenceable(p) ==
    /\ head = plan[p].cutoff
    /\ fencePlan \in {NoPlan, plan[p]}

FenceSource(p) ==
    /\ At(p, "leased")
    /\ Fenceable(p)
    /\ fencePlan' = plan[p]
    /\ Goto(p, "fenced")
    /\ UNCHANGED <<head, target, scope, owners, controls, plan, calls, faults>>

\* assertController and controls, asked at each boundary a crash probe knows.
Continuable(p) == lease = p /\ ~Controlled(plan[p])

\* The target's gate is read: it is still to be activated, or was for this plan.
ReadGate(p) ==
    /\ At(p, "fenced")
    /\ Continuable(p)
    /\ activePlan \in {NoPlan, plan[p]}
    /\ Goto(p, IF Active THEN "activated" ELSE "reconciling")
    /\ UNCHANGED <<source, target, scope, owners, controls, plan, calls, faults>>

Reconciled(p) == Verified /\ cursor = plan[p].cutoff /\ cursor = head

Reconcile(p) ==
    /\ At(p, "reconciling")
    /\ Reconciled(p)
    /\ lease = p
    /\ Goto(p, "reconciled")
    /\ UNCHANGED <<source, target, scope, owners, controls, plan, calls, faults>>

\* The import finds nothing to do when another caller made it meanwhile.
FinalTransfer(p) ==
    /\ At(p, "reconciling")
    /\ ~Reconciled(p)
    /\ transferOwner = Nobody
    /\ MayImport(plan[p])
    /\ transferOwner' = p
    /\ Goto(p, "importing")
    /\ UNCHANGED <<source, target, scope, controllerOwner, controls, plan, calls, faults>>

\* The rows are compared once more in the transaction that activates them.
Activatable(p) == ~Active /\ Rows = 1 .. plan[p].cutoff

Activate(p) ==
    /\ At(p, "reconciled")
    /\ Activatable(p)
    /\ activePlan' = plan[p]
    /\ baseline' = cursor
    /\ Goto(p, "activated")
    /\ UNCHANGED <<source, cursor, receipts, routed, events, scope, owners,
                   controls, plan, calls, faults>>

\* A routing that was switched before keeps its ACK.
SwitchRoute(p) ==
    route' = IF route.destination = "SOURCE"
             THEN [destination |-> "TARGET", acked |-> FALSE]
             ELSE route

Route(p) ==
    /\ At(p, "activated")
    /\ Continuable(p)
    /\ Diagnosis # "UNKNOWN"
    /\ SwitchRoute(p)
    /\ Goto(p, "routing")
    /\ UNCHANGED <<source, target, retained, lease, owners, controls, plan, calls, faults>>

MarkRouted(p) ==
    /\ At(p, "routing")
    /\ routed' = (routed \/ activePlan = plan[p])
    /\ Goto(p, "routed")
    /\ UNCHANGED <<source, cursor, receipts, activePlan, baseline, events, scope,
                   owners, controls, plan, calls, faults>>

Acknowledge(p) ==
    /\ At(p, "routed")
    /\ Continuable(p)
    /\ route.destination = "TARGET"
    /\ route' = [route EXCEPT !.acked = TRUE]
    /\ Goto(p, "acked")
    /\ UNCHANGED <<source, target, retained, lease, owners, controls, plan, calls, faults>>

\* The final readback; the lease is given back.
Finish(p) ==
    /\ At(p, "acked")
    /\ GiveBack(p)
    /\ UNCHANGED faults

-----------------------------------------------------------------------------
(* Target writers *)

\* authorizePan473TargetWrite, and the binding of the write's task.
StartTargetWrite(p) ==
    /\ At(p, "idle")
    /\ Diagnosis = "ACTIVE"
    /\ Stop \notin controls
    /\ controllerOwner = Nobody
    /\ controllerOwner' = p
    /\ Goto(p, "tBinding")
    /\ UNCHANGED <<source, target, scope, transferOwner, controls, plan, calls, faults>>

\* targetTransaction: gate, guards, routing and room for one more event.
TargetReady ==
    /\ Diagnosis = "ACTIVE"
    /\ baseline + Len(events) < EventLimit

\* Slip: a correction looks at the field's current value only.
CorrectableNow == IF events = <<>> THEN TRUE ELSE events[Len(events)].value = Original

\* The field still has its original value, and had it all the time.
Correctable == UntouchedBefore(Len(events) + 1)

AppendTarget(p, kind, v) ==
    /\ At(p, "tBound")
    /\ TargetReady
    /\ events' = Append(events, [kind |-> kind, value |-> v])
    /\ Goto(p, "idle")
    /\ UNCHANGED <<source, cursor, receipts, activePlan, baseline, routed, scope,
                   owners, controls, plan, calls, faults>>

WriteTarget(p, v) == AppendTarget(p, "WRITE", v)

CorrectField(p, v) == Correctable /\ AppendTarget(p, "FORWARD_CORRECTION", v)

-----------------------------------------------------------------------------
\* A check says no: the call is denied, whatever step it had reached.
Denied(p) ==
    /\ \/ At(p, "writing") /\ ~Writable
       \/ At(p, "importing") /\ ~TargetOpen
       \/ At(p, "captured") /\ ~Admissible(p)
       \/ At(p, "bound") /\ ~Leasable(p)
       \/ At(p, "leased") /\ ~Fenceable(p)
       \/ At(p, "fenced") /\ ~(Continuable(p) /\ activePlan \in {NoPlan, plan[p]})
       \/ At(p, "reconciling") /\ ~Reconciled(p)
             /\ (transferOwner # Nobody \/ ~MayImport(plan[p]))
       \/ At(p, "reconciled") /\ ~Activatable(p)
       \/ At(p, "activated") /\ ~(Continuable(p) /\ Diagnosis # "UNKNOWN")
       \/ At(p, "routed") /\ ~(Continuable(p) /\ route.destination = "TARGET")
       \/ At(p, "tBound") /\ ~(TargetReady /\ Correctable)
    /\ GiveBack(p)
    /\ UNCHANGED faults

-----------------------------------------------------------------------------
\* The steps a process takes once it is inside a call.
Continue(p) ==
    \/ WriteSource(p) \/ CommitImport(p) \/ EndTransfer(p)
    \/ Bind(p) \/ Bound(p) \/ TakeController(p) \/ FenceSource(p) \/ ReadGate(p)
    \/ Reconcile(p) \/ FinalTransfer(p) \/ Activate(p)
    \/ Route(p) \/ MarkRouted(p) \/ Acknowledge(p) \/ Finish(p)
    \/ \E v \in Value : WriteTarget(p, v) \/ CorrectField(p, v)
    \/ Denied(p)

Next ==
    \/ NativeBatch
    \/ \E c \in {Stop} \cup ({plan[p] : p \in Proc} \ {NoPlan}) : Control(c)
    \/ \E p \in Proc :
          \/ StartWrite(p) \/ \E q \in Plan : StartImport(p, q)
          \/ Capture(p) \/ Recover(p) \/ StartTargetWrite(p)
          \/ Continue(p)
          \/ Fail(p) \/ Kill(p)

\* A call inside a process runs on; the operator asks for a recovery again.
Fairness ==
    \A p \in Proc : WF_vars(Continue(p)) /\ WF_vars(Recover(p))

Spec == Init /\ [][Next]_vars /\ Fairness

-----------------------------------------------------------------------------
Label == {"idle", "writing", "written", "importing", "imported", "captured", "binding",
          "bound", "leased", "fenced", "reconciling", "reconciled", "activated",
          "routing", "routed", "acked", "tBinding", "tBound"}
Owner == Proc \cup {Nobody, Gone}
Event == [kind : {"WRITE", "FORWARD_CORRECTION"}, value : Value]

TypeOK ==
    /\ head \in Nat
    /\ fencePlan \in Plan \cup {NoPlan}
    /\ cursor \in 0 .. EventLimit
    /\ receipts \subseteq [from : 0 .. EventLimit, cutoff : Cutoff]
    /\ activePlan \in Plan \cup {NoPlan}
    /\ baseline \in 0 .. EventLimit
    /\ routed \in BOOLEAN
    /\ events \in Seq(Event)
    /\ route \in [destination : {"SOURCE", "TARGET"}, acked : BOOLEAN]
    /\ retained \in Plan \cup {NoPlan}
    /\ lease \in Owner /\ transferOwner \in Owner /\ controllerOwner \in Owner
    /\ controls \subseteq {Stop} \cup Plan
    /\ pc \in [Proc -> Label]
    /\ plan \in [Proc -> Plan \cup {NoPlan}]
    /\ calls \in Nat /\ faults \in Nat

\* Once the target is activated it stands on every batch the source ever
\* accepted, imported without a gap or an overlap: no write is lost between
\* the plan's cutoff, the fence and the activation.
NothingLost ==
    Active =>
        /\ baseline = head
        /\ Rows = 1 .. head
        /\ \A r, s \in receipts : r = s \/ r.cutoff <= s.from \/ s.cutoff <= r.from

\* Wherever a controller is killed or fails once the source is fenced, the
\* independent diagnosis finds a held state or the active one: never UNKNOWN,
\* from which no recovery may start.
Diagnosable == Fenced => Diagnosis # "UNKNOWN"

\* The right to write passes from the source over nobody to the target.
Complete == Active /\ routed /\ route = [destination |-> "TARGET", acked |-> TRUE]

H == INSTANCE WriterHandover WITH
    writer <- IF ~Fenced THEN "SOURCE" ELSE IF Complete THEN "TARGET" ELSE "NONE",
    history <- head,
    start <- IF Complete THEN baseline ELSE 0,
    work <- Len(events)

\* The three files and their gates do what WriterHandover promises, under
\* any interleaving of controllers, writers, importers and kills.
HandsOver == H!Init /\ [][H!Next]_H!vars

\* A fenced source is followed by an active target if the operator goes on
\* asking for a recovery, unless a control denies the operation or a killed
\* process left the marker of a journal the cut-over still needs.
Stranded ==
    \/ controls # {}
    \/ controllerOwner = Gone
    \/ transferOwner = Gone /\ cursor < head
    \/ retained.from # cursor /\ cursor < head

FenceIsFollowed == Fenced ~> (Complete \/ Stranded)

\* docs/architecture/pan473-writer-scope-cutover-v1.md:33, MIG-03-AC02: "Fresh
\* recovery completes one epoch".  A fenced source is followed by an active
\* target unless the operator stopped or revoked the operation.
RecoveryCompletes == Fenced ~> (Complete \/ controls # {})
=============================================================================
