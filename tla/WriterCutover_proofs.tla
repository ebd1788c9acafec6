------------------------- MODULE WriterCutover_proofs ------------------------
(* What TLAPS proves of the cut-over for any number of processes, any bound  *)
(* on the history, any sound cutoffs and any values of a corrected field.    *)
EXTENDS WriterCutover, TLAPS

-----------------------------------------------------------------------------
(* The inductive invariant: who works for which plan, and what each stage of *)
(* the hand-over has made true.                                              *)

CutoverLabel == {"leased", "fenced", "reconciling", "reconciled", "activated",
                 "routing", "routed", "acked"}

\* The lease is held by the one controller inside the cut-over, for the
\* retained plan, and only a plan with a sound cutoff gets that far.
LeaseKept ==
  /\ \A p \in Proc : pc[p] \in CutoverLabel => lease = p
  /\ \A p \in Proc : lease = p => /\ pc[p] \in CutoverLabel \cup {"importing", "imported"}
                                  /\ plan[p] = retained
                                  /\ retained \in Plan
  /\ \A p \in Proc : pc[p] \in {"captured", "binding", "bound"} =>
                        plan[p] \in Plan /\ plan[p].cutoff \in Sound
  /\ retained # NoPlan => retained \in Plan /\ retained.cutoff \in Sound

\* The fence is for the retained plan and the head does not move any more.
FenceKept ==
  /\ Fenced => fencePlan = retained /\ fencePlan.cutoff = head
  /\ \A p \in Proc : lease = p /\ pc[p] # "leased" => Fenced

\* What was imported is one gapless history up to the cursor.
ImportKept ==
  /\ cursor <= head
  /\ cursor = 0 => receipts = {}
  /\ cursor > 0 => cursor \in Sound /\ \E r \in receipts : r.cutoff = cursor
  /\ Rows = 1 .. cursor
  /\ \A r \in receipts : r.from < r.cutoff /\ r.cutoff <= cursor
  /\ \A r, s \in receipts : r = s \/ r.cutoff <= s.from \/ s.cutoff <= r.from

\* One caller at a time imports, and its range continues what is there.
CallersKept ==
  /\ \A p \in Proc : pc[p] \in {"writing", "written", "importing", "imported"} => transferOwner = p
  /\ \A p \in Proc : pc[p] = "importing" => /\ plan[p] \in Plan
                                            /\ plan[p].cutoff \in Sound
                                            /\ plan[p].from = cursor
                                            /\ plan[p].from < plan[p].cutoff
                                            /\ plan[p].cutoff <= head

\* The target is activated on the fenced head, and is untouched before.
ActivationKept ==
  /\ Active => Fenced /\ activePlan = retained /\ baseline = head /\ cursor = head
  /\ Active => head + Len(events) <= EventLimit
  /\ ~Active => /\ baseline = 0 /\ ~routed /\ events = <<>>
                /\ route = [destination |-> "SOURCE", acked |-> TRUE]
  /\ \A p \in Proc : pc[p] = "reconciled" => cursor = head
  /\ \A p \in Proc : pc[p] \in {"activated", "routing", "routed", "acked"} => Active

\* Routing is acknowledged after the target's gate was marked.
RouteKept ==
  /\ route.destination = "SOURCE" => route.acked /\ ~routed
  /\ route.destination = "TARGET" /\ route.acked => routed
  /\ \A p \in Proc : pc[p] \in {"routing", "routed", "acked"} => route.destination = "TARGET"
  /\ \A p \in Proc : pc[p] \in {"routed", "acked"} => routed

\* No correction overwrites later work.
CorrectionsKept ==
  \A i \in 1 .. Len(events) : events[i].kind = "FORWARD_CORRECTION" => UntouchedBefore(i)

IInv == TypeOK /\ LeaseKept /\ FenceKept /\ ImportKept /\ CallersKept
          /\ ActivationKept /\ RouteKept /\ CorrectionsKept

-----------------------------------------------------------------------------
(* No plan is not a plan. *)
LEMMA NoPlanIsNone == NoPlan \notin Plan /\ \A q \in Plan : q # NoPlan
  BY DEF NoPlan, Plan, Cutoff

(* A call that ends, or is killed, changes nothing but what it held. *)
LEMMA CallEnds ==
  ASSUME TypeOK, NEW p \in Proc, GiveBack(p) \/ Kill(p)
  PROVE  /\ UNCHANGED <<source, target, route, retained, controls, calls>>
         /\ pc' = [pc EXCEPT ![p] = "idle"]
         /\ plan' = [plan EXCEPT ![p] = NoPlan]
         /\ lease' \in Owner /\ transferOwner' \in Owner /\ controllerOwner' \in Owner
         /\ lease' # p /\ transferOwner' # p
         /\ \A q \in Proc \ {p} : /\ lease' = q <=> lease = q
                                  /\ transferOwner' = q <=> transferOwner = q
<1>1. UNCHANGED <<source, target, route, retained, controls, calls>>
  BY DEF GiveBack, Kill
<1>2. pc' = [pc EXCEPT ![p] = "idle"] /\ plan' = [plan EXCEPT ![p] = NoPlan]
  BY DEF GiveBack, Kill, Goto
<1>3. /\ lease' \in {Freed(lease, p), Orphaned(lease, p)}
      /\ transferOwner' \in {Freed(transferOwner, p), Orphaned(transferOwner, p)}
      /\ controllerOwner' \in {Freed(controllerOwner, p), Orphaned(controllerOwner, p)}
  BY DEF GiveBack, Kill
<1> QED
  BY <1>1, <1>2, <1>3, OwnersAssumption DEF Freed, Orphaned, TypeOK, Owner

(* Every denial and every end of a call gives back what it held. *)
LEMMA DeniedEnds ==
  ASSUME NEW p \in Proc, Fail(p) \/ Finish(p) \/ Denied(p)
  PROVE  GiveBack(p)
  BY DEF Fail, Finish, Denied

(* Who holds the lease, and for which plan. *)
LEMMA LeaseStep == IInv /\ [Next]_vars => LeaseKept'
<1> SUFFICES ASSUME IInv, [Next]_vars PROVE LeaseKept'
  OBVIOUS
<1> USE OwnersAssumption, BoundsAssumption, NoPlanIsNone DEF IInv, TypeOK, LeaseKept,
        CutoverLabel
<1>1. CASE UNCHANGED vars
  BY <1>1 DEF vars, source, target, scope, owners, local
<1>2. CASE NativeBatch
  BY <1>2 DEF NativeBatch, target, scope, owners, local
<1>3. ASSUME NEW c \in {Stop} \cup ({plan[p] : p \in Proc} \ {NoPlan}), Control(c)
      PROVE  LeaseKept'
  BY <1>3 DEF Control, source, target, scope, owners, local
<1>4. ASSUME NEW p \in Proc, StartWrite(p) \/ WriteSource(p) \/ StartTargetWrite(p) \/ Bound(p)
      PROVE  LeaseKept'
  BY <1>4 DEF StartWrite, WriteSource, StartTargetWrite, Bound, At, Goto, source, target, scope,
     owners, local
<1>5. ASSUME NEW p \in Proc, EndTransfer(p) \/ CommitImport(p) \/ \E q \in Plan : StartImport(p, q)
      PROVE  LeaseKept'
  BY <1>5 DEF StartImport, EndTransfer, CommitImport, At, Goto, source, target, scope, owners,
     local
<1>6. ASSUME NEW p \in Proc, Recover(p) \/ Bind(p)
      PROVE  LeaseKept'
  BY <1>6 DEF Recover, Bind, At, Goto, source, target, scope, owners, local
<1>7. ASSUME NEW p \in Proc, TakeController(p) \/ FenceSource(p)
      PROVE  LeaseKept'
  BY <1>7 DEF TakeController, Leasable, LeaseDown, FenceSource, At, Goto, source, target, scope,
     owners, local
<1>8. ASSUME NEW p \in Proc, ReadGate(p) \/ Reconcile(p) \/ FinalTransfer(p) \/ Activate(p)
      PROVE  LeaseKept'
  BY <1>8 DEF ReadGate, Reconcile, FinalTransfer, Activate, At, Goto, source, target, scope,
     owners, local
<1>9. ASSUME NEW p \in Proc, Route(p) \/ MarkRouted(p) \/ Acknowledge(p)
      PROVE  LeaseKept'
  BY <1>9 DEF Route, MarkRouted, Acknowledge, At, Goto, source, target, scope, owners, local
<1>10. ASSUME NEW p \in Proc, Capture(p) PROVE LeaseKept'
  <2>1. [cutoff |-> head, from |-> cursor] \in Plan /\ head \in Sound
    BY <1>10 DEF Capture, Plan, Cutoff, ImportKept
  <2> QED
    BY <1>10, <2>1 DEF Capture, At, Goto, target, scope, source, owners
<1>11. ASSUME NEW p \in Proc, NEW v \in Value, NEW kind \in {"WRITE", "FORWARD_CORRECTION"},
             AppendTarget(p, kind, v)
      PROVE  LeaseKept'
  BY <1>11 DEF AppendTarget, At, Goto, source, target, scope, owners, local
<1>12. ASSUME NEW p \in Proc, GiveBack(p) \/ Kill(p) PROVE LeaseKept'
  BY <1>12, CallEnds DEF source, target
<1> QED
  BY <1>1, <1>2, <1>3, <1>4, <1>5, <1>6, <1>7, <1>8, <1>9, <1>10, <1>11, <1>12, DeniedEnds
     DEF Next, Continue, WriteTarget, CorrectField

(* The fence follows the retained plan. *)
LEMMA FenceStep == IInv /\ [Next]_vars => FenceKept'
<1> SUFFICES ASSUME IInv, [Next]_vars PROVE FenceKept'
  OBVIOUS
<1> USE OwnersAssumption, BoundsAssumption, NoPlanIsNone DEF IInv, TypeOK, LeaseKept,
        FenceKept, CutoverLabel, Fenced
<1>1. CASE UNCHANGED vars
  BY <1>1 DEF vars, source, target, scope, owners, local
<1>2. CASE NativeBatch
  BY <1>2 DEF NativeBatch, SourceOpen, target, scope, owners, local
<1>3. ASSUME NEW c \in {Stop} \cup ({plan[p] : p \in Proc} \ {NoPlan}), Control(c)
      PROVE  FenceKept'
  BY <1>3 DEF Control, source, target, scope, owners, local
<1>4. ASSUME NEW p \in Proc, StartWrite(p) \/ WriteSource(p) \/ StartTargetWrite(p) \/ Bound(p)
      PROVE  FenceKept'
  BY <1>4 DEF StartWrite, WriteSource, Writable, SourceOpen, StartTargetWrite, Bound, At, Goto,
     source, target, scope, owners, local
<1>5. ASSUME NEW p \in Proc, EndTransfer(p) \/ CommitImport(p) \/ \E q \in Plan : StartImport(p, q)
      PROVE  FenceKept'
  BY <1>5 DEF StartImport, EndTransfer, CommitImport, At, Goto, source, target, scope, owners,
     local
<1>6. ASSUME NEW p \in Proc, Capture(p) \/ Recover(p) \/ Bind(p)
      PROVE  FenceKept'
  BY <1>6 DEF Capture, Recover, Bind, At, Goto, source, target, scope, owners, local
<1>7. ASSUME NEW p \in Proc, TakeController(p) \/ FenceSource(p)
      PROVE  FenceKept'
  BY <1>7 DEF TakeController, Leasable, LeaseDown, FenceSource, Fenceable, At, Goto, source,
     target, scope, owners, local
<1>8. ASSUME NEW p \in Proc, ReadGate(p) \/ Reconcile(p) \/ FinalTransfer(p) \/ Activate(p)
      PROVE  FenceKept'
  BY <1>8 DEF ReadGate, Reconcile, FinalTransfer, Activate, At, Goto, source, target, scope,
     owners, local
<1>9. ASSUME NEW p \in Proc, Route(p) \/ MarkRouted(p) \/ Acknowledge(p)
      PROVE  FenceKept'
  BY <1>9 DEF Route, MarkRouted, Acknowledge, At, Goto, source, target, scope, owners, local
<1>10. ASSUME NEW p \in Proc, NEW v \in Value, NEW kind \in {"WRITE", "FORWARD_CORRECTION"},
             AppendTarget(p, kind, v)
      PROVE  FenceKept'
  BY <1>10 DEF AppendTarget, At, Goto, source, target, scope, owners, local
<1>11. ASSUME NEW p \in Proc, GiveBack(p) \/ Kill(p) PROVE FenceKept'
  BY <1>11, CallEnds DEF source, target
<1> QED
  BY <1>1, <1>2, <1>3, <1>4, <1>5, <1>6, <1>7, <1>8, <1>9, <1>10, <1>11, DeniedEnds
     DEF Next, Continue, WriteTarget, CorrectField

(* Who imports, and from where. *)
LEMMA CallersStep == IInv /\ [Next]_vars => CallersKept'
<1> SUFFICES ASSUME IInv, [Next]_vars PROVE CallersKept'
  OBVIOUS
<1> USE OwnersAssumption, BoundsAssumption DEF IInv, TypeOK, LeaseKept, CallersKept,
        CutoverLabel
<1>1. CASE UNCHANGED vars
  BY <1>1 DEF vars, source, target, scope, owners, local
<1>2. CASE NativeBatch
  <2>1. head' = head + 1 /\ UNCHANGED <<cursor, pc, plan, transferOwner>>
    BY <1>2 DEF NativeBatch, target, owners, local
  <2>2. \A q \in Plan : q.cutoff \in Nat
    BY DEF Plan, Cutoff
  <2> QED
    BY <2>1, <2>2
<1>3. ASSUME NEW c \in {Stop} \cup ({plan[p] : p \in Proc} \ {NoPlan}), Control(c)
      PROVE  CallersKept'
  BY <1>3 DEF Control, source, target, scope, owners, local
<1>4. ASSUME NEW p \in Proc, StartWrite(p) \/ WriteSource(p) \/ StartTargetWrite(p) \/ Bound(p)
      PROVE  CallersKept'
  BY <1>4 DEF StartWrite, OwnTransfer, WriteSource, Writable, SourceOpen, StartTargetWrite, Bound,
     At, Goto, source, target, scope, owners, local
<1>5. ASSUME NEW p \in Proc, EndTransfer(p) \/ CommitImport(p) \/ \E q \in Plan : StartImport(p, q)
      PROVE  CallersKept'
  BY <1>5 DEF StartImport, OwnTransfer, MayImport, Importable, Continues, EndTransfer, Freed,
     CommitImport, At, Goto, source, target, scope, owners, local
<1>6. ASSUME NEW p \in Proc, Capture(p) \/ Recover(p) \/ Bind(p)
      PROVE  CallersKept'
  BY <1>6 DEF Capture, Recover, Bind, At, Goto, source, target, scope, owners, local
<1>7. ASSUME NEW p \in Proc, TakeController(p) \/ FenceSource(p)
      PROVE  CallersKept'
  BY <1>7 DEF TakeController, FenceSource, At, Goto, source, target, scope, owners, local
<1>8. ASSUME NEW p \in Proc, ReadGate(p) \/ Reconcile(p) \/ FinalTransfer(p) \/ Activate(p)
      PROVE  CallersKept'
  BY <1>8 DEF ReadGate, Reconcile, FinalTransfer, MayImport, Importable, Continues, Activate, At,
     Goto, source, target, scope, owners, local
<1>9. ASSUME NEW p \in Proc, Route(p) \/ MarkRouted(p) \/ Acknowledge(p)
      PROVE  CallersKept'
  BY <1>9 DEF Route, MarkRouted, Acknowledge, At, Goto, source, target, scope, owners, local
<1>10. ASSUME NEW p \in Proc, NEW v \in Value, NEW kind \in {"WRITE", "FORWARD_CORRECTION"},
             AppendTarget(p, kind, v)
      PROVE  CallersKept'
  BY <1>10 DEF AppendTarget, At, Goto, source, target, scope, owners, local
<1>11. ASSUME NEW p \in Proc, GiveBack(p) \/ Kill(p) PROVE CallersKept'
  BY <1>11, CallEnds DEF source, target
<1> QED
  BY <1>1, <1>2, <1>3, <1>4, <1>5, <1>6, <1>7, <1>8, <1>9, <1>10, <1>11, DeniedEnds
     DEF Next, Continue, WriteTarget, CorrectField

(* Only a commit of an import changes what was imported; the head only rises. *)
LEMMA ImportMoves ==
  ASSUME TypeOK, [Next]_vars
  PROVE  \/ UNCHANGED <<cursor, receipts>> /\ head' \in {head, head + 1}
         \/ \E p \in Proc : CommitImport(p)
<1> USE DEF source, target, scope, owners, local
<1>1. CASE UNCHANGED vars
  BY <1>1 DEF vars
<1>2. CASE NativeBatch \/ \E c \in {Stop} \cup ({plan[p] : p \in Proc} \ {NoPlan}) : Control(c)
  BY <1>2 DEF NativeBatch, Control
<1>3. ASSUME NEW p \in Proc, GiveBack(p) \/ Kill(p)
      PROVE  UNCHANGED <<cursor, receipts, head>>
  BY <1>3 DEF GiveBack, Kill
<1>4. ASSUME NEW p \in Proc,
             \/ StartWrite(p) \/ Capture(p) \/ Recover(p) \/ StartTargetWrite(p)
             \/ EndTransfer(p) \/ Bind(p) \/ Bound(p) \/ TakeController(p)
             \/ \E q \in Plan : StartImport(p, q)
      PROVE  UNCHANGED <<cursor, receipts, head>>
  BY <1>4 DEF StartWrite, StartImport, Capture, Recover, StartTargetWrite, EndTransfer, Bind,
              Bound, TakeController
<1>5. ASSUME NEW p \in Proc,
             \/ FenceSource(p) \/ ReadGate(p) \/ Reconcile(p) \/ FinalTransfer(p) \/ Activate(p)
             \/ Route(p) \/ MarkRouted(p) \/ Acknowledge(p)
             \/ \E v \in Value : WriteTarget(p, v) \/ CorrectField(p, v)
      PROVE  UNCHANGED <<cursor, receipts, head>>
  BY <1>5 DEF FenceSource, ReadGate, Reconcile, FinalTransfer, Activate, Route, MarkRouted,
              Acknowledge, WriteTarget, CorrectField, AppendTarget
<1>6. ASSUME NEW p \in Proc, WriteSource(p)
      PROVE  UNCHANGED <<cursor, receipts>> /\ head' = head + 1
  BY <1>6 DEF WriteSource
<1> QED
  BY <1>1, <1>2, <1>3, <1>4, <1>5, <1>6, DeniedEnds DEF Next, Continue

(* The target is imported without a gap or an overlap. *)
LEMMA ImportStep == IInv /\ [Next]_vars => ImportKept'
<1> SUFFICES ASSUME IInv, [Next]_vars PROVE ImportKept'
  OBVIOUS
<1>1. CASE UNCHANGED <<cursor, receipts>> /\ head' \in {head, head + 1}
  BY <1>1 DEF IInv, TypeOK, ImportKept, Rows
<1>2. ASSUME NEW p \in Proc, CommitImport(p) PROVE ImportKept'
  <2> DEFINE new == [from |-> plan[p].from, cutoff |-> plan[p].cutoff]
  <2>1. /\ receipts' = receipts \cup {new} /\ cursor' = plan[p].cutoff /\ head' = head
        /\ plan[p] \in Plan /\ plan[p].cutoff \in Sound
        /\ plan[p].from = cursor /\ plan[p].from < plan[p].cutoff /\ plan[p].cutoff <= head
    BY <1>2 DEF CommitImport, AsReceipt, At, IInv, CallersKept, source
  <2>2. /\ cursor \in Nat /\ cursor' \in Nat /\ cursor' > 0
        /\ new.from = cursor /\ new.cutoff = cursor'
    BY <2>1, BoundsAssumption DEF IInv, TypeOK, Plan, Cutoff
  <2>3. Rows' = Rows \cup ((new.from + 1) .. new.cutoff)
    BY <2>1 DEF Rows
  <2>4. Rows' = 1 .. cursor'
    BY <2>1, <2>2, <2>3 DEF IInv, ImportKept
  <2>5. \A r \in receipts : /\ r.from \in Nat /\ r.cutoff \in Nat
                            /\ r.from < r.cutoff /\ r.cutoff <= cursor
    BY BoundsAssumption DEF IInv, TypeOK, ImportKept, Cutoff
  <2>6. \A r \in receipts' : r.from < r.cutoff /\ r.cutoff <= cursor'
    BY <2>1, <2>2, <2>5
  <2>7. \A r, s \in receipts' : r = s \/ r.cutoff <= s.from \/ s.cutoff <= r.from
    BY <2>1, <2>2, <2>5 DEF IInv, ImportKept
  <2>8. cursor' \in Sound /\ \E r \in receipts' : r.cutoff = cursor'
    BY <2>1, <2>2
  <2> QED
    BY <2>1, <2>2, <2>4, <2>6, <2>7, <2>8 DEF ImportKept
<1> QED
  BY <1>1, <1>2, ImportMoves DEF IInv

(* The target is activated on the fenced head. *)
LEMMA ActivationStep == IInv /\ [Next]_vars => ActivationKept'
<1> SUFFICES ASSUME IInv, [Next]_vars PROVE ActivationKept'
  OBVIOUS
<1> USE NoPlanIsNone DEF IInv, TypeOK, LeaseKept, FenceKept, ActivationKept, CutoverLabel,
        Fenced, Active
<1>1. CASE UNCHANGED vars
  BY <1>1 DEF vars, source, target, scope, owners, local
<1>2. CASE NativeBatch
  BY <1>2 DEF NativeBatch, SourceOpen, target, scope, owners, local
<1>3. ASSUME NEW c \in {Stop} \cup ({plan[p] : p \in Proc} \ {NoPlan}), Control(c)
      PROVE  ActivationKept'
  BY <1>3 DEF Control, source, target, scope, owners, local
<1>4. ASSUME NEW p \in Proc, StartWrite(p) \/ WriteSource(p) \/ StartTargetWrite(p) \/ Bound(p)
      PROVE  ActivationKept'
  BY <1>4 DEF StartWrite, WriteSource, Writable, SourceOpen, StartTargetWrite, Bound, At, Goto,
     source, target, scope, owners, local
<1>5. ASSUME NEW p \in Proc, EndTransfer(p) \/ \E q \in Plan : StartImport(p, q)
      PROVE  ActivationKept'
  BY <1>5 DEF StartImport, EndTransfer, At, Goto, source, target, scope, owners, local
<1>6. ASSUME NEW p \in Proc, Capture(p) \/ Recover(p) \/ Bind(p)
      PROVE  ActivationKept'
  BY <1>6 DEF Capture, Recover, Bind, At, Goto, source, target, scope, owners, local
<1>7. ASSUME NEW p \in Proc, TakeController(p) \/ FenceSource(p)
      PROVE  ActivationKept'
  BY <1>7 DEF TakeController, Leasable, FenceSource, Fenceable, At, Goto, source, target, scope,
     owners, local
<1>8. ASSUME NEW p \in Proc, ReadGate(p) \/ Reconcile(p) \/ FinalTransfer(p) \/ Activate(p)
      PROVE  ActivationKept'
  <2>1. CASE ReadGate(p) \/ Reconcile(p) \/ FinalTransfer(p)
    BY <2>1 DEF ReadGate, Reconcile, Reconciled, FinalTransfer, At, Goto, source, target, scope,
       owners, local
  <2>2. CASE Activate(p)
    <3>1. ~Active /\ events = <<>> /\ UNCHANGED <<head, events>>
      BY <2>2 DEF Activate, Activatable, source
    <3>2. head + Len(events) <= EventLimit
      BY <2>2, <3>1, BoundsAssumption DEF Activate, At
    <3> QED
      BY <2>2, <3>1, <3>2 DEF Activate, Activatable, At, Goto, source, scope, owners
  <2> QED
    BY <1>8, <2>1, <2>2
<1>9. ASSUME NEW p \in Proc, Route(p) \/ MarkRouted(p) \/ Acknowledge(p)
      PROVE  ActivationKept'
  BY <1>9 DEF Route, MarkRouted, Acknowledge, At, Goto, source, target, scope, owners, local
<1>10. ASSUME NEW p \in Proc, CommitImport(p) PROVE ActivationKept'
  <2>1. ~Active /\ UNCHANGED <<activePlan, baseline, routed, events, route, head>>
    BY <1>10 DEF CommitImport, TargetOpen, source, scope
  <2>2. \A q \in Proc : pc[q] # "reconciled"
    BY <1>10, <2>1 DEF CommitImport, At, CallersKept, ImportKept, Plan, Cutoff
  <2> QED
    BY <1>10, <2>1, <2>2 DEF CommitImport, At, Goto, source, scope
<1>11. ASSUME NEW p \in Proc, NEW v \in Value, NEW kind \in {"WRITE", "FORWARD_CORRECTION"},
             AppendTarget(p, kind, v)
      PROVE  ActivationKept'
  <2>1. Active /\ baseline + Len(events) < EventLimit
    BY <1>11 DEF AppendTarget, TargetReady, Diagnosis
  <2>2. Len(events') = Len(events) + 1 /\ Len(events) \in Nat
    BY <1>11 DEF AppendTarget
  <2> QED
    BY <1>11, <2>1, <2>2, BoundsAssumption DEF AppendTarget, At, Goto, source, scope
<1>12. ASSUME NEW p \in Proc, GiveBack(p) \/ Kill(p) PROVE ActivationKept'
  BY <1>12, CallEnds DEF source, target
<1> QED
  BY <1>1, <1>2, <1>3, <1>4, <1>5, <1>6, <1>7, <1>8, <1>9, <1>10, <1>11, <1>12, DeniedEnds
     DEF Next, Continue, WriteTarget, CorrectField

(* Routing follows the activation. *)
LEMMA RouteStep == IInv /\ [Next]_vars => RouteKept'
<1> SUFFICES ASSUME IInv, [Next]_vars PROVE RouteKept'
  OBVIOUS
<1> USE NoPlanIsNone DEF IInv, TypeOK, LeaseKept, FenceKept, ActivationKept, RouteKept,
        CutoverLabel, Fenced, Active
<1>1. CASE UNCHANGED vars
  BY <1>1 DEF vars, source, target, scope, owners, local
<1>2. CASE NativeBatch
  BY <1>2 DEF NativeBatch, target, scope, owners, local
<1>3. ASSUME NEW c \in {Stop} \cup ({plan[p] : p \in Proc} \ {NoPlan}), Control(c)
      PROVE  RouteKept'
  BY <1>3 DEF Control, source, target, scope, owners, local
<1>4. ASSUME NEW p \in Proc, StartWrite(p) \/ WriteSource(p) \/ StartTargetWrite(p) \/ Bound(p)
      PROVE  RouteKept'
  BY <1>4 DEF StartWrite, WriteSource, StartTargetWrite, Bound, At, Goto, source, target, scope,
     owners, local
<1>5. ASSUME NEW p \in Proc, EndTransfer(p) \/ CommitImport(p) \/ \E q \in Plan : StartImport(p, q)
      PROVE  RouteKept'
  BY <1>5 DEF StartImport, EndTransfer, CommitImport, At, Goto, source, target, scope, owners,
     local
<1>6. ASSUME NEW p \in Proc, Capture(p) \/ Recover(p)
      PROVE  RouteKept'
  BY <1>6 DEF Capture, Recover, At, Goto, source, target, scope, owners, local
<1>7. ASSUME NEW p \in Proc, Bind(p)
      PROVE  RouteKept'
  BY <1>7 DEF Bind, At, Goto, source, target, scope, owners, local
<1>8. ASSUME NEW p \in Proc, TakeController(p) \/ FenceSource(p)
      PROVE  RouteKept'
  BY <1>8 DEF TakeController, FenceSource, At, Goto, source, target, scope, owners, local
<1>9. ASSUME NEW p \in Proc, ReadGate(p) \/ Reconcile(p) \/ FinalTransfer(p) \/ Activate(p)
      PROVE  RouteKept'
  BY <1>9 DEF ReadGate, Reconcile, FinalTransfer, Activate, At, Goto, source, target, scope,
     owners, local
<1>10. ASSUME NEW p \in Proc, Route(p)
      PROVE  RouteKept'
  BY <1>10 DEF Route, SwitchRoute, At, Goto, source, target, scope, owners, local
<1>11. ASSUME NEW p \in Proc, MarkRouted(p)
      PROVE  RouteKept'
  BY <1>11 DEF MarkRouted, At, Goto, source, target, scope, owners, local
<1>12. ASSUME NEW p \in Proc, Acknowledge(p)
      PROVE  RouteKept'
  BY <1>12 DEF Acknowledge, At, Goto, source, target, scope, owners, local
<1>13. ASSUME NEW p \in Proc, NEW v \in Value, NEW kind \in {"WRITE", "FORWARD_CORRECTION"},
             AppendTarget(p, kind, v)
      PROVE  RouteKept'
  BY <1>13 DEF AppendTarget, At, Goto, source, target, scope, owners, local
<1>14. ASSUME NEW p \in Proc, GiveBack(p) \/ Kill(p) PROVE RouteKept'
  BY <1>14, CallEnds DEF source, target
<1> QED
  BY <1>1, <1>2, <1>3, <1>4, <1>5, <1>6, <1>7, <1>8, <1>9, <1>10, <1>11, <1>12, <1>13, <1>14,
     DeniedEnds
     DEF Next, Continue, WriteTarget, CorrectField

(* Only a target writer, once the scope is active, changes the events. *)
LEMMA EventsMove ==
  ASSUME TypeOK, [Next]_vars
  PROVE  \/ UNCHANGED events
         \/ \E p \in Proc, v \in Value, kind \in {"WRITE", "FORWARD_CORRECTION"} :
               AppendTarget(p, kind, v) /\ (kind = "FORWARD_CORRECTION" => Correctable)
<1> USE DEF source, target, scope, owners, local
<1>1. CASE UNCHANGED vars
  BY <1>1 DEF vars
<1>2. CASE NativeBatch \/ \E c \in {Stop} \cup ({plan[p] : p \in Proc} \ {NoPlan}) : Control(c)
  BY <1>2 DEF NativeBatch, Control
<1>3. ASSUME NEW p \in Proc, GiveBack(p) \/ Kill(p)
      PROVE  UNCHANGED events
  BY <1>3 DEF GiveBack, Kill
<1>4. ASSUME NEW p \in Proc,
             \/ StartWrite(p) \/ Capture(p) \/ Recover(p) \/ StartTargetWrite(p)
             \/ EndTransfer(p) \/ Bind(p) \/ Bound(p) \/ TakeController(p)
             \/ WriteSource(p) \/ CommitImport(p)
             \/ \E q \in Plan : StartImport(p, q)
      PROVE  UNCHANGED events
  BY <1>4 DEF StartWrite, StartImport, Capture, Recover, StartTargetWrite, EndTransfer, Bind,
              Bound, TakeController, WriteSource, CommitImport
<1>5. ASSUME NEW p \in Proc,
             \/ FenceSource(p) \/ ReadGate(p) \/ Reconcile(p) \/ FinalTransfer(p) \/ Activate(p)
             \/ Route(p) \/ MarkRouted(p) \/ Acknowledge(p)
      PROVE  UNCHANGED events
  BY <1>5 DEF FenceSource, ReadGate, Reconcile, FinalTransfer, Activate, Route, MarkRouted,
              Acknowledge
<1>6. ASSUME NEW p \in Proc, NEW v \in Value, WriteTarget(p, v) \/ CorrectField(p, v)
      PROVE  \E kind \in {"WRITE", "FORWARD_CORRECTION"} :
                AppendTarget(p, kind, v) /\ (kind = "FORWARD_CORRECTION" => Correctable)
  BY <1>6 DEF WriteTarget, CorrectField
<1> QED
  BY <1>1, <1>2, <1>3, <1>4, <1>5, <1>6, DeniedEnds DEF Next, Continue

(* A correction is of a field that no later work touched. *)
LEMMA CorrectionsStep == IInv /\ [Next]_vars => CorrectionsKept'
<1> SUFFICES ASSUME IInv, [Next]_vars PROVE CorrectionsKept'
  OBVIOUS
<1>1. CASE UNCHANGED events
  BY <1>1 DEF IInv, CorrectionsKept, UntouchedBefore
<1>2. ASSUME NEW p \in Proc, NEW v \in Value, NEW kind \in {"WRITE", "FORWARD_CORRECTION"},
             AppendTarget(p, kind, v), kind = "FORWARD_CORRECTION" => Correctable
      PROVE  CorrectionsKept'
  <2> DEFINE e == [kind |-> kind, value |-> v]
  <2>1. events' = Append(events, e) /\ events \in Seq(Event)
    BY <1>2 DEF AppendTarget, IInv, TypeOK
  <2>2. /\ Len(events) \in Nat /\ Len(events') = Len(events) + 1
        /\ \A i \in 1 .. Len(events) : events'[i] = events[i]
        /\ events'[Len(events) + 1] = e
    BY <2>1
  <2>3. \A i \in 1 .. Len(events) + 1 : UntouchedBefore(i)' <=> UntouchedBefore(i)
    BY <2>2 DEF UntouchedBefore
  <2>4. ASSUME NEW i \in 1 .. Len(events'), events'[i].kind = "FORWARD_CORRECTION"
        PROVE  UntouchedBefore(i)'
    <3>1. CASE i = Len(events) + 1
      BY <1>2, <2>2, <2>3, <2>4, <3>1 DEF Correctable
    <3>2. CASE i \in 1 .. Len(events)
      BY <2>2, <2>3, <2>4, <3>2 DEF IInv, CorrectionsKept
    <3> QED
      BY <2>2, <3>1, <3>2
  <2> QED
    BY <2>4 DEF CorrectionsKept
<1> QED
  BY <1>1, <1>2, EventsMove DEF IInv

(* Every step keeps the shape of the state. *)
LEMMA TypeStep == IInv /\ [Next]_vars => TypeOK'
<1> SUFFICES ASSUME IInv, [Next]_vars PROVE TypeOK'
  OBVIOUS
<1> USE OwnersAssumption, BoundsAssumption, NoPlanIsNone DEF IInv, TypeOK, LeaseKept,
        CallersKept, CutoverLabel, Label, Owner
<1>1. CASE UNCHANGED vars
  BY <1>1 DEF vars, source, target, scope, owners, local
<1>2. CASE NativeBatch
  BY <1>2 DEF NativeBatch, SourceOpen, target, scope, owners, local
<1>3. ASSUME NEW c \in {Stop} \cup ({plan[p] : p \in Proc} \ {NoPlan}), Control(c)
      PROVE  TypeOK'
  BY <1>3 DEF Control, source, target, scope, owners, local
<1>4. ASSUME NEW p \in Proc, StartWrite(p) \/ WriteSource(p) \/ StartTargetWrite(p)
      PROVE  TypeOK'
  BY <1>4 DEF StartWrite, OwnTransfer, WriteSource, Writable, SourceOpen, StartTargetWrite, At,
     Goto, source, target, scope, owners, local
<1>5. ASSUME NEW p \in Proc, EndTransfer(p) \/ \E q \in Plan : StartImport(p, q)
      PROVE  TypeOK'
  BY <1>5 DEF StartImport, OwnTransfer, EndTransfer, Freed, At, Goto, source, target, scope,
     owners, local
<1>6. ASSUME NEW p \in Proc, Recover(p)
      PROVE  TypeOK'
  BY <1>6 DEF Recover, At, Goto, source, target, scope, owners, local
<1>7. ASSUME NEW p \in Proc, Bind(p)
      PROVE  TypeOK'
  BY <1>7 DEF Bind, At, Goto, source, target, scope, owners, local
<1>8. ASSUME NEW p \in Proc, TakeController(p) \/ FenceSource(p)
      PROVE  TypeOK'
  BY <1>8 DEF TakeController, FenceSource, At, Goto, source, target, scope, owners, local
<1>9. ASSUME NEW p \in Proc, ReadGate(p) \/ Reconcile(p) \/ FinalTransfer(p) \/ Activate(p)
      PROVE  TypeOK'
  BY <1>9 DEF ReadGate, Reconcile, FinalTransfer, Activate, At, Goto, source, target, scope,
     owners, local
<1>10. ASSUME NEW p \in Proc, Route(p)
      PROVE  TypeOK'
  BY <1>10 DEF Route, SwitchRoute, At, Goto, source, target, scope, owners, local
<1>11. ASSUME NEW p \in Proc, MarkRouted(p)
      PROVE  TypeOK'
  BY <1>11 DEF MarkRouted, At, Goto, source, target, scope, owners, local
<1>12. ASSUME NEW p \in Proc, Acknowledge(p)
      PROVE  TypeOK'
  BY <1>12 DEF Acknowledge, At, Goto, source, target, scope, owners, local
<1>13. ASSUME NEW p \in Proc, Bound(p) PROVE TypeOK'
  <2>1. controllerOwner' \in Owner
    BY <1>13 DEF Bound, Freed
  <2>2. pc' \in [Proc -> Label]
    BY <1>13 DEF Bound, Goto
  <2> QED
    BY <1>13, <2>1, <2>2 DEF Bound, source, target, scope
<1>14. ASSUME NEW p \in Proc, CommitImport(p) PROVE TypeOK'
  <2>1. plan[p] \in Plan
    BY <1>14 DEF CommitImport, At
  <2>2. AsReceipt(plan[p]) \in [from : 0 .. EventLimit, cutoff : Cutoff]
    BY <2>1 DEF AsReceipt, Plan
  <2>3. plan[p].cutoff \in 0 .. EventLimit
    BY <2>1 DEF Plan, Cutoff
  <2> QED
    BY <1>14, <2>2, <2>3 DEF CommitImport, At, Goto, source, scope, owners
<1>15. ASSUME NEW p \in Proc, Capture(p) PROVE TypeOK'
  <2>1. [cutoff |-> head, from |-> cursor] \in Plan
    BY <1>15 DEF Capture, Plan, Cutoff, ImportKept
  <2> QED
    BY <1>15, <2>1 DEF Capture, Goto, source, target, scope, owners
<1>16. ASSUME NEW p \in Proc, NEW v \in Value, NEW kind \in {"WRITE", "FORWARD_CORRECTION"},
             AppendTarget(p, kind, v)
      PROVE  TypeOK'
  <2>1. events' \in Seq(Event)
    BY <1>16 DEF AppendTarget, Event
  <2> QED
    BY <1>16, <2>1 DEF AppendTarget, Goto, source, scope, owners
<1>17. ASSUME NEW p \in Proc, Fail(p) \/ Finish(p) \/ Denied(p) \/ Kill(p) PROVE TypeOK'
  <2>1. GiveBack(p) \/ Kill(p)
    BY <1>17, DeniedEnds
  <2>2. pc' \in [Proc -> Label] /\ plan' \in [Proc -> Plan \cup {NoPlan}]
    BY <2>1, CallEnds
  <2>3. faults' \in Nat
    BY <1>17 DEF Fail, Finish, Denied, Kill
  <2> QED
    BY <2>1, CallEnds, <2>2, <2>3 DEF source, target
<1> QED
  BY <1>1, <1>2, <1>3, <1>4, <1>5, <1>6, <1>7, <1>8, <1>9, <1>10, <1>11, <1>12, <1>13, <1>14,
     <1>15, <1>16, <1>17, DeniedEnds
     DEF Next, Continue, WriteTarget, CorrectField

-----------------------------------------------------------------------------
(* The theorems *)

LEMMA Inductive == Spec => []IInv
<1>1. Init => IInv
  <2> SUFFICES ASSUME Init PROVE IInv
    OBVIOUS
  <2>1. TypeOK
    <3>1. events \in Seq(Event) /\ route \in [destination : {"SOURCE", "TARGET"}, acked : BOOLEAN]
      BY DEF Init
    <3>2. pc \in [Proc -> Label] /\ plan \in [Proc -> Plan \cup {NoPlan}]
      BY DEF Init, Label
    <3>3. /\ head \in Nat /\ cursor \in 0 .. EventLimit /\ baseline \in 0 .. EventLimit
          /\ calls \in Nat /\ faults \in Nat
      <4>1. head = 0 /\ cursor = 0 /\ baseline = 0 /\ calls = 0 /\ faults = 0
        BY DEF Init
      <4> QED
        BY <4>1, BoundsAssumption
    <3>4. /\ fencePlan = NoPlan /\ activePlan = NoPlan /\ retained = NoPlan
          /\ lease = Nobody /\ transferOwner = Nobody /\ controllerOwner = Nobody
          /\ receipts = {} /\ controls = {} /\ routed = FALSE
      BY DEF Init
    <3> QED
      BY <3>1, <3>2, <3>3, <3>4 DEF TypeOK, Owner
  <2>2. LeaseKept /\ FenceKept /\ CallersKept
    BY OwnersAssumption DEF Init, LeaseKept, FenceKept, CallersKept, CutoverLabel, Fenced
  <2>3. ImportKept
    BY DEF Init, ImportKept, Rows
  <2>4. ActivationKept /\ RouteKept /\ CorrectionsKept
    BY DEF Init, ActivationKept, RouteKept, CorrectionsKept, Active
  <2> QED
    BY <2>1, <2>2, <2>3, <2>4 DEF IInv
<1>2. IInv /\ [Next]_vars => IInv'
  BY TypeStep, LeaseStep, FenceStep, CallersStep, ImportStep, ActivationStep, RouteStep,
     CorrectionsStep DEF IInv
<1> QED
  BY <1>1, <1>2, PTL DEF Spec

(* Every reachable state of the stores, owners and calls is well formed. *)
THEOREM TypeCorrect == Spec => []TypeOK
<1>1. IInv => TypeOK
  BY DEF IInv
<1> QED
  BY <1>1, Inductive, PTL

(* No batch the source accepted is missing from an active target, and none   *)
(* was imported twice.                                                       *)
THEOREM WritesSurvive == Spec => []NothingLost
<1>1. IInv => NothingLost
  BY DEF IInv, ActivationKept, ImportKept, NothingLost
<1> QED
  BY <1>1, Inductive, PTL

(* Whatever was killed or failed after the fence, the diagnosis knows it. *)
THEOREM StopsAreDiagnosed == Spec => []Diagnosable
<1>1. ASSUME IInv, Fenced PROVE Diagnosis # "UNKNOWN"
  <2>1. KnownSource
    BY <1>1, BoundsAssumption DEF KnownSource, IInv, FenceKept, LeaseKept, Fenced
  <2>2. ASSUME Active PROVE KnownActive /\ RouteOutcome # "UNKNOWN"
    <3>1. cursor = head /\ baseline = head /\ activePlan = retained /\ head \in Sound
      BY <1>1, <2>1, <2>2 DEF IInv, ActivationKept, KnownSource
    <3>2. ReceiptsHold(head)
      BY <1>1, <3>1, BoundsAssumption DEF IInv, ImportKept, ReceiptsHold, Cutoff
    <3>3. KnownActive
      BY <1>1, <2>2, <3>1, <3>2 DEF IInv, ActivationKept, CorrectionsKept, KnownActive
    <3>4. RouteOutcome # "UNKNOWN"
      BY <1>1 DEF IInv, RouteKept, RouteOutcome, TypeOK
    <3> QED
      BY <3>3, <3>4
  <2>3. ASSUME ~Active PROVE KnownInactive
    <3>1. ~routed /\ baseline = 0 /\ events = <<>>
          /\ route = [destination |-> "SOURCE", acked |-> TRUE]
      BY <1>1, <2>3 DEF IInv, ActivationKept
    <3>2. CASE cursor = 0
      BY <1>1, <3>1, <3>2 DEF IInv, ImportKept, KnownInactive
    <3>3. CASE cursor # 0
      <4>1. cursor \in 1 .. head /\ cursor \in Sound /\ Rows = 1 .. cursor
        BY <1>1, <3>3 DEF IInv, TypeOK, ImportKept
      <4>2. ReceiptsHold(cursor)
        BY <1>1, <4>1 DEF IInv, ImportKept, ReceiptsHold
      <4>3. Readable
        BY <2>1, BoundsAssumption DEF KnownSource, Readable, Cutoff
      <4> QED
        BY <3>1, <4>1, <4>2, <4>3 DEF KnownInactive, Verified
    <3> QED
      BY <3>2, <3>3
  <2> QED
    BY <1>1, <2>1, <2>2, <2>3 DEF Diagnosis
<1>2. IInv => Diagnosable
  BY <1>1 DEF Diagnosable
<1> QED
  BY <1>2, Inductive, PTL

(* The steps that touch no gate, no head and no event. *)
LEMMA HandoverQuiet ==
  ASSUME NEW p \in Proc,
         \/ StartWrite(p) \/ Capture(p) \/ Recover(p) \/ StartTargetWrite(p)
         \/ \E q \in Plan : StartImport(p, q)
         \/ CommitImport(p) \/ EndTransfer(p) \/ Bind(p) \/ Bound(p) \/ TakeController(p)
         \/ ReadGate(p) \/ Reconcile(p) \/ FinalTransfer(p)
         \/ GiveBack(p) \/ Kill(p)
  PROVE  UNCHANGED <<head, fencePlan, activePlan, baseline, routed, route, events>>
  BY DEF StartWrite, Capture, Recover, StartTargetWrite, StartImport, CommitImport, EndTransfer,
         Bind, Bound, TakeController, ReadGate, Reconcile, FinalTransfer, GiveBack, Kill,
         source, target, scope

(* The cut-over implements the hand-over. *)
THEOREM Handover == Spec => HandsOver
<1>1. Init => H!Init
  BY DEF Init, H!Init, Complete, Fenced, Active
<1>2. IInv /\ [Next]_vars => [H!Next]_H!vars
  <2> SUFFICES ASSUME IInv, [Next]_vars PROVE [H!Next]_H!vars
    OBVIOUS
  <2> USE DEF H!Next, H!vars, Complete, Fenced, Active
  <2>1. ASSUME UNCHANGED <<head, fencePlan, activePlan, baseline, routed, route, events>>
        PROVE  UNCHANGED H!vars
    BY <2>1
  <2>2. CASE UNCHANGED vars
    BY <2>1, <2>2 DEF vars, source, target, scope
  <2>3. ASSUME NEW c \in {Stop} \cup ({plan[p] : p \in Proc} \ {NoPlan}), Control(c)
        PROVE  UNCHANGED H!vars
    BY <2>1, <2>3 DEF Control, source, target, scope
  <2>4. CASE NativeBatch \/ \E p \in Proc : WriteSource(p)
    BY <2>4 DEF NativeBatch, WriteSource, Writable, SourceOpen, H!SourceWrites, IInv,
                ActivationKept, target, scope
  <2>5. ASSUME NEW p \in Proc, FenceSource(p)
        PROVE  H!Close \/ UNCHANGED H!vars
    <3>1. /\ plan[p] # NoPlan /\ fencePlan' = plan[p] /\ fencePlan \in {NoPlan, plan[p]}
          /\ UNCHANGED <<head, activePlan, baseline, routed, route, events>>
      BY <2>5, NoPlanIsNone DEF FenceSource, Fenceable, At, IInv, LeaseKept, CutoverLabel,
         target, scope
    <3> QED
      BY <3>1 DEF H!Close, IInv, ActivationKept
  <2>6. ASSUME NEW p \in Proc, Activate(p)
        PROVE  UNCHANGED H!vars
    BY <2>6 DEF Activate, Activatable, source, scope, IInv, ActivationKept
  <2>7. ASSUME NEW p \in Proc, Route(p) \/ MarkRouted(p)
        PROVE  UNCHANGED H!vars
    BY <2>7 DEF Route, SwitchRoute, MarkRouted, source, target, scope, IInv, RouteKept, TypeOK
  <2>8. ASSUME NEW p \in Proc, Acknowledge(p)
        PROVE  H!Open \/ UNCHANGED H!vars
    <3>1. /\ Active /\ routed /\ baseline = head /\ fencePlan # NoPlan
          /\ route \in [destination : {"SOURCE", "TARGET"}, acked : BOOLEAN]
          /\ route.destination = "TARGET" /\ route' = [route EXCEPT !.acked = TRUE]
          /\ UNCHANGED <<head, fencePlan, activePlan, baseline, routed, events>>
      BY <2>8 DEF Acknowledge, At, source, target, IInv, TypeOK, ActivationKept, RouteKept
    <3> QED
      BY <3>1 DEF H!Open
  <2>9. ASSUME NEW p \in Proc, NEW v \in Value, NEW kind \in {"WRITE", "FORWARD_CORRECTION"},
               AppendTarget(p, kind, v)
        PROVE  H!TargetWrites
    <3>1. Active /\ RouteOutcome = "ACTIVE"
      BY <2>9 DEF AppendTarget, TargetReady, Diagnosis
    <3>2. /\ route = [destination |-> "TARGET", acked |-> TRUE] /\ routed /\ fencePlan # NoPlan
      BY <3>1 DEF RouteOutcome, IInv, TypeOK, ActivationKept
    <3>3. Len(events') = Len(events) + 1
      BY <2>9 DEF AppendTarget, IInv, TypeOK
    <3> QED
      BY <2>9, <3>1, <3>2, <3>3 DEF AppendTarget, source, scope, H!TargetWrites
  <2> QED
    BY <2>1, <2>2, <2>3, <2>4, <2>5, <2>6, <2>7, <2>8, <2>9, HandoverQuiet, DeniedEnds
       DEF Next, Continue, WriteTarget, CorrectField
<1> QED
  BY <1>1, <1>2, Inductive, PTL DEF Spec, HandsOver
=============================================================================
