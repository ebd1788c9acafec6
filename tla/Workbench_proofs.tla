--------------------------- MODULE Workbench_proofs ---------------------------
(* What TLAPS proves of the owner's decisions, for any number of digests and  *)
(* restarts.                                                                  *)
EXTENDS Workbench, TLAPS

(* Each step of the workbench keeps the shape of its state. *)
LEMMA TypeStep == TypeOK /\ [Next]_vars => TypeOK'
<1> SUFFICES ASSUME TypeOK, [Next]_vars PROVE TypeOK'
  OBVIOUS
<1> USE BootAssumption DEF TypeOK
<1>1. ASSUME NEW d \in Digest PROVE RegisterCall(d) \in Call
  BY DEF RegisterCall, Call
<1>2. ASSUME NEW d \in Digest, NEW v \in Verdict PROVE DecideCall(d, v) \in Call
  BY DEF DecideCall, Call
<1>3. ASSUME NEW d \in Digest PROVE [mem EXCEPT !.proposal[d] = boot] \in Store
  BY DEF Store
<1>4. ASSUME NEW d \in Digest, NEW v \in Verdict PROVE [mem EXCEPT !.verdict[d] = v] \in Store
  BY DEF Store
<1>5. ASSUME NEW d \in Digest, NEW v \in Verdict
      PROVE  Issued(d, v) \in SUBSET ((1 .. MaxBoot) \X Digest)
  BY DEF Issued
<1>6. ASSUME NEW d \in Digest, RegisterStart(d) PROVE TypeOK'
  BY <1>1, <1>6 DEF RegisterStart
<1>7. ASSUME NEW d \in Digest, RegisterReturns(d) PROVE TypeOK'
  BY <1>7 DEF RegisterReturns, Returns
<1>8. ASSUME NEW d \in Digest, Register(d) PROVE TypeOK'
  BY <1>3, <1>8 DEF Register, Returns, Persist
<1>9. ASSUME NEW d \in Digest, Read(d) PROVE TypeOK'
  <2>1. mem.verdict[d] \in Verdict
    BY <1>9 DEF Read, Store
  <2> QED
    BY <1>5, <1>9, <2>1 DEF Read
<1>10. ASSUME NEW d \in Digest, Act(d) PROVE TypeOK'
  BY <1>10 DEF Act
<1>11. ASSUME NEW d \in Digest, NEW v \in Verdict, DecideStart(d, v) PROVE TypeOK'
  BY <1>2, <1>11 DEF DecideStart
<1>12. ASSUME NEW d \in Digest, NEW v \in Verdict, DecideDenied(d, v) PROVE TypeOK'
  BY <1>12 DEF DecideDenied
<1>13. ASSUME NEW d \in Digest, NEW v \in Verdict, Decide(d, v) PROVE TypeOK'
  <2>1. calls' \in SUBSET Call /\ mem' \in Store /\ disk' \in Store
    BY <1>4, <1>13 DEF Decide, Decided
  <2>2. answers' \in [Digest -> SUBSET Verdict]
    BY <1>13 DEF Decide
  <2>3. leases' \in SUBSET ((1 .. MaxBoot) \X Digest)
    BY <1>5, <1>13 DEF Decide
  <2> QED
    BY <1>13, <2>1, <2>2, <2>3 DEF Decide
<1>14. ASSUME NEW d \in Digest, NEW v \in Verdict, DecideFails(d, v) PROVE TypeOK'
  BY <1>4, <1>14 DEF DecideFails, Decided
<1>15. CASE Restart
  BY <1>15 DEF Restart
<1>16. CASE UNCHANGED vars
  BY <1>16 DEF vars
<1> QED
  BY <1>6, <1>7, <1>8, <1>9, <1>10, <1>11, <1>12, <1>13, <1>14, <1>15, <1>16 DEF Next

(* What a verdict in memory is after a registration and after a decision.    *)
LEMMA VerdictAfter ==
  ASSUME TypeOK, NEW d \in Digest, NEW e \in Digest
  PROVE  /\ [mem EXCEPT !.proposal[d] = boot].verdict[e] = mem.verdict[e]
         /\ \A v \in Verdict :
              [mem EXCEPT !.verdict[d] = v].verdict[e] = IF e = d THEN v ELSE mem.verdict[e]
  BY DEF TypeOK, Store

(* A decision that ends is the only one of its digest, which has none yet.   *)
LEMMA DecidesOnce ==
  ASSUME IInv, NEW d \in Digest, NEW v \in Verdict, Decided(d, v)
  PROVE  mem.verdict[d] = "NONE" /\ answers[d] = {}
<1>1. mem.verdict[d] = "NONE"
  BY DEF IInv, OneDecision, Decided, DecideCall
<1>2. \A w \in answers[d] : mem.verdict[d] = w /\ w \in Verdict
  BY DEF IInv, VerdictIsFinal, TypeOK
<1> QED
  BY <1>1, <1>2 DEF Verdict

(* The inductive invariant: one decision of a digest at a time, leases of    *)
(* this start only of approvals, and answered verdicts in memory and file.   *)
LEMMA InvStep == IInv /\ [Next]_vars => IInv'
<1> SUFFICES ASSUME IInv, [Next]_vars PROVE IInv'
  OBVIOUS
<1>1. TypeOK /\ TypeOK'
  BY TypeStep DEF IInv
<1>2. ASSUME UNCHANGED <<boot, mem, disk, answers, leases>>,
             \A c \in calls' : c.op = "DECIDE" => c \in calls
      PROVE  IInv'
  BY <1>1, <1>2 DEF IInv, OneDecision, LeasesApproved, VerdictIsFinal
<1>3. ASSUME NEW d \in Digest, RegisterStart(d) PROVE IInv'
  BY <1>2, <1>3 DEF RegisterStart, RegisterCall
<1>4. ASSUME NEW d \in Digest, RegisterReturns(d) PROVE IInv'
  BY <1>2, <1>4 DEF RegisterReturns, Returns
<1>5. ASSUME NEW d \in Digest, Register(d) PROVE IInv'
  <2>1. mem' = [mem EXCEPT !.proposal[d] = boot]
    BY <1>5 DEF Register
  <2>2. \A e \in Digest : mem'.verdict[e] = mem.verdict[e]
    BY <1>1, <2>1, VerdictAfter
  <2>3. calls' \subseteq calls /\ \A c \in calls : c.digest \in Digest
    BY <1>1, <1>5 DEF Register, Returns, TypeOK, Call
  <2>4. OneDecision'
    BY <2>2, <2>3 DEF OneDecision, IInv
  <2>5. \A l \in leases : l[2] \in Digest
    BY <1>1 DEF TypeOK
  <2>6. LeasesApproved'
    BY <1>5, <2>2, <2>5 DEF LeasesApproved, IInv, Register
  <2>7. VerdictIsFinal'
    BY <1>5, <2>2 DEF VerdictIsFinal, IInv, Register, Persist
  <2> QED
    BY <1>1, <2>4, <2>6, <2>7 DEF IInv
<1>6. ASSUME NEW d \in Digest, Read(d) PROVE IInv'
  <2>1. LeasesApproved'
    BY <1>1, <1>6 DEF LeasesApproved, IInv, Read, Issued, TypeOK
  <2> QED
    BY <1>1, <1>6, <2>1 DEF IInv, OneDecision, VerdictIsFinal, Read
<1>7. ASSUME NEW d \in Digest, Act(d) PROVE IInv'
  BY <1>2, <1>7 DEF Act
<1>8. ASSUME NEW d \in Digest, NEW v \in Verdict, DecideStart(d, v) PROVE IInv'
  <2>1. OneDecision'
    BY <1>8 DEF OneDecision, IInv, DecideStart, Decidable, Pending, DecideCall
  <2> QED
    BY <1>1, <1>8, <2>1 DEF IInv, LeasesApproved, VerdictIsFinal, DecideStart
<1>9. ASSUME NEW d \in Digest, NEW v \in Verdict, DecideDenied(d, v) PROVE IInv'
  BY <1>2, <1>9 DEF DecideDenied
<1>10. ASSUME NEW d \in Digest, NEW v \in Verdict, Decided(d, v)
       PROVE  /\ OneDecision'
              /\ \A e \in Digest \ {d} : mem'.verdict[e] = mem.verdict[e]
              /\ mem'.verdict[d] = v
              /\ \A l \in leases : l[1] <= boot /\ l[2] \in Digest
              /\ \A l \in leases : l[1] = boot => l[2] # d /\ mem.verdict[l[2]] = "APPROVE"
  <2>1. mem' = [mem EXCEPT !.verdict[d] = v]
    BY <1>10 DEF Decided
  <2>2. \A e \in Digest : mem'.verdict[e] = IF e = d THEN v ELSE mem.verdict[e]
    BY <1>1, <2>1, VerdictAfter
  <2>3. \A c \in calls : c.digest \in Digest
    BY <1>1 DEF TypeOK, Call
  <2>4. \A c \in calls' : c \in calls /\ (c.op = "DECIDE" => c.digest # d)
    BY <1>10 DEF Decided, DecideCall, OneDecision, IInv
  <2>5. OneDecision'
    BY <2>2, <2>3, <2>4 DEF OneDecision, IInv
  <2>6. \A l \in leases : l[1] <= boot /\ l[2] \in Digest
    BY <1>1 DEF TypeOK, LeasesApproved, IInv
  <2>7. \A l \in leases : l[1] = boot => l[2] # d /\ mem.verdict[l[2]] = "APPROVE"
    BY <1>10, DecidesOnce DEF LeasesApproved, IInv
  <2> QED
    BY <2>2, <2>5, <2>6, <2>7
<1>11. ASSUME NEW d \in Digest, NEW v \in Verdict, Decide(d, v) PROVE IInv'
  <2>1. Decided(d, v) /\ disk' = mem' /\ boot' = boot /\ answers[d] = {}
    BY <1>11, DecidesOnce DEF Decide
  <2>2. leases' = leases \/ leases' = Issued(d, v)
    BY <1>11 DEF Decide
  <2>3. boot \in Nat
    BY <1>1 DEF TypeOK
  <2>4. LeasesApproved'
    BY <1>10, <2>1, <2>2, <2>3 DEF LeasesApproved, Issued
  <2>5. answers' = answers \/ answers' = [answers EXCEPT ![d] = @ \cup {v}]
    BY <1>11 DEF Decide
  <2>6. \A e \in Digest : \A w \in answers'[e] : (w \in answers[e] /\ e # d) \/ (e = d /\ w = v)
    BY <1>1, <2>1, <2>5 DEF TypeOK
  <2>7. VerdictIsFinal'
    BY <1>10, <2>1, <2>6 DEF VerdictIsFinal, IInv
  <2> QED
    BY <1>1, <1>10, <2>1, <2>4, <2>7 DEF IInv
<1>12. ASSUME NEW d \in Digest, NEW v \in Verdict, DecideFails(d, v) PROVE IInv'
  <2>1. Decided(d, v) /\ UNCHANGED <<boot, disk, answers, leases>> /\ answers[d] = {}
    BY <1>12, DecidesOnce DEF DecideFails
  <2>2. LeasesApproved'
    BY <1>10, <2>1 DEF LeasesApproved
  <2>3. VerdictIsFinal'
    BY <1>10, <2>1 DEF VerdictIsFinal, IInv
  <2> QED
    BY <1>1, <1>10, <2>1, <2>2, <2>3 DEF IInv
<1>13. CASE Restart
  <2>1. OneDecision'
    BY <1>13 DEF Restart, OneDecision
  <2>2. \A l \in leases : l[1] \in Nat /\ l[1] <= boot
    BY <1>1 DEF LeasesApproved, IInv, TypeOK
  <2>3. boot \in Nat /\ boot' = boot + 1 /\ leases' = leases
    BY <1>1, <1>13 DEF Restart, TypeOK
  <2>4. LeasesApproved'
    BY <2>2, <2>3 DEF LeasesApproved
  <2>5. VerdictIsFinal'
    BY <1>13 DEF Restart, VerdictIsFinal, IInv
  <2> QED
    BY <1>1, <2>1, <2>4, <2>5 DEF IInv
<1>14. CASE UNCHANGED vars
  BY <1>2, <1>14 DEF vars
<1> QED
  BY <1>3, <1>4, <1>5, <1>6, <1>7, <1>8, <1>9, <1>11, <1>12, <1>13, <1>14 DEF Next

(* The inductive invariant holds. *)
LEMMA Invariant == Spec => []IInv
<1>1. Init => TypeOK
  BY BootAssumption DEF Init, TypeOK, Empty, Store
<1>2. Init => OneDecision /\ LeasesApproved /\ VerdictIsFinal
  BY DEF Init, OneDecision, LeasesApproved, VerdictIsFinal
<1> QED
  BY <1>1, <1>2, InvStep, PTL DEF Spec, IInv

(* The workbench is well formed in every reachable state. *)
THEOREM TypeCorrect == Spec => []TypeOK
  BY Invariant, PTL DEF IInv

(* A verdict that decide has answered is in memory and in the file for good. *)
THEOREM FinalForGood == Spec => []VerdictIsFinal
  BY Invariant, PTL DEF IInv

(* Once a rejection is answered no mutation is sent for its digest, whatever *)
(* was read of it in earlier starts.                                         *)
THEOREM RejectionHolds == Spec => RejectedNeverActs
<1> DEFINE Idle == \A d \in Digest : "REJECT" \in answers[d] /\ d \notin acted => d \notin acted'
<1>1. IInv /\ [Next]_vars => [Idle]_vars
  <2> SUFFICES ASSUME IInv, Next, NEW d \in Digest, "REJECT" \in answers[d], d \notin acted
               PROVE  d \notin acted'
    OBVIOUS
  <2>1. <<boot, d>> \notin leases
    BY DEF IInv, VerdictIsFinal, LeasesApproved
  <2>2. ASSUME NEW e \in Digest, Act(e) PROVE d \notin acted'
    BY <2>1, <2>2 DEF Act, LeaseIsCurrent
  <2>3. ASSUME acted' = acted PROVE d \notin acted'
    BY <2>3
  <2>4. ASSUME NEW e \in Digest, RegisterStart(e) \/ RegisterReturns(e) \/ Register(e) \/ Read(e)
        PROVE  acted' = acted
    BY <2>4 DEF RegisterStart, RegisterReturns, Register, Read
  <2>5. ASSUME NEW e \in Digest, NEW v \in Verdict,
               DecideStart(e, v) \/ DecideDenied(e, v) \/ Decide(e, v) \/ DecideFails(e, v)
        PROVE  acted' = acted
    BY <2>5 DEF DecideStart, DecideDenied, Decide, DecideFails
  <2>6. CASE Restart
    BY <2>3, <2>6 DEF Restart
  <2> QED
    BY <2>2, <2>3, <2>4, <2>5, <2>6 DEF Next
<1> QED
  BY <1>1, Invariant, PTL DEF Spec, RejectedNeverActs

(* No verdict is ever written without its proposal, so that every restart    *)
(* finds a file it accepts.                                                  *)
THEOREM AlwaysLoads == Spec => []StoreLoads
<1>1. Init => Founded
  BY DEF Init, Empty, Founded, StoreLoads, Pending
<1>2. IInv /\ Founded /\ [Next]_vars => Founded'
  <2> SUFFICES ASSUME IInv, Founded, [Next]_vars PROVE Founded'
    OBVIOUS
  <2>1. TypeOK /\ boot # 0
    BY BootAssumption DEF IInv, TypeOK
  <2>2. ASSUME UNCHANGED mem, disk' \in {mem, disk},
               \A c \in calls' : c.op = "DECIDE" => c \in calls \/ mem.proposal[c.digest] # 0
        PROVE  Founded'
    BY <2>2 DEF Founded, StoreLoads, Pending
  <2>3. ASSUME NEW d \in Digest, RegisterStart(d) \/ RegisterReturns(d) \/ Read(d) \/ Act(d)
        PROVE  Founded'
    BY <2>2, <2>3 DEF RegisterStart, RegisterReturns, Returns, RegisterCall, Read, Act
  <2>4. ASSUME NEW d \in Digest, Register(d) PROVE Founded'
    <3>1. mem' = [mem EXCEPT !.proposal[d] = boot] /\ calls' \subseteq calls
      BY <2>4 DEF Register, Returns
    <3>2. \A e \in Digest : /\ mem'.verdict[e] = mem.verdict[e]
                            /\ mem'.proposal[e] = IF e = d THEN boot ELSE mem.proposal[e]
      BY <2>1, <3>1 DEF TypeOK, Store
    <3>3. disk' = mem' \/ disk' = disk
      BY <2>4 DEF Register, Persist
    <3> QED
      BY <2>1, <3>1, <3>2, <3>3 DEF Founded, StoreLoads, Pending
  <2>5. ASSUME NEW d \in Digest, NEW v \in Verdict, DecideStart(d, v) PROVE Founded'
    BY <2>1, <2>2, <2>5 DEF DecideStart, Decidable, DecideCall
  <2>6. ASSUME NEW d \in Digest, NEW v \in Verdict, DecideDenied(d, v) PROVE Founded'
    BY <2>2, <2>6 DEF DecideDenied
  <2>7. ASSUME NEW d \in Digest, NEW v \in Verdict, Decide(d, v) \/ DecideFails(d, v)
        PROVE  Founded'
    <3>1. Decided(d, v) /\ (disk' = mem' \/ disk' = disk)
      BY <2>7 DEF Decide, DecideFails
    <3>2. mem' = [mem EXCEPT !.verdict[d] = v] /\ calls' \subseteq calls
      BY <3>1 DEF Decided
    <3>3. mem.proposal[d] # 0
      BY <3>1 DEF Decided, DecideCall, Founded, Pending
    <3>4. \A e \in Digest : /\ mem'.proposal[e] = mem.proposal[e]
                            /\ e # d => mem'.verdict[e] = mem.verdict[e]
      BY <2>1, <3>2 DEF TypeOK, Store
    <3> QED
      BY <3>1, <3>2, <3>3, <3>4 DEF Founded, StoreLoads, Pending
  <2>8. CASE Restart
    BY <2>8 DEF Restart, Founded, StoreLoads, Pending
  <2>9. CASE UNCHANGED vars
    BY <2>2, <2>9 DEF vars
  <2> QED
    BY <2>3, <2>4, <2>5, <2>6, <2>7, <2>8, <2>9 DEF Next
<1> QED
  BY <1>1, <1>2, Invariant, PTL DEF Spec, Founded
=============================================================================
