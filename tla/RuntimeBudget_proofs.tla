------------------------- MODULE RuntimeBudget_proofs -------------------------
(* What TLAPS proves of the native runtime budget for every set of processes, *)
(* calls and operations and every limit.                                      *)
EXTENDS RuntimeBudget, FiniteSetTheorems, WellFoundedInduction, TLAPS

(* The invariant holds before anything happens. *)
LEMMA InitIInv == Init => IInv
<1> SUFFICES ASSUME Init PROVE IInv
  OBVIOUS
<1>1. Absent \in RowRecord
  BY LimitsAssumption DEF Absent, RowRecord
<1>2. TypeOK
  BY <1>1, SetsAssumption, LimitsAssumption DEF Init, TypeOK, Row, PcState, OwnerState
<1>3. Custody /\ Leadership /\ DispatchedOnce /\ AnswersAgree
  BY DEF Init, Custody, Leadership, DispatchedOnce, AnswersAgree, Granted, Leading
<1> QED
  BY <1>2, <1>3 DEF IInv

(* A row keeps its shape and its digest when it is marked or settled. *)
LEMMA MarkedRow ==
  ASSUME NEW row \in RowRecord
  PROVE  /\ Marked(row) \in RowRecord
         /\ Marked(row).state = "UNKNOWN_USAGE"
         /\ Marked(row).digest = row.digest
         /\ Marked(row).result = row.result
         /\ Marked(row).used = row.used
  BY DEF RowRecord, Marked

LEMMA SettledRow ==
  ASSUME NEW row \in RowRecord, NEW units \in 0 .. ModelHold,
         NEW observation \in Call \cup {NoCall}
  PROVE  /\ SettledWith(row, units, observation) \in RowRecord
         /\ SettledWith(row, units, observation).state = "SETTLED"
         /\ SettledWith(row, units, observation).digest = row.digest
         /\ SettledWith(row, units, observation).result = observation
         /\ SettledWith(row, units, observation).used = units
  BY DEF RowRecord, SettledWith

LEMMA HoldRow ==
  ASSUME NEW digest \in Digests \cup {NoCall}
  PROVE  /\ Hold(digest) \in RowRecord
         /\ Hold(digest).state = "RESERVED"
         /\ Hold(digest).digest = digest
  BY LimitsAssumption DEF RowRecord, Hold

(* One entry of the table of leaders is written. *)
LEMMA InFlightUpdate ==
  ASSUME TypeOK, NEW p \in Proc, NEW o \in Op, NEW d \in Call \cup {NoCall}
  PROVE  /\ [inFlight EXCEPT ![p][o] = d] \in [Proc -> [Op -> Call \cup {NoCall}]]
         /\ \A q \in Proc, r \in Op :
              [inFlight EXCEPT ![p][o] = d][q][r] =
                IF q = p /\ r = o THEN d ELSE inFlight[q][r]
  BY DEF TypeOK

(* A call that ends leaves its tables well formed. *)
LEMMA FinishType ==
  ASSUME TypeOK, NEW c \in Call, NEW how \in Finished,
         NEW result \in Call \cup {NoCall}, Finish(c, how, result)
  PROVE  /\ pc' \in [Call -> PcState]
         /\ answer' \in [Call -> Call \cup {NoCall}]
         /\ inFlight' \in [Proc -> [Op -> Call \cup {NoCall}]]
  BY InFlightUpdate, SetsAssumption DEF Finish, TypeOK, PcState, Finished

(* The shape of the state is preserved by every step. *)
LEMMA TypeStep == TypeOK /\ [Next]_vars => TypeOK'
<1> SUFFICES ASSUME TypeOK, [Next]_vars PROVE TypeOK'
  OBVIOUS
<1> USE SetsAssumption, LimitsAssumption
<1>1. ASSUME NEW p \in Proc, NEW id \in PlanId, Plan(p, id) PROVE TypeOK'
  BY <1>1 DEF Plan, TypeOK
<1>2. ASSUME NEW p \in Proc, Activate(p) PROVE TypeOK'
  BY <1>2 DEF Activate, TypeOK, OwnerState, Row
<1>3. ASSUME NEW p \in Proc, ActivateReserve(p) PROVE TypeOK'
  <2>1. ledger' \in [Row -> RowRecord]
    BY <1>3, HoldRow DEF ActivateReserve, TypeOK, Row, Digests
  <2>2. owner' \in [Proc -> OwnerState]
    BY <1>3 DEF ActivateReserve, TypeOK, OwnerState
  <2> QED
    BY <1>3, <2>1, <2>2 DEF ActivateReserve, TypeOK
<1>4. ASSUME NEW p \in Proc, ActivateFence(p) PROVE TypeOK'
  <2>1. ledger' \in [Row -> RowRecord]
    BY <1>4, MarkedRow DEF ActivateFence, TypeOK, Row, Digests
  <2>2. owner' \in [Proc -> OwnerState]
    BY <1>4 DEF ActivateFence, TypeOK, OwnerState
  <2> QED
    BY <1>4, <2>1, <2>2 DEF ActivateFence, TypeOK
<1>5. ASSUME NEW p \in Proc, ActivateSettle(p) PROVE TypeOK'
  BY <1>5, SettledRow DEF ActivateSettle, TypeOK, OwnerState, Row
<1>6. ASSUME NEW p \in Proc, ActivateBusy(p) PROVE TypeOK'
  BY <1>6 DEF ActivateBusy, TypeOK, OwnerState, Row
<1>7. ASSUME NEW p \in Proc, Kill(p) PROVE TypeOK'
  BY <1>7 DEF Kill, Started, StrayUsage, TypeOK, OwnerState, PcState
<1>8. ASSUME NEW c \in Call, InvokeDenied(c) PROVE TypeOK'
  BY <1>8 DEF InvokeDenied, TypeOK, PcState
<1>9. ASSUME NEW c \in Call, InvokeJoins(c) PROVE TypeOK'
  BY <1>9 DEF InvokeJoins, TypeOK, PcState
<1>10. ASSUME NEW c \in Call, InvokeLeads(c) PROVE TypeOK'
  BY <1>10, InFlightUpdate DEF InvokeLeads, TypeOK, PcState
<1>11. ASSUME NEW c \in Call, ReserveDenied(c) PROVE TypeOK'
  BY <1>11, FinishType DEF ReserveDenied, TypeOK, PcState, Finished
<1>12. ASSUME NEW c \in Call, ReserveAnswered(c) PROVE TypeOK'
  BY <1>12, FinishType DEF ReserveAnswered, TypeOK, PcState, Finished, Row, RowRecord
<1>13. ASSUME NEW c \in Call, ReserveResumed(c) PROVE TypeOK'
  BY <1>13 DEF ReserveResumed, TypeOK, PcState
<1>14. ASSUME NEW c \in Call, ReserveHeld(c) PROVE TypeOK'
  BY <1>14, HoldRow DEF ReserveHeld, TypeOK, PcState, Row, Digests
<1>15. ASSUME NEW c \in Call, FenceGranted(c) PROVE TypeOK'
  BY <1>15, MarkedRow DEF FenceGranted, TypeOK, PcState, Row, Digests
<1>16. ASSUME NEW c \in Call, FenceRefused(c) PROVE TypeOK'
  BY <1>16, FinishType DEF FenceRefused, TypeOK, PcState, Finished
<1>17. ASSUME NEW c \in Call, BrokerThrottles(c) PROVE TypeOK'
  BY <1>17 DEF BrokerThrottles, TypeOK, PcState
<1>18. ASSUME NEW c \in Call, BrokerDispatches(c) PROVE TypeOK'
  BY <1>18 DEF BrokerDispatches, TypeOK, PcState
<1>19. ASSUME NEW c \in Call, ProviderAnswers(c) PROVE TypeOK'
  BY <1>19 DEF ProviderAnswers, TypeOK, PcState
<1>20. ASSUME NEW c \in Call, ProviderFails(c) PROVE TypeOK'
  BY <1>20, FinishType DEF ProviderFails, TypeOK, PcState, Finished
<1>21. ASSUME NEW c \in Call, Settle(c) PROVE TypeOK'
  BY <1>21, FinishType, SettledRow DEF Settle, TypeOK, PcState, Finished, Row, Digests
<1>22. ASSUME NEW c \in Call, Busy(c) PROVE TypeOK'
  BY <1>22, FinishType DEF Busy, TypeOK, PcState, Finished
<1>23. CASE UNCHANGED vars
  BY <1>23 DEF vars, TypeOK
<1> QED
  BY <1>1, <1>2, <1>3, <1>4, <1>5, <1>6, <1>7, <1>8, <1>9, <1>10, <1>11, <1>12,
     <1>13, <1>14, <1>15, <1>16, <1>17, <1>18, <1>19, <1>20, <1>21, <1>22, <1>23
     DEF Next, OwnerNext, CallNext

(* What is said of the calls, besides the shape of the state. *)
CallsInv == Custody /\ Leadership /\ DispatchedOnce /\ AnswersAgree

(* The rows of model calls and the calls themselves are left alone. *)
LEMMA CallsAside ==
  ASSUME IInv, \A o \in Op : ledger'[o] = ledger[o],
         UNCHANGED <<pc, answer, inFlight, dispatched>>
  PROVE  CallsInv'
<1>1. \A c \in Call : ledger'[CallOp[c]] = ledger[CallOp[c]]
  BY SetsAssumption
<1>2. dispatched \subseteq Call
  BY DEF IInv, TypeOK
<1>3. Custody'
  BY <1>1, <1>2 DEF IInv, Custody
<1>4. Leadership' /\ DispatchedOnce'
  BY DEF IInv, Leadership, DispatchedOnce
<1>5. AnswersAgree'
  BY <1>1 DEF IInv, AnswersAgree
<1> QED
  BY <1>3, <1>4, <1>5 DEF CallsInv

(* One call moves on, without writing a row: to where its row admits it. *)
LEMMA CallMoves ==
  ASSUME IInv, NEW c \in Call, NEW to, UNCHANGED <<ledger, answer, inFlight, dispatched>>,
         pc' = [pc EXCEPT ![c] = to],
         \/ pc[c] = "idle" /\ to = "denied"
         \/ /\ pc[c] = "idle" /\ to = "joined"
            /\ Leader(c) # NoCall /\ CallDigest[Leader(c)] = CallDigest[c]
         \/ /\ pc[c] = "reserve" /\ to = "fence"
            /\ Exists(ledger[CallOp[c]]) /\ ledger[CallOp[c]].digest = CallDigest[c]
         \/ pc[c] \in {"broker", "provider"} /\ to = "settle"
  PROVE  CallsInv'
<1>1. /\ pc'[c] = to /\ \A d \in Call \ {c} : pc'[d] = pc[d]
      /\ dispatched \subseteq Call
  BY DEF IInv, TypeOK
<1>2. Custody'
  BY <1>1 DEF IInv, Custody, Granted, Exists
<1>3. Leadership'
  <2>1. Leader(c) \in Call \cup {NoCall}
    <3>1. CallProc[c] \in Proc /\ CallOp[c] \in Op
      BY SetsAssumption
    <3>2. inFlight \in [Proc -> [Op -> Call \cup {NoCall}]]
      BY DEF IInv, TypeOK
    <3> QED
      BY <3>1, <3>2 DEF Leader
  <2> QED
    BY <1>1, <2>1 DEF IInv, Leadership, Leading, Granted, Leader
<1>4. DispatchedOnce'
  BY DEF IInv, DispatchedOnce
<1>5. AnswersAgree'
  BY <1>1 DEF IInv, AnswersAgree
<1> QED
  BY <1>2, <1>3, <1>4, <1>5 DEF CallsInv

(* The leader and those that joined it are all the calls that Finish ends, and  *)
(* no other call of the operation is under way in their process.                *)
LEMMA PartyEnds ==
  ASSUME IInv, NEW c \in Call, pc[c] \in Leading,
         NEW how \in Finished, NEW result, Finish(c, how, result)
  PROVE  /\ \A d \in Party(c) : /\ d \in Call /\ pc'[d] = how /\ answer'[d] = result
                                /\ CallOp[d] = CallOp[c] /\ CallDigest[d] = CallDigest[c]
         /\ \A d \in Call \ Party(c) : pc'[d] = pc[d] /\ answer'[d] = answer[d]
         /\ \A d \in Call : pc'[d] \in Leading \cup {"joined"} =>
              /\ pc'[d] = pc[d]
              /\ inFlight'[CallProc[d]][CallOp[d]] = inFlight[CallProc[d]][CallOp[d]]
<1>1. /\ TypeOK /\ c \in Party(c) /\ inFlight[CallProc[c]][CallOp[c]] = c
      /\ \A d \in Party(c) : /\ d \in Call /\ CallOp[d] = CallOp[c]
                             /\ CallDigest[d] = CallDigest[c] /\ CallProc[d] = CallProc[c]
      /\ \A d \in Call \ Party(c) :
           pc[d] \in Leading \cup {"joined"} =>
             CallOp[d] # CallOp[c] \/ CallProc[d] # CallProc[c]
  BY DEF IInv, Leadership, Leading, Granted, Party
<1>2. /\ \A d \in Call : pc'[d] = IF d \in Party(c) THEN how ELSE pc[d]
      /\ \A d \in Call : answer'[d] = IF d \in Party(c) THEN result ELSE answer[d]
  BY <1>1 DEF Finish, TypeOK
<1>3. \A q \in Proc, o \in Op : inFlight'[q][o] =
         IF q = CallProc[c] /\ o = CallOp[c] THEN NoCall ELSE inFlight[q][o]
  BY <1>1, InFlightUpdate, SetsAssumption DEF Finish
<1>4. how \notin Leading \cup {"joined"}
  BY DEF Finished, Leading, Granted
<1>5. \A d \in Call : CallProc[d] \in Proc /\ CallOp[d] \in Op
  BY SetsAssumption
<1> QED
  BY <1>1, <1>2, <1>3, <1>4, <1>5

(* A leader and those that joined it end; only a settled row gives an answer. *)
LEMMA CallEnds ==
  ASSUME IInv, NEW c \in Call, pc[c] \in Leading, NEW how \in Finished, NEW result,
         Finish(c, how, result), UNCHANGED <<ledger, dispatched>>,
         how = "answered" => /\ ledger[CallOp[c]].state = "SETTLED"
                             /\ ledger[CallOp[c]].result = result
                             /\ ledger[CallOp[c]].digest = CallDigest[c]
  PROVE  CallsInv'
<1>1. \A d \in Call : pc'[d] \in Leading \cup {"joined"} =>
         /\ pc'[d] = pc[d]
         /\ inFlight'[CallProc[d]][CallOp[d]] = inFlight[CallProc[d]][CallOp[d]]
  BY PartyEnds
<1>2. Custody'
  BY <1>1 DEF IInv, Custody, Leading, Granted, TypeOK
<1>3. Leadership'
  BY <1>1 DEF IInv, Leadership
<1>4. DispatchedOnce'
  BY DEF IInv, DispatchedOnce
<1>5. AnswersAgree'
  <2> SUFFICES ASSUME NEW d \in Call, pc'[d] = "answered"
               PROVE  /\ ledger[CallOp[d]].state = "SETTLED"
                      /\ answer'[d] = ledger[CallOp[d]].result
                      /\ ledger[CallOp[d]].digest = CallDigest[d]
    BY DEF AnswersAgree
  <2>1. CASE d \in Party(c)
    BY <2>1, PartyEnds
  <2>2. CASE d \notin Party(c)
    BY <2>2, PartyEnds DEF IInv, AnswersAgree
  <2> QED
    BY <2>1, <2>2
<1> QED
  BY <1>2, <1>3, <1>4, <1>5 DEF CallsInv

(* What every step preserves besides the shape of the state. *)
LEMMA InvStep == IInv /\ [Next]_vars => IInv'
<1> SUFFICES ASSUME IInv, [Next]_vars PROVE IInv'
  OBVIOUS
<1>0. /\ TypeOK /\ TypeOK'
      /\ \A c \in Call : CallOp[c] \in Op /\ CallOp[c] \in Row /\ CallDigest[c] \in Digests
      /\ \A row \in Row : ledger[row] \in RowRecord
      /\ Selection \notin Op
  BY TypeStep, SetsAssumption DEF IInv, TypeOK, Row, Digests
<1>1. ASSUME NEW p \in Proc, OwnerNext(p) PROVE CallsInv'
  <2>1. \A o \in Op : ledger'[o] = ledger[o]
    BY <1>0, <1>1 DEF OwnerNext, Plan, Activate, ActivateReserve, ActivateFence,
       ActivateSettle, ActivateBusy, TypeOK, Row
  <2>2. UNCHANGED <<pc, answer, inFlight, dispatched>>
    BY <1>1 DEF OwnerNext, Plan, Activate, ActivateReserve, ActivateFence,
       ActivateSettle, ActivateBusy
  <2> QED
    BY <2>1, <2>2, CallsAside
<1>2. ASSUME NEW p \in Proc, Kill(p) PROVE CallsInv'
  <2>1. /\ UNCHANGED <<ledger, answer, dispatched>> /\ dispatched \subseteq Call
        /\ \A d \in Call : pc'[d] # "lost" => pc'[d] = pc[d]
        /\ \A d \in Call : pc'[d] \in Leading \cup {"joined"} =>
             inFlight'[CallProc[d]][CallOp[d]] = inFlight[CallProc[d]][CallOp[d]]
    BY <1>0, <1>2, SetsAssumption DEF Kill, Started, TypeOK, Finished, Leading, Granted
  <2>2. Custody' /\ DispatchedOnce'
    BY <2>1 DEF IInv, Custody, DispatchedOnce, Granted
  <2>3. Leadership' /\ AnswersAgree'
    BY <2>1 DEF IInv, Leadership, AnswersAgree, Leading, Granted
  <2> QED
    BY <2>2, <2>3 DEF CallsInv
<1>3. ASSUME NEW c \in Call, InvokeDenied(c) \/ InvokeJoins(c) PROVE CallsInv'
  BY <1>3, CallMoves DEF InvokeDenied, InvokeJoins
<1>4. ASSUME NEW c \in Call, InvokeLeads(c) PROVE CallsInv'
  <2>1. /\ pc[c] = "idle" /\ pc'[c] = "reserve" /\ Leader(c) = NoCall
        /\ \A d \in Call \ {c} : pc'[d] = pc[d]
        /\ UNCHANGED <<ledger, answer, dispatched>> /\ dispatched \subseteq Call
    BY <1>0, <1>4 DEF InvokeLeads, TypeOK
  <2>2. \A d \in Call : inFlight'[CallProc[d]][CallOp[d]] =
          IF CallProc[d] = CallProc[c] /\ CallOp[d] = CallOp[c] THEN c
          ELSE inFlight[CallProc[d]][CallOp[d]]
    BY <1>0, <1>4, InFlightUpdate, SetsAssumption DEF InvokeLeads
  <2>3. Custody' /\ DispatchedOnce'
    BY <2>1 DEF IInv, Custody, DispatchedOnce, Granted
  <2>4. Leadership'
    BY <2>1, <2>2, SetsAssumption DEF IInv, Leadership, Leading, Granted, Leader
  <2>5. AnswersAgree'
    BY <2>1 DEF IInv, AnswersAgree
  <2> QED
    BY <2>3, <2>4, <2>5 DEF CallsInv
<1>5. ASSUME NEW c \in Call, ReserveDenied(c) PROVE CallsInv'
  BY <1>5, CallEnds DEF ReserveDenied, Finished, Leading
<1>6. ASSUME NEW c \in Call, ReserveAnswered(c) PROVE CallsInv'
  BY <1>6, CallEnds DEF ReserveAnswered, Finished, Leading
<1>7. ASSUME NEW c \in Call, ReserveResumed(c) PROVE CallsInv'
  BY <1>7, CallMoves DEF ReserveResumed, Exists
<1>8. ASSUME NEW c \in Call, ReserveHeld(c) PROVE CallsInv'
  <2>1. /\ \A o \in Op : ledger[o].state # "ABSENT" => ledger'[o] = ledger[o]
        /\ ledger'[CallOp[c]].state \in {"RESERVED", "UNKNOWN_USAGE"}
        /\ ledger'[CallOp[c]].digest = CallDigest[c]
    BY <1>0, <1>8, HoldRow DEF ReserveHeld, TypeOK, Exists, Row, Digests
  <2>2. /\ pc[c] = "reserve" /\ pc'[c] = "fence"
        /\ \A d \in Call \ {c} : pc'[d] = pc[d]
        /\ UNCHANGED <<answer, inFlight, dispatched>> /\ dispatched \subseteq Call
    BY <1>0, <1>8 DEF ReserveHeld, TypeOK
  <2>3. Custody'
    BY <1>0, <2>1, <2>2 DEF IInv, Custody, Granted
  <2>4. Leadership' /\ DispatchedOnce'
    BY <2>2 DEF IInv, Leadership, DispatchedOnce, Leading, Granted
  <2>5. AnswersAgree'
    BY <1>0, <2>1, <2>2 DEF IInv, AnswersAgree
  <2> QED
    BY <2>3, <2>4, <2>5 DEF CallsInv
<1>9. ASSUME NEW c \in Call, FenceGranted(c) PROVE CallsInv'
  <2>1. /\ \A o \in Op \ {CallOp[c]} : ledger'[o] = ledger[o]
        /\ ledger[CallOp[c]].state = "RESERVED"
        /\ ledger'[CallOp[c]].state = "UNKNOWN_USAGE"
        /\ ledger'[CallOp[c]].digest = ledger[CallOp[c]].digest
    BY <1>0, <1>9, MarkedRow DEF FenceGranted, TypeOK, Row
  <2>2. /\ pc[c] = "fence" /\ pc'[c] = "broker"
        /\ \A d \in Call \ {c} : pc'[d] = pc[d]
        /\ UNCHANGED <<answer, inFlight, dispatched>> /\ dispatched \subseteq Call
    BY <1>0, <1>9 DEF FenceGranted, TypeOK
  <2>3. Custody'
    BY <1>0, <2>1, <2>2 DEF IInv, Custody, Granted
  <2>4. Leadership' /\ DispatchedOnce'
    BY <2>2 DEF IInv, Leadership, DispatchedOnce, Leading, Granted
  <2>5. AnswersAgree'
    BY <1>0, <2>1, <2>2 DEF IInv, AnswersAgree
  <2> QED
    BY <2>3, <2>4, <2>5 DEF CallsInv
<1>10. ASSUME NEW c \in Call, FenceRefused(c) PROVE CallsInv'
  BY <1>10, CallEnds DEF FenceRefused, Finished, Leading
<1>11. ASSUME NEW c \in Call, BrokerThrottles(c) PROVE CallsInv'
  BY <1>11, CallMoves DEF BrokerThrottles
<1>12. ASSUME NEW c \in Call, BrokerDispatches(c) PROVE CallsInv'
  <2>1. /\ pc[c] = "broker" /\ pc'[c] = "provider"
        /\ \A d \in Call \ {c} : pc'[d] = pc[d]
        /\ dispatched' = dispatched \cup {c} /\ dispatched \subseteq Call
        /\ UNCHANGED <<ledger, answer, inFlight>>
    BY <1>0, <1>12 DEF BrokerDispatches, TypeOK
  <2>2. Custody'
    BY <2>1 DEF IInv, Custody, Granted
  <2>3. Leadership'
    BY <2>1 DEF IInv, Leadership, Leading, Granted
  <2>4. DispatchedOnce'
    BY <2>1 DEF IInv, DispatchedOnce, Custody
  <2>5. AnswersAgree'
    BY <2>1 DEF IInv, AnswersAgree
  <2> QED
    BY <2>2, <2>3, <2>4, <2>5 DEF CallsInv
<1>13. ASSUME NEW c \in Call, ProviderAnswers(c) PROVE CallsInv'
  BY <1>13, CallMoves DEF ProviderAnswers
<1>14. ASSUME NEW c \in Call, ProviderFails(c) PROVE CallsInv'
  BY <1>14, CallEnds DEF ProviderFails, Finished, Leading, Granted
<1>15. ASSUME NEW c \in Call, Settle(c) PROVE CallsInv'
  <2>1. /\ \A o \in Op \ {CallOp[c]} : ledger'[o] = ledger[o]
        /\ ledger[CallOp[c]].state = "UNKNOWN_USAGE"
        /\ ledger'[CallOp[c]].state = "SETTLED"
        /\ ledger[CallOp[c]].digest = CallDigest[c]
        /\ ledger'[CallOp[c]].digest = CallDigest[c]
        /\ ledger'[CallOp[c]].result = c
    BY <1>0, <1>15, SettledRow DEF Settle, TypeOK
  <2>2. /\ pc[c] = "settle" /\ pc[c] \in Leading /\ "answered" \in Finished
        /\ Finish(c, "answered", c)
        /\ UNCHANGED dispatched /\ dispatched \subseteq Call
    BY <1>0, <1>15 DEF Settle, TypeOK, Leading, Granted, Finished
  <2>3. \A d \in Call : pc'[d] \in Leading \cup {"joined"} =>
          /\ pc'[d] = pc[d]
          /\ inFlight'[CallProc[d]][CallOp[d]] = inFlight[CallProc[d]][CallOp[d]]
    BY <2>2, PartyEnds
  <2>4. pc'[c] = "answered" /\ c \in Party(c)
    BY <2>2, PartyEnds DEF Party
  <2>5. \A d \in Call : CallOp[d] # CallOp[c] => ledger'[CallOp[d]] = ledger[CallOp[d]]
    BY <1>0, <2>1
  <2>6. Custody'
    BY <2>1, <2>2, <2>3, <2>4, <2>5 DEF IInv, Custody, Leading, Granted
  <2>7. Leadership' /\ DispatchedOnce'
    BY <2>2, <2>3 DEF IInv, Leadership, DispatchedOnce
  <2>8. AnswersAgree'
    <3> SUFFICES ASSUME NEW d \in Call, pc'[d] = "answered"
                 PROVE  /\ ledger'[CallOp[d]].state = "SETTLED"
                        /\ answer'[d] = ledger'[CallOp[d]].result
                        /\ ledger'[CallOp[d]].digest = CallDigest[d]
      BY DEF AnswersAgree
    <3>1. CASE d \in Party(c)
      BY <3>1, <2>1, <2>2, PartyEnds
    <3>2. CASE d \notin Party(c)
      <4>1. pc[d] = "answered" /\ answer'[d] = answer[d]
        BY <3>2, <2>2, PartyEnds
      <4> QED
        BY <4>1, <2>1, <2>5 DEF IInv, AnswersAgree
    <3> QED
      BY <3>1, <3>2
  <2> QED
    BY <2>6, <2>7, <2>8 DEF CallsInv
<1>16. ASSUME NEW c \in Call, Busy(c) PROVE CallsInv'
  BY <1>16, CallEnds DEF Busy, Finished, Leading, Granted
<1>17. ASSUME UNCHANGED vars PROVE CallsInv'
  <2>1. /\ \A o \in Op : ledger'[o] = ledger[o]
        /\ UNCHANGED <<pc, answer, inFlight, dispatched>>
    BY <1>17 DEF vars
  <2> QED
    BY <2>1, CallsAside
<1>18. ASSUME NEW c \in Call, CallNext(c) PROVE CallsInv'
  BY <1>3, <1>4, <1>5, <1>6, <1>7, <1>8, <1>9, <1>10, <1>11, <1>12, <1>13,
     <1>14, <1>15, <1>16, <1>18 DEF CallNext
<1>19. CallsInv'
  BY <1>1, <1>2, <1>17, <1>18 DEF Next
<1> QED
  BY <1>0, <1>19 DEF IInv, CallsInv

(* Every reachable state satisfies the inductive invariant. *)
LEMMA Inductive == Spec => []IInv
<1>1. IInv /\ [Next]_vars => IInv'
  BY InvStep
<1> QED
  BY InitIInv, <1>1, PTL DEF Spec

(* Every state of the ledger, the calls and the controllers is well formed.   *)
THEOREM TypeCorrect == Spec => []TypeOK
<1>1. IInv => TypeOK
  BY DEF IInv
<1> QED
  BY Inductive, <1>1, PTL

(* An operation reaches the provider at most once, however many calls,        *)
(* processes, kills and retries there are: the UNKNOWN_USAGE mark is granted  *)
(* to one caller and the row never goes back.                                 *)
THEOREM AtMostOneDispatch == Spec => []DispatchedOnce
<1>1. IInv => DispatchedOnce
  BY DEF IInv
<1> QED
  BY Inductive, <1>1, PTL

(* All callers answered for one operation were given the one observation the  *)
(* ledger persisted, for the digest it reserved.                              *)
THEOREM OneAnswer == Spec => []AnswersAgree
<1>1. IInv => AnswersAgree
  BY DEF IInv
<1> QED
  BY Inductive, <1>1, PTL

-----------------------------------------------------------------------------
(* What a step may do to the ledger *)

(* The six steps that write a row; every other one leaves the ledger alone. *)
LEMMA LedgerSteps ==
  ASSUME [Next]_vars
  PROVE  \/ UNCHANGED ledger
         \/ \E p \in Proc : \/ ActivateReserve(p) \/ ActivateFence(p)
                            \/ ActivateSettle(p)
         \/ \E c \in Call : ReserveHeld(c) \/ FenceGranted(c) \/ Settle(c)
<1>1. CASE UNCHANGED vars
  BY <1>1 DEF vars
<1>2. ASSUME NEW p \in Proc, OwnerNext(p) \/ Kill(p)
      PROVE  \/ UNCHANGED ledger
             \/ ActivateReserve(p) \/ ActivateFence(p) \/ ActivateSettle(p)
  BY <1>2 DEF OwnerNext, Plan, Activate, ActivateBusy, Kill
<1>3. ASSUME NEW c \in Call, CallNext(c)
      PROVE  UNCHANGED ledger \/ ReserveHeld(c) \/ FenceGranted(c) \/ Settle(c)
  BY <1>3 DEF CallNext, InvokeDenied, InvokeJoins, InvokeLeads, ReserveDenied,
              ReserveAnswered, ReserveResumed, FenceRefused, BrokerThrottles,
              BrokerDispatches, ProviderAnswers, ProviderFails, Busy
<1> QED
  BY <1>1, <1>2, <1>3 DEF Next

(* What HoldsOnlySettle says of one step. *)
HoldsKept ==
    \A o \in Op :
        /\ ledger[o].state = "SETTLED" => ledger'[o] = ledger[o]
        /\ ledger[o].state = "UNKNOWN_USAGE" /\ ledger'[o] # ledger[o] =>
             /\ ledger'[o].state = "SETTLED"
             /\ pc[ledger'[o].result] = "settle" /\ CallOp[ledger'[o].result] = o
             /\ (\E c \in dispatched : CallOp[c] = o) => ledger'[o].result \in dispatched
        /\ ledger[o].state = "RESERVED" => ledger'[o].state # "ABSENT"

LEMMA HoldsStep == ASSUME IInv, [Next]_vars PROVE HoldsKept
<1>0. TypeOK
  BY DEF IInv
<1>1. CASE UNCHANGED ledger
  BY <1>1 DEF HoldsKept
<1>2. ASSUME NEW p \in Proc,
             ActivateReserve(p) \/ ActivateFence(p) \/ ActivateSettle(p)
      PROVE  HoldsKept
  <2>1. \A o \in Op : ledger'[o] = ledger[o]
    BY <1>0, <1>2, SetsAssumption
       DEF ActivateReserve, ActivateFence, ActivateSettle, TypeOK, Row
  <2> QED
    BY <2>1 DEF HoldsKept
<1>3. ASSUME NEW c \in Call, ReserveHeld(c) PROVE HoldsKept
  <2>1. /\ \A o \in Op \ {CallOp[c]} : ledger'[o] = ledger[o]
        /\ ledger[CallOp[c]].state = "ABSENT"
    BY <1>0, <1>3, SetsAssumption DEF ReserveHeld, Exists, TypeOK, Row
  <2> QED
    BY <2>1 DEF HoldsKept
<1>4. ASSUME NEW c \in Call, FenceGranted(c) PROVE HoldsKept
  <2>1. /\ \A o \in Op \ {CallOp[c]} : ledger'[o] = ledger[o]
        /\ ledger[CallOp[c]].state = "RESERVED"
        /\ ledger'[CallOp[c]].state = "UNKNOWN_USAGE"
    BY <1>0, <1>4, MarkedRow, SetsAssumption DEF FenceGranted, TypeOK, Row
  <2> QED
    BY <2>1 DEF HoldsKept
<1>5. ASSUME NEW c \in Call, Settle(c) PROVE HoldsKept
  <2>1. /\ pc[c] = "settle"
        /\ \A o \in Op \ {CallOp[c]} : ledger'[o] = ledger[o]
        /\ ledger[CallOp[c]].state = "UNKNOWN_USAGE"
        /\ ledger'[CallOp[c]].state = "SETTLED"
        /\ ledger'[CallOp[c]].result = c
    BY <1>0, <1>5, SettledRow, SetsAssumption DEF Settle, TypeOK, Row
  <2>2. \A d \in dispatched : CallOp[d] = CallOp[c] => d = c
    BY <2>1 DEF IInv, Custody, Granted
  <2> QED
    BY <2>1, <2>2 DEF HoldsKept
<1> QED
  BY <1>1, <1>2, <1>3, <1>4, <1>5, LedgerSteps

(* A settled row stays as it is; a hold of unknown usage ends only in a       *)
(* settlement, by the call that dispatched the operation if one did: no kill, *)
(* retry or other caller releases it.                                         *)
THEOREM HoldsSettle == Spec => HoldsOnlySettle
<1>1. IInv /\ [Next]_vars => HoldsKept
  BY HoldsStep
<1>2. Spec => [][HoldsKept]_vars
  BY Inductive, <1>1, PTL DEF Spec
<1> QED
  BY <1>2 DEF HoldsOnlySettle, HoldsKept

-----------------------------------------------------------------------------
(* The selection comes first *)

LEMMA SelectedStays == ASSUME TypeOK, Selected, [Next]_vars PROVE Selected'
<1>1. CASE UNCHANGED ledger
  BY <1>1 DEF Selected
<1>2. ASSUME NEW p \in Proc,
             ActivateReserve(p) \/ ActivateFence(p) \/ ActivateSettle(p)
      PROVE  Selected'
  <2>1. ledger[Selection] \in RowRecord
    BY DEF TypeOK, Row
  <2>2. CASE UNCHANGED ledger
    BY <2>2 DEF Selected
  <2>3. CASE ActivateSettle(p)
    BY <2>1, <2>3, SettledRow, LimitsAssumption
       DEF ActivateSettle, Selected, TypeOK, Row
  <2> QED
    BY <1>2, <2>2, <2>3 DEF ActivateReserve, ActivateFence, Selected
<1>3. ASSUME NEW c \in Call, ReserveHeld(c) \/ FenceGranted(c) \/ Settle(c)
      PROVE  Selected'
  <2>1. ledger'[Selection] = ledger[Selection]
    BY <1>3, SetsAssumption DEF ReserveHeld, FenceGranted, Settle, TypeOK, Row
  <2> QED
    BY <2>1 DEF Selected
<1> QED
  BY <1>1, <1>2, <1>3, LedgerSteps

(* A call that leads its operation entered after the selection was settled.   *)
LedAfterSelection == \A c \in Call : pc[c] \in Leading => Selected

LEMMA SelectionStep ==
  ASSUME TypeOK, LedAfterSelection, DispatchedAfterSelection, [Next]_vars
  PROVE  LedAfterSelection' /\ DispatchedAfterSelection'
<1>1. CASE Selected
  BY <1>1, SelectedStays DEF LedAfterSelection, DispatchedAfterSelection
<1>2. CASE ~Selected
  <2>1. dispatched = {} /\ \A c \in Call : pc[c] \notin Leading
    BY <1>2 DEF LedAfterSelection, DispatchedAfterSelection
  <2>2. CASE UNCHANGED <<pc, dispatched>>
    BY <2>1, <2>2 DEF LedAfterSelection, DispatchedAfterSelection
  <2>3. ASSUME NEW p \in Proc, OwnerNext(p) \/ Kill(p)
        PROVE  dispatched' = {} /\ \A c \in Call : pc'[c] \notin Leading
    BY <2>1, <2>3 DEF OwnerNext, Plan, Activate, ActivateReserve, ActivateFence,
       ActivateSettle, ActivateBusy, Kill, Leading, Granted
  <2>4. ASSUME NEW c \in Call, CallNext(c)
        PROVE  dispatched' = {} /\ \A d \in Call : pc'[d] \notin Leading
    <3>1. InvokeDenied(c)
      BY <1>2, <2>1, <2>4 DEF CallNext, InvokeJoins, InvokeLeads, ReserveDenied,
         ReserveAnswered, ReserveResumed, ReserveHeld, FenceGranted, FenceRefused,
         BrokerThrottles, BrokerDispatches, ProviderAnswers, ProviderFails,
         Settle, Busy, Leading, Granted
    <3> QED
      BY <2>1, <3>1 DEF InvokeDenied, TypeOK, Leading, Granted
  <2> QED
    BY <2>2, <2>3, <2>4 DEF Next, vars, LedAfterSelection, DispatchedAfterSelection
<1> QED
  BY <1>1, <1>2

(* Nothing reaches the provider before an owner has settled the selection of  *)
(* the template, and a settled selection stays.                               *)
THEOREM SelectionFirst == Spec => []DispatchedAfterSelection
<1>1. Init => LedAfterSelection /\ DispatchedAfterSelection
  BY DEF Init, LedAfterSelection, DispatchedAfterSelection, Leading, Granted
<1>2. /\ TypeOK /\ LedAfterSelection /\ DispatchedAfterSelection /\ [Next]_vars
      => LedAfterSelection' /\ DispatchedAfterSelection'
  BY SelectionStep
<1> QED
  BY TypeCorrect, <1>1, <1>2, PTL DEF Spec

-----------------------------------------------------------------------------
(* Sums over a finite set.  The fold behind SumFunctionOnSet is a recursive  *)
(* function on the subsets of the set; what it computes is proved by looking *)
(* at a minimal subset for which it would fail.                              *)

Pick(s) == CHOOSE x \in s : TRUE

(* h is the sum of f over each of the subsets of S. *)
Sums(h, f, S) ==
    h = [s \in SUBSET S |-> IF s = {} THEN 0 ELSE f[Pick(s)] + h[s \ {Pick(s)}]]

(* A nonempty set of subsets of a finite set has a minimal element. *)
LEMMA MinimalSet ==
  ASSUME NEW S, IsFiniteSet(S), NEW T, T \subseteq SUBSET S, T # {}
  PROVE  \E s \in T : \A t \in T : t \subseteq s => t = s
<1>1. IsWellFoundedOn(StrictSubsetOrdering(S), FiniteSubsetsOf(S))
  BY FS_StrictSubsetOrderingWellFounded
<1>2. T \subseteq FiniteSubsetsOf(S)
  BY FS_Subset DEF FiniteSubsetsOf
<1>3. PICK s \in T : \A t \in T : <<t, s>> \notin StrictSubsetOrdering(S)
  BY <1>1, <1>2, WFMin
<1> QED
  BY <1>3 DEF StrictSubsetOrdering

(* A sum is the value of a function that satisfies the recursion. *)
LEMMA SumIsChosen ==
  ASSUME NEW f, NEW S
  PROVE  SumFunctionOnSet(f, S) = (CHOOSE h : Sums(h, f, S))[S]
  BY DEF SumFunctionOnSet, FoldFunctionOnSet, MapThenFoldSet, Sums, Pick

(* Its value on one subset. *)
LEMMA SumsValue ==
  ASSUME NEW f, NEW S, NEW h, Sums(h, f, S), NEW s \in SUBSET S
  PROVE  h[s] = IF s = {} THEN 0 ELSE f[Pick(s)] + h[s \ {Pick(s)}]
  BY DEF Sums

(* What the recursion gives depends on nothing but the summands. *)
LEMMA SumsAgree ==
  ASSUME NEW f, NEW g, NEW S, NEW T, NEW h, NEW k, Sums(h, f, S), Sums(k, g, T),
         NEW U, IsFiniteSet(U), U \subseteq S, U \subseteq T,
         \A x \in U : f[x] = g[x]
  PROVE  h[U] = k[U]
<1> DEFINE Bad == {s \in SUBSET U : h[s] # k[s]}
<1> SUFFICES ASSUME Bad # {} PROVE FALSE
  OBVIOUS
<1>1. PICK s \in Bad : \A t \in Bad : t \subseteq s => t = s
  <2>1. Bad \subseteq SUBSET U
    OBVIOUS
  <2> HIDE DEF Bad
  <2> QED
    BY <2>1, MinimalSet
<1>2. /\ h[s] = IF s = {} THEN 0 ELSE f[Pick(s)] + h[s \ {Pick(s)}]
      /\ k[s] = IF s = {} THEN 0 ELSE g[Pick(s)] + k[s \ {Pick(s)}]
  <2>1. s \in SUBSET S /\ s \in SUBSET T
    OBVIOUS
  <2> HIDE DEF Bad
  <2> QED
    BY <2>1, SumsValue
<1>3. s # {}
  BY <1>2
<1>4. Pick(s) \in s
  BY <1>3 DEF Pick
<1>5. h[s \ {Pick(s)}] = k[s \ {Pick(s)}]
  BY <1>1, <1>4
<1> QED
  BY <1>2, <1>3, <1>4, <1>5

(* Every finite set has a function that satisfies the recursion. *)
LEMMA SumsExist ==
  ASSUME NEW f, NEW S, IsFiniteSet(S)
  PROVE  Sums(CHOOSE h : Sums(h, f, S), f, S)
<1> SUFFICES \E h : Sums(h, f, S)
  OBVIOUS
<1> DEFINE Of(s) == CHOOSE h : Sums(h, f, s)
           Bad == {s \in SUBSET S : ~ \E h : Sums(h, f, s)}
<1> SUFFICES ASSUME Bad # {} PROVE FALSE
  OBVIOUS
<1>1. PICK s \in Bad : \A t \in Bad : t \subseteq s => t = s
  <2>1. Bad \subseteq SUBSET S
    OBVIOUS
  <2> HIDE DEF Bad
  <2> QED
    BY <2>1, MinimalSet
<1>2. ASSUME NEW t \in SUBSET s, t # s PROVE Sums(Of(t), f, t)
  BY <1>1, <1>2
<1>3. ASSUME NEW t \in SUBSET s, t # {} PROVE Pick(t) \in t /\ t \ {Pick(t)} # s
  BY <1>3 DEF Pick
<1> DEFINE hs == [t \in SUBSET s |-> IF t = {} THEN 0
                    ELSE f[Pick(t)] + Of(t \ {Pick(t)})[t \ {Pick(t)}]]
<1>4. ASSUME NEW t \in SUBSET s, t # s PROVE hs[t] = Of(t)[t]
  <2>1. Of(t)[t] = IF t = {} THEN 0 ELSE f[Pick(t)] + Of(t)[t \ {Pick(t)}]
    <3> HIDE DEF Of
    <3> QED
      BY <1>2, <1>4, SumsValue
  <2>2. CASE t = {}
    BY <2>1, <2>2
  <2>3. CASE t # {}
    <3> DEFINE u == t \ {Pick(t)}
    <3>1. Pick(t) \in t /\ u \in SUBSET s /\ u # s /\ u \subseteq t
      BY <1>3, <2>3
    <3>2. Sums(Of(u), f, u) /\ Sums(Of(t), f, t)
      BY <1>2, <1>4, <3>1
    <3>3. IsFiniteSet(u)
      BY FS_Subset, <3>1
    <3>4. Of(u)[u] = Of(t)[u]
      <4> HIDE DEF u, Of
      <4> QED
        BY SumsAgree, <3>1, <3>2, <3>3
    <3> QED
      BY <2>1, <2>3, <3>4
  <2> QED
    BY <2>2, <2>3
<1>5. ASSUME NEW t \in SUBSET s
      PROVE  hs[t] = IF t = {} THEN 0 ELSE f[Pick(t)] + hs[t \ {Pick(t)}]
  <2>1. CASE t = {}
    BY <2>1
  <2>2. CASE t # {}
    <3>1. hs[t] = f[Pick(t)] + Of(t \ {Pick(t)})[t \ {Pick(t)}]
      BY <2>2
    <3>2. hs[t \ {Pick(t)}] = Of(t \ {Pick(t)})[t \ {Pick(t)}]
      BY <1>3, <1>4, <2>2
    <3> QED
      BY <2>2, <3>1, <3>2
  <2> QED
    BY <2>1, <2>2
<1>6. Sums(hs, f, s)
  <2>1. hs = [t \in SUBSET s |-> hs[t]]
    OBVIOUS
  <2> HIDE DEF hs
  <2> QED
    BY <1>5, <2>1 DEF Sums
<1> QED
  BY <1>6

(* A sum over nothing, and a sum with its chosen element taken out. *)
LEMMA SumUnfolds ==
  ASSUME NEW f, NEW S, IsFiniteSet(S)
  PROVE  SumFunctionOnSet(f, S) =
           IF S = {} THEN 0
           ELSE f[Pick(S)] + SumFunctionOnSet(f, S \ {Pick(S)})
<1> DEFINE T == S \ {Pick(S)}
           h == CHOOSE q : Sums(q, f, S)
           k == CHOOSE q : Sums(q, f, T)
<1>1. IsFiniteSet(T) /\ T \subseteq S /\ S \in SUBSET S
  BY FS_Subset
<1>2. Sums(h, f, S) /\ Sums(k, f, T)
  BY <1>1, SumsExist
<1>3. SumFunctionOnSet(f, S) = h[S] /\ SumFunctionOnSet(f, T) = k[T]
  BY SumIsChosen
<1> HIDE DEF h, k, T
<1>4. \A s \in SUBSET S : h[s] = IF s = {} THEN 0 ELSE f[Pick(s)] + h[s \ {Pick(s)}]
  BY <1>2, SumsValue
<1>5. h[T] = k[T]
  BY <1>1, <1>2, SumsAgree
<1> QED
  BY <1>1, <1>3, <1>4, <1>5 DEF T

(* Equal summands have equal sums. *)
LEMMA SumAgrees ==
  ASSUME NEW f, NEW g, NEW S, IsFiniteSet(S), \A x \in S : f[x] = g[x]
  PROVE  SumFunctionOnSet(f, S) = SumFunctionOnSet(g, S)
<1> DEFINE h == CHOOSE q : Sums(q, f, S)
           k == CHOOSE q : Sums(q, g, S)
<1>1. Sums(h, f, S) /\ Sums(k, g, S)
  BY SumsExist
<1>2. SumFunctionOnSet(f, S) = h[S] /\ SumFunctionOnSet(g, S) = k[S]
  BY SumIsChosen
<1> HIDE DEF h, k
<1>3. h[S] = k[S]
  BY <1>1, SumsAgree
<1> QED
  BY <1>2, <1>3

(* A sum of natural numbers is one. *)
LEMMA SumIsNat ==
  ASSUME NEW f, NEW S, IsFiniteSet(S), \A x \in S : f[x] \in Nat
  PROVE  SumFunctionOnSet(f, S) \in Nat
<1> DEFINE Bad == {s \in SUBSET S : SumFunctionOnSet(f, s) \notin Nat}
<1> SUFFICES ASSUME Bad # {} PROVE FALSE
  <2>1. S \in SUBSET S
    OBVIOUS
  <2> QED
    BY <2>1
<1>1. PICK s \in Bad : \A t \in Bad : t \subseteq s => t = s
  <2>1. Bad \subseteq SUBSET S
    OBVIOUS
  <2> HIDE DEF Bad
  <2> QED
    BY <2>1, MinimalSet
<1>2. SumFunctionOnSet(f, s) =
        IF s = {} THEN 0 ELSE f[Pick(s)] + SumFunctionOnSet(f, s \ {Pick(s)})
  BY SumUnfolds, FS_Subset
<1>3. s # {}
  BY <1>2
<1>4. Pick(s) \in s
  BY <1>3 DEF Pick
<1>5. SumFunctionOnSet(f, s \ {Pick(s)}) \in Nat
  BY <1>1, <1>4
<1> QED
  BY <1>2, <1>3, <1>4, <1>5

(* Any element may be taken out of a sum, not only the chosen one. *)
LEMMA SumWithout ==
  ASSUME NEW f, NEW S, IsFiniteSet(S), \A x \in S : f[x] \in Nat, NEW x \in S
  PROVE  SumFunctionOnSet(f, S) = f[x] + SumFunctionOnSet(f, S \ {x})
<1> DEFINE Sum(s) == SumFunctionOnSet(f, s)
           Bad == {s \in SUBSET S : \E e \in s : Sum(s) # f[e] + Sum(s \ {e})}
<1> SUFFICES ASSUME Bad # {} PROVE FALSE
  <2>1. S \in SUBSET S
    OBVIOUS
  <2> QED
    BY <2>1
<1>1. PICK s \in Bad : \A t \in Bad : t \subseteq s => t = s
  <2>1. Bad \subseteq SUBSET S
    OBVIOUS
  <2> HIDE DEF Bad
  <2> QED
    BY <2>1, MinimalSet
<1>2. PICK e \in s : Sum(s) # f[e] + Sum(s \ {e})
  OBVIOUS
<1> DEFINE d == Pick(s)
<1>3. d \in s
  BY <1>2 DEF Pick
<1>4. Sum(s) = f[d] + Sum(s \ {d})
  BY <1>2, SumUnfolds, FS_Subset
<1>5. d # e
  BY <1>2, <1>4
<1> HIDE DEF d
<1>6. s \ {d} \notin Bad /\ s \ {e} \notin Bad
  BY <1>1, <1>3
<1>7. /\ Sum(s \ {d}) = f[e] + Sum((s \ {d}) \ {e})
      /\ Sum(s \ {e}) = f[d] + Sum((s \ {d}) \ {e})
  <2>1. (s \ {d}) \ {e} = (s \ {e}) \ {d}
    OBVIOUS
  <2> QED
    BY <1>3, <1>5, <1>6, <2>1
<1>8. IsFiniteSet((s \ {d}) \ {e})
  BY FS_Subset
<1>9. /\ f[d] \in Nat /\ f[e] \in Nat
      /\ Sum((s \ {d}) \ {e}) \in Nat
  BY <1>3, <1>8, SumIsNat
<1> HIDE DEF Sum, Bad
<1> QED
  BY <1>2, <1>4, <1>7, <1>9

(* A sum changes by what one of its summands does. *)
LEMMA SumChanges ==
  ASSUME NEW S, IsFiniteSet(S), NEW f, NEW g, NEW x \in S,
         \A y \in S : f[y] \in Nat /\ g[y] \in Nat,
         \A y \in S \ {x} : g[y] = f[y]
  PROVE  SumFunctionOnSet(g, S) = SumFunctionOnSet(f, S) - f[x] + g[x]
<1>1. IsFiniteSet(S \ {x})
  BY FS_Subset
<1>2. SumFunctionOnSet(g, S \ {x}) = SumFunctionOnSet(f, S \ {x})
  BY <1>1, SumAgrees
<1>3. SumFunctionOnSet(f, S \ {x}) \in Nat
  BY <1>1, SumIsNat
<1>4. /\ SumFunctionOnSet(f, S) = f[x] + SumFunctionOnSet(f, S \ {x})
      /\ SumFunctionOnSet(g, S) = g[x] + SumFunctionOnSet(g, S \ {x})
  BY SumWithout
<1> QED
  BY <1>2, <1>3, <1>4

(* A sum of zeros is zero, and a sum with one other summand is that one. *)
LEMMA SumOfZeros ==
  ASSUME NEW S, IsFiniteSet(S), NEW f, \A x \in S : f[x] = 0
  PROVE  SumFunctionOnSet(f, S) = 0
<1> DEFINE Bad == {s \in SUBSET S : SumFunctionOnSet(f, s) # 0}
<1> SUFFICES ASSUME Bad # {} PROVE FALSE
  <2>1. S \in SUBSET S
    OBVIOUS
  <2> QED
    BY <2>1
<1>1. PICK s \in Bad : \A t \in Bad : t \subseteq s => t = s
  <2>1. Bad \subseteq SUBSET S
    OBVIOUS
  <2> HIDE DEF Bad
  <2> QED
    BY <2>1, MinimalSet
<1>2. SumFunctionOnSet(f, s) =
        IF s = {} THEN 0 ELSE f[Pick(s)] + SumFunctionOnSet(f, s \ {Pick(s)})
  BY SumUnfolds, FS_Subset
<1>3. s # {}
  BY <1>2
<1>4. Pick(s) \in s
  BY <1>3 DEF Pick
<1>5. SumFunctionOnSet(f, s \ {Pick(s)}) = 0
  BY <1>1, <1>4
<1> QED
  BY <1>2, <1>3, <1>4, <1>5

LEMMA SumOfOne ==
  ASSUME NEW S, IsFiniteSet(S), NEW f, NEW x \in S, f[x] \in Nat,
         \A y \in S \ {x} : f[y] = 0
  PROVE  SumFunctionOnSet(f, S) = f[x]
<1>1. SumFunctionOnSet(f, S \ {x}) = 0
  BY FS_Subset, SumOfZeros
<1>2. \A y \in S : f[y] \in Nat
  OBVIOUS
<1>3. SumFunctionOnSet(f, S) = f[x] + SumFunctionOnSet(f, S \ {x})
  BY <1>2, SumWithout
<1> QED
  BY <1>1, <1>3

-----------------------------------------------------------------------------
(* The limits *)

Charges == [row \in Row |-> ModelCharge(row)]

(* A row is charged at most the hold, before, at and after the settlement. *)
LEMMA ChargeBounds ==
  ASSUME TypeOK, NEW row \in Row
  PROVE  Charges[row] \in 0 .. ModelHold
  BY LimitsAssumption DEF TypeOK, RowRecord, ModelCharge, Charges

(* What is committed, in this state and in the next, as a sum of charges. *)
LEMMA CommittedIsSum ==
  /\ ModelCommitted = SumFunctionOnSet(Charges, Present)
  /\ ModelCommitted' = SumFunctionOnSet(Charges', Present')
  BY DEF ModelCommitted, Charges

(* The bounds of a charge in the next state. *)
LEMMA ChargesPrimed ==
  ASSUME TypeOK'
  PROVE  \A row \in Row : Charges'[row] \in 0 .. ModelHold
  BY LimitsAssumption DEF TypeOK, RowRecord, ModelCharge, Charges

(* A new row adds what it is charged, and one runtime unit. *)
LEMMA CommittedAdds ==
  ASSUME TypeOK, TypeOK', IsFiniteSet(Present), NEW row \in Row \ Present,
         Present' = Present \cup {row},
         \A other \in Present : Charges'[other] = Charges[other]
  PROVE  /\ IsFiniteSet(Present)'
         /\ ModelCommitted' = Charges'[row] + ModelCommitted
         /\ RuntimeCommitted' = RuntimeCommitted + 1
<1>1. IsFiniteSet(Present') /\ Cardinality(Present') = Cardinality(Present) + 1
  BY FS_AddElement, Zenon
<1>2. \A r \in Present' : Charges'[r] \in Nat
  BY ChargesPrimed, LimitsAssumption DEF Present
<1>3. Present' \ {row} = Present
  OBVIOUS
<1>4. SumFunctionOnSet(Charges', Present')
        = Charges'[row] + SumFunctionOnSet(Charges', Present)
  BY <1>1, <1>2, <1>3, SumWithout
<1>5. SumFunctionOnSet(Charges', Present) = SumFunctionOnSet(Charges, Present)
  BY SumAgrees
<1> QED
  BY <1>1, <1>4, <1>5, CommittedIsSum DEF RuntimeCommitted

(* A row that stays and is charged no more than before raises nothing. *)
LEMMA CommittedKeeps ==
  ASSUME TypeOK, TypeOK', IsFiniteSet(Present), Present' = Present, NEW row \in Present,
         Charges'[row] <= Charges[row],
         \A other \in Present \ {row} : Charges'[other] = Charges[other]
  PROVE  /\ IsFiniteSet(Present)'
         /\ ModelCommitted' \in Nat
         /\ ModelCommitted' <= ModelCommitted
         /\ RuntimeCommitted' = RuntimeCommitted
<1>1. \A r \in Present : Charges[r] \in Nat /\ Charges'[r] \in Nat
  BY ChargeBounds, ChargesPrimed, LimitsAssumption DEF Present
<1>2. SumFunctionOnSet(Charges', Present)
        = SumFunctionOnSet(Charges, Present) - Charges[row] + Charges'[row]
  BY <1>1, SumChanges
<1>3. /\ SumFunctionOnSet(Charges, Present) \in Nat
      /\ SumFunctionOnSet(Charges', Present) \in Nat
  BY <1>1, SumIsNat
<1> QED
  BY <1>1, <1>2, <1>3, CommittedIsSum DEF RuntimeCommitted

(* A reservation adds one row, charged with its hold, and changes no other. *)
LEMMA NewHold ==
  ASSUME TypeOK, NEW row \in Row, NEW digest \in Digests \cup {NoCall},
         ledger[row].state = "ABSENT",
         ledger' = [ledger EXCEPT ![row] = Hold(digest)]
  PROVE  /\ row \in Row \ Present /\ Present' = Present \cup {row}
         /\ \A other \in Present : Charges'[other] = Charges[other]
         /\ Charges'[row] = IF row = Selection THEN 0 ELSE ModelHold
<1>1. \A other \in Row \ {row} : ledger'[other] = ledger[other]
  BY DEF TypeOK
<1>2. ledger'[row].state = "RESERVED"
  BY HoldRow DEF TypeOK
<1>3. row \in Row \ Present /\ Present' = Present \cup {row}
  BY <1>1, <1>2 DEF Present
<1>4. \A other \in Present : Charges'[other] = Charges[other]
  BY <1>1, <1>3 DEF Present, Charges, ModelCharge
<1> QED
  BY <1>2, <1>3, <1>4 DEF Charges, ModelCharge

(* A mark or a settlement adds no row and charges its own no more than before. *)
LEMMA RowMoves ==
  ASSUME TypeOK, TypeOK', NEW row \in Row, NEW new \in RowRecord,
         ledger' = [ledger EXCEPT ![row] = new],
         ledger[row].state \in {"RESERVED", "UNKNOWN_USAGE"},
         new.state # "ABSENT"
  PROVE  /\ row \in Present /\ Present' = Present
         /\ \A other \in Present \ {row} : Charges'[other] = Charges[other]
         /\ Charges'[row] <= Charges[row]
<1>1. \A other \in Row \ {row} : ledger'[other] = ledger[other]
  BY DEF TypeOK
<1>2. ledger'[row].state # "ABSENT"
  BY DEF TypeOK
<1>3. row \in Present /\ Present' = Present
  BY <1>1, <1>2 DEF Present
<1>4. \A other \in Present \ {row} : Charges'[other] = Charges[other]
  BY <1>1 DEF Present, Charges, ModelCharge
<1>5. Charges[row] = IF row = Selection THEN 0 ELSE ModelHold
  BY DEF Charges, ModelCharge
<1>6. row = Selection => Charges'[row] = 0
  BY DEF Charges, ModelCharge
<1>7. Charges'[row] <= Charges[row]
  BY <1>5, <1>6, ChargesPrimed, LimitsAssumption
<1> QED
  BY <1>3, <1>4, <1>7

(* One owner at a time settles the selection, and its row is marked then. *)
SelectionHeld ==
    \A p \in Proc : owner[p] = "settle" =>
        /\ ledger[Selection].state = "UNKNOWN_USAGE"
        /\ \A q \in Proc : owner[q] = "settle" => q = p

(* Only the one that moves the row out of RESERVED gets to settle it. *)
LEMMA HeldStep ==
  ASSUME TypeOK, SelectionHeld, [Next]_vars PROVE SelectionHeld'
<1>1. CASE UNCHANGED <<ledger, owner>>
  BY <1>1 DEF SelectionHeld
<1>2. ASSUME NEW p \in Proc, OwnerNext(p) \/ Kill(p) PROVE SelectionHeld'
  <2>1. ASSUME UNCHANGED ledger, \A q \in Proc : owner'[q] = "settle" => owner[q] = "settle"
        PROVE  SelectionHeld'
    BY <2>1 DEF SelectionHeld
  <2>2. CASE ActivateReserve(p) /\ ledger[Selection].state = "ABSENT"
    <3>1. \A q \in Proc : owner'[q] # "settle"
      BY <2>2 DEF ActivateReserve, TypeOK, SelectionHeld
    <3> QED
      BY <3>1 DEF SelectionHeld
  <2>3. CASE ActivateFence(p) /\ ledger[Selection].state = "RESERVED"
    <3>1. ledger'[Selection].state = "UNKNOWN_USAGE"
      BY <2>3, MarkedRow DEF ActivateFence, TypeOK, Row
    <3>2. \A q \in Proc : owner'[q] = "settle" => q = p
      BY <2>3 DEF ActivateFence, TypeOK, SelectionHeld
    <3> QED
      BY <3>1, <3>2 DEF SelectionHeld
  <2>4. CASE ActivateSettle(p)
    <3>1. \A q \in Proc : owner'[q] # "settle"
      BY <2>4 DEF ActivateSettle, TypeOK, SelectionHeld
    <3> QED
      BY <3>1 DEF SelectionHeld
  <2>5. CASE ActivateReserve(p) /\ ledger[Selection].state # "ABSENT"
    BY <2>1, <2>5 DEF ActivateReserve, TypeOK, Selected
  <2>6. CASE ActivateFence(p) /\ ledger[Selection].state # "RESERVED"
    BY <2>1, <2>6 DEF ActivateFence, TypeOK
  <2>7. CASE \/ \E id \in PlanId : Plan(p, id)
             \/ Activate(p) \/ ActivateBusy(p) \/ Kill(p)
    BY <2>1, <2>7 DEF Plan, Activate, ActivateBusy, Kill, TypeOK
  <2> QED
    BY <1>2, <2>2, <2>3, <2>4, <2>5, <2>6, <2>7 DEF OwnerNext
<1>3. ASSUME NEW c \in Call, CallNext(c) PROVE SelectionHeld'
  <2>1. UNCHANGED owner
    BY <1>3 DEF CallNext, InvokeDenied, InvokeJoins, InvokeLeads, ReserveDenied,
       ReserveAnswered, ReserveResumed, ReserveHeld, FenceGranted, FenceRefused,
       BrokerThrottles, BrokerDispatches, ProviderAnswers, ProviderFails, Settle, Busy
  <2>2. ledger'[Selection] = ledger[Selection]
    BY <1>3, SetsAssumption DEF TypeOK, Row, CallNext, InvokeDenied, InvokeJoins,
       InvokeLeads, ReserveDenied, ReserveAnswered, ReserveResumed, ReserveHeld,
       FenceGranted, FenceRefused, BrokerThrottles, BrokerDispatches,
       ProviderAnswers, ProviderFails, Settle, Busy
  <2> QED
    BY <2>1, <2>2 DEF SelectionHeld
<1> QED
  BY <1>1, <1>2, <1>3 DEF Next, vars

(* The limits hold, of finitely many rows. *)
Bounded == IsFiniteSet(Present) /\ WithinLimits

(* What is committed is a number as long as the rows are finitely many. *)
LEMMA CommittedNat ==
  ASSUME TypeOK, IsFiniteSet(Present)
  PROVE  ModelCommitted \in Nat /\ RuntimeCommitted \in Nat
<1>1. \A row \in Present : Charges[row] \in Nat
  BY ChargeBounds, LimitsAssumption DEF Present
<1> QED
  BY <1>1, SumIsNat, CommittedIsSum, FS_CardinalityType DEF RuntimeCommitted

(* A new row was admitted by both limits. *)
LEMMA AdmittedFits ==
  ASSUME TypeOK, TypeOK', Bounded, NEW row \in Row, NEW digest \in Digests \cup {NoCall},
         ledger[row].state = "ABSENT",
         ledger' = [ledger EXCEPT ![row] = Hold(digest)],
         Fits(IF row = Selection THEN 0 ELSE ModelHold)
  PROVE  Bounded'
<1>1. /\ row \in Row \ Present /\ Present' = Present \cup {row}
      /\ \A other \in Present : Charges'[other] = Charges[other]
      /\ Charges'[row] = IF row = Selection THEN 0 ELSE ModelHold
  BY NewHold
<1>2. /\ IsFiniteSet(Present)'
      /\ ModelCommitted' = Charges'[row] + ModelCommitted
      /\ RuntimeCommitted' = RuntimeCommitted + 1
  BY <1>1, CommittedAdds DEF Bounded
<1>3. ModelCommitted \in Nat /\ RuntimeCommitted \in Nat
  BY CommittedNat DEF Bounded
<1>4. ModelCommitted' <= ModelLimit /\ RuntimeCommitted' <= RuntimeLimit
  BY <1>1, <1>2, <1>3, LimitsAssumption DEF Fits
<1> QED
  BY <1>2, <1>4 DEF Bounded, WithinLimits

(* A row that moves keeps its charge or gives back what it did not consume. *)
LEMMA MovedFits ==
  ASSUME TypeOK, TypeOK', Bounded, NEW row \in Row, NEW new \in RowRecord,
         ledger' = [ledger EXCEPT ![row] = new],
         ledger[row].state \in {"RESERVED", "UNKNOWN_USAGE"},
         new.state # "ABSENT"
  PROVE  Bounded'
<1>1. /\ row \in Present /\ Present' = Present
      /\ \A other \in Present \ {row} : Charges'[other] = Charges[other]
      /\ Charges'[row] <= Charges[row]
  BY RowMoves
<1>2. /\ IsFiniteSet(Present)'
      /\ ModelCommitted' \in Nat
      /\ ModelCommitted' <= ModelCommitted
      /\ RuntimeCommitted' = RuntimeCommitted
  BY <1>1, CommittedKeeps DEF Bounded
<1>3. ModelCommitted \in Nat
  BY CommittedNat DEF Bounded
<1>4. ModelCommitted' <= ModelLimit /\ RuntimeCommitted' <= RuntimeLimit
  BY <1>2, <1>3, LimitsAssumption DEF Bounded, WithinLimits
<1> QED
  BY <1>2, <1>4 DEF Bounded, WithinLimits

(* The limits hold after each of the six steps that write a row. *)
LEMMA BoundedStep ==
  ASSUME TypeOK, TypeOK', SelectionHeld, Bounded, [Next]_vars PROVE Bounded'
<1> Selection \in Row
  BY DEF Row
<1> \A c \in Call : CallOp[c] \in Row /\ CallOp[c] # Selection /\ CallDigest[c] \in Digests
  BY SetsAssumption DEF Row, Digests
<1> \A row \in Row : ledger[row] \in RowRecord
  BY DEF TypeOK
<1>1. CASE UNCHANGED ledger
  <2>1. /\ Present' = Present /\ Charges' = Charges
        /\ ModelCommitted' = ModelCommitted
        /\ RuntimeCommitted' = RuntimeCommitted
    BY <1>1 DEF Present, Charges, ModelCharge, ModelCommitted, RuntimeCommitted
  <2> QED
    BY <2>1 DEF Bounded, WithinLimits
<1>2. ASSUME NEW p \in Proc, ActivateReserve(p) PROVE Bounded'
  <2>1. CASE ledger[Selection].state = "ABSENT" /\ Fits(0)
             /\ ledger' = [ledger EXCEPT ![Selection] = Hold(NoCall)]
    BY <2>1, AdmittedFits
  <2> QED
    BY <1>1, <1>2, <2>1 DEF ActivateReserve
<1>3. ASSUME NEW p \in Proc, ActivateFence(p) PROVE Bounded'
  <2>1. CASE ledger[Selection].state = "RESERVED"
    <3>1. ledger' = [ledger EXCEPT ![Selection] = Marked(ledger[Selection])]
      BY <1>3, <2>1 DEF ActivateFence
    <3> QED
      BY <2>1, <3>1, MarkedRow, MovedFits
  <2> QED
    BY <1>1, <1>3, <2>1 DEF ActivateFence
<1>4. ASSUME NEW p \in Proc, ActivateSettle(p) PROVE Bounded'
  <2>1. ledger[Selection].state = "UNKNOWN_USAGE"
    BY <1>4 DEF ActivateSettle, SelectionHeld
  <2>2. ledger' = [ledger EXCEPT ![Selection] = SettledWith(ledger[Selection], 0, NoCall)]
    BY <1>4 DEF ActivateSettle
  <2>3. /\ SettledWith(ledger[Selection], 0, NoCall) \in RowRecord
        /\ SettledWith(ledger[Selection], 0, NoCall).state = "SETTLED"
    BY SettledRow, LimitsAssumption
  <2> QED
    BY <2>1, <2>2, <2>3, MovedFits
<1>5. ASSUME NEW c \in Call, ReserveHeld(c) PROVE Bounded'
  <2>1. /\ ledger[CallOp[c]].state = "ABSENT" /\ Fits(ModelHold)
        /\ ledger' = [ledger EXCEPT ![CallOp[c]] = Hold(CallDigest[c])]
    BY <1>5 DEF ReserveHeld, Exists
  <2> QED
    BY <2>1, AdmittedFits
<1>6. ASSUME NEW c \in Call, FenceGranted(c) PROVE Bounded'
  <2>1. /\ ledger[CallOp[c]].state = "RESERVED"
        /\ ledger' = [ledger EXCEPT ![CallOp[c]] = Marked(ledger[CallOp[c]])]
    BY <1>6 DEF FenceGranted
  <2> QED
    BY <2>1, MarkedRow, MovedFits
<1>7. ASSUME NEW c \in Call, Settle(c) PROVE Bounded'
  <2>1. /\ ledger[CallOp[c]].state = "UNKNOWN_USAGE"
        /\ ledger' = [ledger EXCEPT ![CallOp[c]] = SettledWith(ledger[CallOp[c]], spent[c], c)]
    BY <1>7 DEF Settle
  <2>2. /\ SettledWith(ledger[CallOp[c]], spent[c], c) \in RowRecord
        /\ SettledWith(ledger[CallOp[c]], spent[c], c).state = "SETTLED"
    BY SettledRow DEF TypeOK
  <2> QED
    BY <2>1, <2>2, MovedFits
<1> QED
  BY <1>1, <1>2, <1>3, <1>4, <1>5, <1>6, <1>7, LedgerSteps

(* The template selection is settled by one owner at a time, over its own mark: *)
(* the others that found the row reserved are refused.                          *)
THEOREM SelectionOnce == Spec => []SelectionHeld
<1>1. Init => SelectionHeld
  BY DEF Init, SelectionHeld
<1>2. TypeOK /\ SelectionHeld /\ [Next]_vars => SelectionHeld'
  BY HeldStep
<1> QED
  BY TypeCorrect, <1>1, <1>2, PTL DEF Spec

(* The rows stay finitely many and inside the limits. *)
LEMMA BoundedHolds == Spec => []Bounded
<1>1. Init => Bounded
  <2> SUFFICES ASSUME Init PROVE Bounded
    OBVIOUS
  <2>1. Present = {}
    BY DEF Init, Present, Absent
  <2>2. IsFiniteSet(Present) /\ RuntimeCommitted = 0 /\ ModelCommitted = 0
    BY <2>1, FS_EmptySet, SumOfZeros, CommittedIsSum DEF RuntimeCommitted
  <2> QED
    BY <2>2, LimitsAssumption DEF Bounded, WithinLimits
<1>2. TypeOK /\ TypeOK' /\ SelectionHeld /\ Bounded /\ [Next]_vars => Bounded'
  BY BoundedStep
<1> QED
  BY TypeCorrect, SelectionOnce, <1>1, <1>2, PTL DEF Spec

(* Whatever is reserved, settled, retried or killed, and for any number of   *)
(* processes and operations: the rows of the ledger together never hold more *)
(* than either limit.                                                        *)
THEOREM LimitsHold == Spec => []WithinLimits
<1>1. Bounded => WithinLimits
  BY DEF Bounded
<1> QED
  BY BoundedHolds, <1>1, PTL

-----------------------------------------------------------------------------
(* What was consumed is charged *)

(* A provider call belongs to a dispatch and has consumed nothing yet, nothing *)
(* else consumes, and a settlement charges what its dispatch consumed.         *)
UsageIsDispatched ==
    /\ \A c \in Call : pc[c] = "provider" => c \in dispatched /\ spent[c] = 0
    /\ \A c \in Call \ dispatched : spent[c] = 0
    /\ \A c \in dispatched :
         ledger[CallOp[c]].state = "SETTLED" => spent[c] <= ledger[CallOp[c]].used

(* The settlement of an operation charges the call that dispatched it. *)
LEMMA UsageSettles ==
  ASSUME IInv, UsageIsDispatched, NEW c \in Call, Settle(c)
  PROVE  \A d \in dispatched :
           ledger'[CallOp[d]].state = "SETTLED" => spent[d] <= ledger'[CallOp[d]].used
<1> SUFFICES ASSUME NEW d \in dispatched, ledger'[CallOp[d]].state = "SETTLED"
             PROVE  spent[d] <= ledger'[CallOp[d]].used
  OBVIOUS
<1>1. /\ d \in Call /\ CallOp[d] \in Row /\ CallOp[c] \in Row
      /\ ledger \in [Row -> RowRecord] /\ spent \in [Call -> 0 .. ModelHold]
  BY SetsAssumption DEF IInv, TypeOK, Row
<1>2. ledger' = [ledger EXCEPT ![CallOp[c]] = SettledWith(ledger[CallOp[c]], spent[c], c)]
  BY DEF Settle
<1>3. CASE CallOp[d] = CallOp[c]
  <2>1. d = c
    BY <1>1, <1>3 DEF IInv, Custody, Granted, Settle
  <2>2. ledger'[CallOp[c]].used = spent[c]
    BY <1>1, <1>2, SettledRow
  <2> QED
    BY <1>1, <2>1, <2>2, LimitsAssumption
<1>4. CASE CallOp[d] # CallOp[c]
  <2>1. ledger'[CallOp[d]] = ledger[CallOp[d]]
    BY <1>1, <1>2, <1>4
  <2> QED
    BY <2>1 DEF UsageIsDispatched
<1> QED
  BY <1>3, <1>4

(* A row that is not settled by the step was settled before with the same use. *)
LEMMA UsageRows ==
  ASSUME IInv, [Next]_vars, ~ \E c \in Call : Settle(c),
         NEW o \in Op, ledger'[o].state = "SETTLED"
  PROVE  ledger'[o] = ledger[o]
<1>1. ledger \in [Row -> RowRecord] /\ o \in Row /\ o # Selection
  BY SetsAssumption DEF IInv, TypeOK, Row
<1>2. ASSUME NEW p \in Proc,
             ActivateReserve(p) \/ ActivateFence(p) \/ ActivateSettle(p)
      PROVE  ledger'[o] = ledger[o]
  BY <1>1, <1>2 DEF ActivateReserve, ActivateFence, ActivateSettle
<1>3. ASSUME NEW c \in Call, ReserveHeld(c) PROVE ledger'[o] = ledger[o]
  BY <1>1, <1>3 DEF ReserveHeld, Hold
<1>4. ASSUME NEW c \in Call, FenceGranted(c) PROVE ledger'[o] = ledger[o]
  BY <1>1, <1>4, MarkedRow DEF FenceGranted
<1> QED
  BY <1>2, <1>3, <1>4, LedgerSteps

(* Every step keeps consumption tied to dispatches and settlements. *)
LEMMA UsageStep ==
  ASSUME IInv, IInv', UsageIsDispatched, [Next]_vars PROVE UsageIsDispatched'
<1> \A c \in Call : CallOp[c] \in Op
  BY SetsAssumption
<1>0. TypeOK
  BY DEF IInv
<1>1. CASE /\ UNCHANGED <<dispatched, spent>>
           /\ \A c \in Call : pc'[c] = "provider" => pc[c] = "provider"
  <2>1. \A c \in dispatched :
          ledger'[CallOp[c]].state = "SETTLED" => spent[c] <= ledger'[CallOp[c]].used
    <3>1. CASE \E c \in Call : Settle(c)
      BY <3>1, UsageSettles
    <3>2. CASE ~ \E c \in Call : Settle(c)
      BY <1>0, <3>2, UsageRows DEF UsageIsDispatched, TypeOK
    <3> QED
      BY <3>1, <3>2
  <2> QED
    BY <1>1, <2>1 DEF UsageIsDispatched
<1>2. ASSUME NEW c \in Call, BrokerDispatches(c) PROVE UsageIsDispatched'
  <2>1. /\ ledger[CallOp[c]].state = "UNKNOWN_USAGE" /\ c \notin dispatched
        /\ UNCHANGED <<ledger, spent>> /\ dispatched' = dispatched \cup {c}
        /\ \A d \in Call \ {c} : pc'[d] = pc[d]
    BY <1>2 DEF BrokerDispatches, IInv, TypeOK, Custody, Granted
  <2> QED
    BY <2>1 DEF UsageIsDispatched
<1>3. ASSUME NEW c \in Call, ProviderAnswers(c) \/ ProviderFails(c) PROVE UsageIsDispatched'
  <2>1. /\ ledger[CallOp[c]].state = "UNKNOWN_USAGE" /\ c \in dispatched
        /\ UNCHANGED <<ledger, dispatched>>
    BY <1>3 DEF ProviderAnswers, ProviderFails, IInv, Custody, Granted, UsageIsDispatched
  <2>2. \A d \in Call \ {c} : spent'[d] = spent[d]
    BY <1>0, <1>3 DEF ProviderAnswers, ProviderFails, TypeOK
  <2>3. \A d \in Call : pc'[d] = "provider" => pc[d] = "provider" /\ d # c
    BY <1>0, <1>3 DEF ProviderAnswers, ProviderFails, TypeOK, Finish, Party
  <2> QED
    BY <1>0, <2>1, <2>2, <2>3 DEF UsageIsDispatched, TypeOK
<1>4. ASSUME NEW p \in Proc, Kill(p) PROVE UsageIsDispatched'
  <2>1. /\ UNCHANGED <<ledger, dispatched>>
        /\ \A d \in Call : pc'[d] = "provider" =>
             pc[d] = "provider" /\ spent'[d] = spent[d]
    BY <1>0, <1>4 DEF Kill, StrayUsage, TypeOK
  <2>2. \A d \in Call : pc[d] # "provider" => spent'[d] = spent[d]
    BY <1>0, <1>4 DEF Kill, StrayUsage, TypeOK
  <2>3. \A d \in Call : pc[d] = "provider" =>
           d \in dispatched /\ ledger[CallOp[d]].state = "UNKNOWN_USAGE"
    BY DEF IInv, Custody, Granted, UsageIsDispatched
  <2> QED
    BY <1>0, <2>1, <2>2, <2>3 DEF UsageIsDispatched, TypeOK
<1>5. ASSUME NEW p \in Proc, OwnerNext(p)
      PROVE  UNCHANGED <<dispatched, spent, pc>>
  BY <1>5 DEF OwnerNext, Plan, Activate, ActivateReserve, ActivateFence, ActivateSettle,
     ActivateBusy
<1>6. ASSUME NEW c \in Call, CallNext(c),
             ~BrokerDispatches(c), ~ProviderAnswers(c), ~ProviderFails(c)
      PROVE  /\ UNCHANGED <<dispatched, spent>>
             /\ \A d \in Call : pc'[d] = "provider" => pc[d] = "provider"
  BY <1>0, <1>6 DEF TypeOK, CallNext, InvokeDenied, InvokeJoins,
       InvokeLeads, ReserveDenied, ReserveAnswered, ReserveResumed, ReserveHeld,
       FenceGranted, FenceRefused, BrokerThrottles, Settle, Busy, Finish
<1>7. CASE UNCHANGED vars
  BY <1>1, <1>7 DEF vars
<1> QED
  BY <1>1, <1>2, <1>3, <1>4, <1>5, <1>6, <1>7 DEF Next

(* With one call per operation the sum over an operation's calls is that call. *)
LEMMA SumOfCalls ==
  ASSUME NEW D \in SUBSET Call, NEW f \in [Call -> 0 .. ModelHold],
         \A c, d \in D : CallOp[c] = CallOp[d] => c = d
  PROVE  /\ \A d \in D : SumFunctionOnSet(f, {c \in D : CallOp[c] = CallOp[d]}) = f[d]
         /\ \A o \in Op : (\A d \in D : CallOp[d] # o) =>
              SumFunctionOnSet(f, {c \in D : CallOp[c] = o}) = 0
<1>1. ASSUME NEW d \in D
      PROVE  SumFunctionOnSet(f, {c \in D : CallOp[c] = CallOp[d]}) = f[d]
  <2>1. {c \in D : CallOp[c] = CallOp[d]} = {d}
    OBVIOUS
  <2>2. IsFiniteSet({d}) /\ d \in {d} /\ f[d] \in Nat
    BY FS_Singleton, LimitsAssumption
  <2>3. SumFunctionOnSet(f, {d}) = f[d]
    BY <2>2, SumOfOne
  <2> QED
    BY <2>1, <2>3
<1>2. ASSUME NEW o \in Op, \A d \in D : CallOp[d] # o
      PROVE  SumFunctionOnSet(f, {c \in D : CallOp[c] = o}) = 0
  <2>1. {c \in D : CallOp[c] = o} = {}
    BY <1>2
  <2> QED
    BY <2>1, FS_EmptySet, SumOfZeros
<1> QED
  BY <1>1, <1>2

(* What an operation consumed is what its dispatch did. *)
LEMMA ConsumedIs ==
  ASSUME TypeOK, DispatchedOnce
  PROVE  /\ \A d \in dispatched : Consumed(CallOp[d]) = spent[d]
         /\ \A o \in Op : (\A d \in dispatched : CallOp[d] # o) => Consumed(o) = 0
<1>1. /\ dispatched \in SUBSET Call /\ spent \in [Call -> 0 .. ModelHold]
      /\ \A c, d \in dispatched : CallOp[c] = CallOp[d] => c = d
  BY DEF TypeOK, DispatchedOnce
<1>2. /\ \A d \in dispatched :
            SumFunctionOnSet(spent, {c \in dispatched : CallOp[c] = CallOp[d]}) = spent[d]
      /\ \A o \in Op : (\A d \in dispatched : CallOp[d] # o) =>
            SumFunctionOnSet(spent, {c \in dispatched : CallOp[c] = o}) = 0
  BY <1>1, SumOfCalls
<1> QED
  BY <1>2 DEF Consumed

(* The same of the next state. *)
LEMMA ConsumedIsPrimed ==
  ASSUME TypeOK', DispatchedOnce'
  PROVE  /\ \A d \in dispatched' : Consumed(CallOp[d])' = spent'[d]
         /\ \A o \in Op : (\A d \in dispatched' : CallOp[d] # o) => Consumed(o)' = 0
<1>1. /\ dispatched' \in SUBSET Call /\ spent' \in [Call -> 0 .. ModelHold]
      /\ \A c, d \in dispatched' : CallOp[c] = CallOp[d] => c = d
  BY DEF TypeOK, DispatchedOnce
<1>2. /\ \A d \in dispatched' :
            SumFunctionOnSet(spent', {c \in dispatched' : CallOp[c] = CallOp[d]}) = spent'[d]
      /\ \A o \in Op : (\A d \in dispatched' : CallOp[d] # o) =>
            SumFunctionOnSet(spent', {c \in dispatched' : CallOp[c] = o}) = 0
  BY <1>1, SumOfCalls
<1> QED
  BY <1>2 DEF Consumed

(* The charge of an operation covers what its dispatch consumed. *)
LEMMA UsageCharged ==
  ASSUME IInv, UsageIsDispatched PROVE SpentIsCharged
<1> SUFFICES ASSUME NEW o \in Op PROVE Consumed(o) <= ModelCharge(o)
  BY DEF SpentIsCharged
<1>1. /\ TypeOK /\ DispatchedOnce /\ o \in Row /\ o # Selection
      /\ ledger[o] \in RowRecord /\ \A c \in Call : spent[c] \in 0 .. ModelHold
  BY SetsAssumption DEF IInv, TypeOK, Row
<1>2. CASE \A d \in dispatched : CallOp[d] # o
  <2>1. Consumed(o) = 0
    BY <1>1, <1>2, ConsumedIs
  <2>2. ModelCharge(o) \in Nat
    BY <1>1, LimitsAssumption DEF ModelCharge, RowRecord
  <2> QED
    BY <2>1, <2>2
<1>3. ASSUME NEW d \in dispatched, CallOp[d] = o PROVE Consumed(o) <= ModelCharge(o)
  <2>1. Consumed(o) = spent[d]
    BY <1>1, <1>3, ConsumedIs
  <2>2. d \in Call /\ ledger[o].state \in {"UNKNOWN_USAGE", "SETTLED"}
    BY <1>3 DEF IInv, TypeOK, Custody
  <2>3. spent[d] <= ModelCharge(o)
    BY <1>1, <1>3, <2>2, LimitsAssumption DEF ModelCharge, UsageIsDispatched
  <2> QED
    BY <2>1, <2>3
<1> QED
  BY <1>2, <1>3

(* Consumption is tied to dispatches and settlements in every reachable state. *)
LEMMA UsageHolds == Spec => []UsageIsDispatched
<1>1. Init => UsageIsDispatched
  BY DEF Init, UsageIsDispatched
<1>2. IInv /\ IInv' /\ UsageIsDispatched /\ [Next]_vars => UsageIsDispatched'
  BY UsageStep
<1> QED
  BY Inductive, <1>1, <1>2, PTL DEF Spec

(* What the provider consumed for an operation, answered, failed or orphaned  *)
(* by a kill, is covered by what the ledger charges for that operation: the   *)
(* whole hold until a settlement, and no settlement releases more than the    *)
(* dispatch left unused.                                                      *)
THEOREM ConsumptionCharged == Spec => []SpentIsCharged
<1>1. IInv /\ UsageIsDispatched => SpentIsCharged
  BY UsageCharged
<1> QED
  BY Inductive, UsageHolds, <1>1, PTL

-----------------------------------------------------------------------------
(* The account the owner sees *)

(* The selection is admitted with a hold of zero model units, so what the *)
(* ledger commits is what the account commits.                            *)
LEMMA AccountTotal ==
  ASSUME TypeOK, IsFiniteSet(Present)
  PROVE  Account!Committed = ModelCommitted
<1> DEFINE charged == [o \in Op |-> ModelCharge(o)]
           Rows == Present \ {Selection}
<1>1. Account!Admitted = Rows
  BY SetsAssumption DEF Account!Admitted, Phase, Present, Row
<1>2. IsFiniteSet(Rows) /\ Rows \subseteq Op /\ Op \subseteq Row
  BY FS_Subset DEF Present, Row
<1>3. \A o \in Rows : charged[o] = Charges[o]
  BY <1>2 DEF Charges
<1>4. SumFunctionOnSet(charged, Rows) = SumFunctionOnSet(Charges, Rows)
  <2> HIDE DEF charged, Rows
  <2> QED
    BY <1>2, <1>3, SumAgrees
<1>5. SumFunctionOnSet(Charges, Rows) = SumFunctionOnSet(Charges, Present)
  <2>1. CASE Selection \in Present
    <3>1. \A row \in Present : Charges[row] \in Nat
      BY ChargeBounds, LimitsAssumption DEF Present
    <3>2. SumFunctionOnSet(Charges, Present)
            = Charges[Selection] + SumFunctionOnSet(Charges, Rows)
      BY <2>1, <3>1, SumWithout
    <3>3. Charges[Selection] = 0
      BY DEF Charges, ModelCharge, Row
    <3>4. SumFunctionOnSet(Charges, Rows) \in Nat
      BY <1>2, <3>1, SumIsNat
    <3> QED
      BY <3>2, <3>3, <3>4
  <2>2. CASE Selection \notin Present
    BY <2>2
  <2> QED
    BY <2>1, <2>2
<1>6. Account!Committed = SumFunctionOnSet(charged, Account!Admitted)
  BY DEF Account!Committed, SumFunctionOnSet, FoldFunctionOnSet, MapThenFoldSet,
         Account!SumFunctionOnSet, Account!FoldFunctionOnSet, Account!MapThenFoldSet
<1> HIDE DEF charged, Rows
<1> QED
  BY <1>1, <1>4, <1>5, <1>6, CommittedIsSum

(* A step that writes no row, dispatches nothing and consumes nothing, and one *)
(* that leaves a row in the same phase at the same charge, are no steps of it.  *)
LEMMA AccountAside ==
  ASSUME \A o \in Op : Phase(o)' = Phase(o) /\ ModelCharge(o)' = ModelCharge(o),
         UNCHANGED <<dispatched, spent>>
  PROVE  UNCHANGED Account!vars
<1>1. \A o \in Op : Consumed(o)' = Consumed(o)
  BY DEF Consumed
<1> QED
  BY <1>1 DEF Account!vars

(* Rows that are left alone stay in phase and at their charge. *)
LEMMA RowsAside ==
  ASSUME \A o \in Op : ledger'[o] = ledger[o]
  PROVE  \A o \in Op : Phase(o)' = Phase(o) /\ ModelCharge(o)' = ModelCharge(o)
  BY DEF Phase, ModelCharge

(* The reservation of a model call opens its operation. *)
LEMMA HeldAdmits ==
  ASSUME TypeOK, IsFiniteSet(Present), NEW c \in Call, ReserveHeld(c)
  PROVE  Account!Admit(CallOp[c])
<1> DEFINE o == CallOp[c]
<1>1. /\ o \in Op /\ o \in Row /\ o # Selection /\ CallDigest[c] \in Digests
      /\ ledger \in [Row -> RowRecord]
  BY SetsAssumption DEF TypeOK, Row, Digests
<1>2. /\ ledger[o].state = "ABSENT" /\ Fits(ModelHold)
      /\ ledger' = [ledger EXCEPT ![o] = Hold(CallDigest[c])]
      /\ UNCHANGED <<dispatched, spent>>
  BY DEF ReserveHeld, Exists
<1>3. /\ \A other \in Op \ {o} : ledger'[other] = ledger[other]
      /\ ledger'[o].state = "RESERVED"
  BY <1>1, <1>2, HoldRow DEF Row
<1>4. /\ \A other \in Op \ {o} : Phase(other)' = Phase(other)
      /\ \A other \in Op \ {o} : ModelCharge(other)' = ModelCharge(other)
      /\ Phase(o) = "none" /\ Phase(o)' = "open" /\ ModelCharge(o)' = ModelHold
  BY <1>1, <1>2, <1>3 DEF Phase, ModelCharge
<1>5. \A other \in Op : Consumed(other)' = Consumed(other)
  BY <1>2 DEF Consumed
<1>6. Account!Committed + ModelHold <= ModelLimit
  BY <1>2, AccountTotal DEF Fits
<1> HIDE DEF o
<1> QED
  BY <1>1, <1>2, <1>4, <1>5, <1>6 DEF Account!Admit, o

(* The dispatch runs it. *)
LEMMA DispatchRuns ==
  ASSUME IInv, IInv', UsageIsDispatched, NEW c \in Call, BrokerDispatches(c)
  PROVE  Account!Run(CallOp[c])
<1> DEFINE o == CallOp[c]
<1>1. /\ TypeOK /\ DispatchedOnce /\ TypeOK' /\ DispatchedOnce' /\ o \in Op
  BY SetsAssumption DEF IInv
<1>2. /\ dispatched' = dispatched \cup {c} /\ UNCHANGED <<ledger, spent>>
      /\ ledger[o].state = "UNKNOWN_USAGE" /\ \A d \in dispatched : CallOp[d] # o
  BY DEF BrokerDispatches, IInv, Custody, Granted
<1>3. spent[c] = 0
  BY <1>2 DEF UsageIsDispatched
<1>4. \A other \in Op : Consumed(other)' = Consumed(other)
  <2>1. Consumed(o) = 0
    BY <1>1, <1>2, ConsumedIs
  <2>2. Consumed(o)' = spent'[c]
    BY <1>1, <1>2, ConsumedIsPrimed
  <2>3. ASSUME NEW other \in Op \ {o} PROVE Consumed(other)' = Consumed(other)
    <3>1. {d \in dispatched' : CallOp[d] = other} = {d \in dispatched : CallOp[d] = other}
      BY <1>2
    <3> QED
      BY <1>2, <3>1 DEF Consumed
  <2> QED
    BY <1>2, <1>3, <2>1, <2>2, <2>3
<1>5. \A other \in Op : Phase(other)' = Phase(other) /\ ModelCharge(other)' = ModelCharge(other)
  BY <1>2, RowsAside
<1>6. Phase(o) = "open"
  BY <1>2 DEF Phase
<1>7. {CallOp[d] : d \in dispatched'} = {CallOp[d] : d \in dispatched} \cup {o}
  BY <1>2
<1>8. o \notin {CallOp[d] : d \in dispatched}
  BY <1>2
<1> HIDE DEF o
<1> QED
  BY <1>1, <1>4, <1>5, <1>6, <1>7, <1>8 DEF Account!Run, o

(* An answer, a failure or an orphaned call consumes, once for an operation. *)
LEMMA ProviderConsumes ==
  ASSUME IInv, IInv', UsageIsDispatched, UNCHANGED <<ledger, dispatched>>,
         \A c \in Call : spent'[c] # spent[c] => pc[c] = "provider"
  PROVE  Account!Consume
<1>1. /\ TypeOK /\ DispatchedOnce /\ TypeOK' /\ DispatchedOnce'
  BY DEF IInv
<1>2. ASSUME NEW o \in Op
      PROVE  /\ Consumed(o)' \in 0 .. ModelHold
             /\ Consumed(o)' # Consumed(o) =>
                  /\ o \in {CallOp[d] : d \in dispatched} /\ Phase(o) = "open"
                  /\ Consumed(o) = 0
  <2>1. CASE \A d \in dispatched : CallOp[d] # o
    <3>1. Consumed(o) = 0 /\ Consumed(o)' = 0
      BY <1>1, <2>1, ConsumedIs, ConsumedIsPrimed
    <3> QED
      BY <3>1, LimitsAssumption
  <2>2. ASSUME NEW d \in dispatched, CallOp[d] = o
        PROVE  /\ Consumed(o)' \in 0 .. ModelHold
               /\ Consumed(o)' # Consumed(o) =>
                    /\ o \in {CallOp[e] : e \in dispatched} /\ Phase(o) = "open"
                    /\ Consumed(o) = 0
    <3>1. Consumed(o) = spent[d] /\ Consumed(o)' = spent'[d]
      BY <1>1, <2>2, ConsumedIs, ConsumedIsPrimed
    <3>2. d \in Call /\ spent'[d] \in 0 .. ModelHold
      BY <1>1, <2>2 DEF TypeOK
    <3>3. spent'[d] # spent[d] => spent[d] = 0 /\ ledger[o].state = "UNKNOWN_USAGE"
      BY <2>2, <3>2 DEF UsageIsDispatched, IInv, Custody, Granted
    <3> QED
      BY <2>2, <3>1, <3>2, <3>3 DEF Phase
  <2> QED
    BY <2>1, <2>2
<1>3. \A o \in Op : Phase(o)' = Phase(o) /\ ModelCharge(o)' = ModelCharge(o)
  BY RowsAside
<1> QED
  BY <1>2, <1>3 DEF Account!Consume

(* The settlement closes it at what its dispatch consumed. *)
LEMMA SettleCloses ==
  ASSUME IInv, UsageIsDispatched, NEW c \in Call, Settle(c)
  PROVE  Account!Close(CallOp[c])
<1> DEFINE o == CallOp[c]
<1>1. /\ TypeOK /\ DispatchedOnce /\ o \in Op /\ o \in Row /\ o # Selection
      /\ ledger \in [Row -> RowRecord] /\ spent[c] \in 0 .. ModelHold
  BY SetsAssumption DEF IInv, TypeOK, Row
<1>2. /\ pc[c] = "settle" /\ ledger[o].state = "UNKNOWN_USAGE"
      /\ ledger' = [ledger EXCEPT ![o] = SettledWith(ledger[o], spent[c], c)]
      /\ UNCHANGED <<dispatched, spent>>
  BY DEF Settle
<1>3. /\ \A other \in Op \ {o} : ledger'[other] = ledger[other]
      /\ ledger'[o].state = "SETTLED" /\ ledger'[o].used = spent[c]
  BY <1>1, <1>2, SettledRow DEF Row
<1>4. /\ \A other \in Op \ {o} : Phase(other)' = Phase(other)
      /\ \A other \in Op \ {o} : ModelCharge(other)' = ModelCharge(other)
      /\ Phase(o) = "open" /\ Phase(o)' = "closed" /\ ModelCharge(o)' = spent[c]
  BY <1>1, <1>2, <1>3 DEF Phase, ModelCharge
<1>5. Consumed(o) = spent[c]
  <2>1. CASE c \in dispatched
    BY <1>1, <2>1, ConsumedIs
  <2>2. CASE c \notin dispatched
    <3>1. \A d \in dispatched : CallOp[d] # o
      BY <1>2, <2>2 DEF IInv, Custody, Granted
    <3>2. spent[c] = 0
      BY <2>2 DEF UsageIsDispatched
    <3> QED
      BY <1>1, <3>1, <3>2, ConsumedIs
  <2> QED
    BY <2>1, <2>2
<1>6. \A other \in Op : Consumed(other)' = Consumed(other)
  BY <1>2 DEF Consumed
<1> HIDE DEF o
<1> QED
  BY <1>1, <1>2, <1>4, <1>5, <1>6 DEF Account!Close, o

(* Every step is a step of the account or none. *)
LEMMA AccountStep ==
  ASSUME IInv, IInv', UsageIsDispatched, IsFiniteSet(Present), [Next]_vars
  PROVE  [Account!Next]_Account!vars
<1>0. /\ TypeOK /\ Selection \notin Op
      /\ \A c \in Call : CallOp[c] \in Op /\ CallOp[c] \in Row
  BY SetsAssumption DEF IInv, Row
<1>1. ASSUME \A o \in Op : ledger'[o] = ledger[o], UNCHANGED <<dispatched, spent>>
      PROVE  UNCHANGED Account!vars
  BY <1>1, RowsAside, AccountAside
<1>2. ASSUME NEW p \in Proc, OwnerNext(p) PROVE UNCHANGED Account!vars
  <2>1. \A o \in Op : ledger'[o] = ledger[o]
    BY <1>0, <1>2 DEF OwnerNext, Plan, Activate, ActivateReserve, ActivateFence,
       ActivateSettle, ActivateBusy, TypeOK, Row
  <2>2. UNCHANGED <<dispatched, spent>>
    BY <1>2 DEF OwnerNext, Plan, Activate, ActivateReserve, ActivateFence,
       ActivateSettle, ActivateBusy
  <2> QED
    BY <1>1, <2>1, <2>2
<1>3. ASSUME NEW p \in Proc, Kill(p) PROVE Account!Next
  <2>1. /\ UNCHANGED <<ledger, dispatched>>
        /\ \A c \in Call : spent'[c] # spent[c] => pc[c] = "provider"
    BY <1>0, <1>3 DEF Kill, StrayUsage, TypeOK
  <2> QED
    BY <2>1, ProviderConsumes DEF Account!Next
<1>4. ASSUME NEW c \in Call, ReserveHeld(c) PROVE Account!Next
  BY <1>0, <1>4, HeldAdmits DEF Account!Next
<1>5. ASSUME NEW c \in Call, FenceGranted(c) PROVE UNCHANGED Account!vars
  <2>1. /\ \A o \in Op \ {CallOp[c]} : ledger'[o] = ledger[o]
        /\ ledger[CallOp[c]].state = "RESERVED"
        /\ ledger'[CallOp[c]].state = "UNKNOWN_USAGE"
    BY <1>0, <1>5, MarkedRow DEF FenceGranted, TypeOK, Row
  <2>2. UNCHANGED <<dispatched, spent>>
    BY <1>5 DEF FenceGranted
  <2>3. \A o \in Op : Phase(o)' = Phase(o) /\ ModelCharge(o)' = ModelCharge(o)
    BY <2>1 DEF Phase, ModelCharge
  <2> QED
    BY <2>2, <2>3, AccountAside
<1>6. ASSUME NEW c \in Call, BrokerDispatches(c) PROVE Account!Next
  BY <1>0, <1>6, DispatchRuns DEF Account!Next
<1>7. ASSUME NEW c \in Call, ProviderAnswers(c) \/ ProviderFails(c) PROVE Account!Next
  <2>1. /\ UNCHANGED <<ledger, dispatched>>
        /\ \A d \in Call : spent'[d] # spent[d] => pc[d] = "provider"
    BY <1>0, <1>7 DEF ProviderAnswers, ProviderFails, TypeOK
  <2> QED
    BY <2>1, ProviderConsumes DEF Account!Next
<1>8. ASSUME NEW c \in Call, Settle(c) PROVE Account!Next
  BY <1>0, <1>8, SettleCloses DEF Account!Next
<1>9. ASSUME NEW c \in Call, CallNext(c), ~ReserveHeld(c), ~FenceGranted(c),
             ~BrokerDispatches(c), ~ProviderAnswers(c), ~ProviderFails(c), ~Settle(c)
      PROVE  UNCHANGED Account!vars
  <2>1. UNCHANGED <<ledger, dispatched, spent>>
    BY <1>9 DEF CallNext, InvokeDenied, InvokeJoins, InvokeLeads, ReserveDenied,
       ReserveAnswered, ReserveResumed, FenceRefused, BrokerThrottles, Busy
  <2> QED
    BY <1>1, <2>1
<1>10. ASSUME UNCHANGED vars PROVE UNCHANGED Account!vars
  BY <1>1, <1>10 DEF vars
<1>11. ASSUME NEW c \in Call, CallNext(c) PROVE Account!Next \/ UNCHANGED Account!vars
  BY <1>4, <1>5, <1>6, <1>7, <1>8, <1>9, <1>11
<1> QED
  BY <1>2, <1>3, <1>10, <1>11 DEF Next

(* The budget implements the account of its owner: for any processes, calls,  *)
(* operations and limits, all that happens to the ledger and at the provider  *)
(* is that operations are admitted, run once, consume and are closed.         *)
THEOREM BudgetIsAccount == Spec => KeepsAccount
<1>1. Init => Account!Init
  <2> SUFFICES ASSUME Init PROVE Account!Init
    OBVIOUS
  <2>1. dispatched = {} /\ \A o \in Op : ledger[o].state = "ABSENT"
    BY DEF Init, Absent, Row
  <2>2. \A o \in Op : Consumed(o) = 0
    <3>1. \A o \in Op : {c \in dispatched : CallOp[c] = o} = {}
      BY <2>1
    <3> QED
      BY <3>1, FS_EmptySet, SumOfZeros DEF Consumed
  <2>3. \A o \in Op : Phase(o) = "none" /\ ModelCharge(o) = 0
    BY <2>1 DEF Phase, ModelCharge
  <2> QED
    BY <2>1, <2>2, <2>3 DEF Account!Init
<1>2. IInv /\ IInv' /\ UsageIsDispatched /\ Bounded /\ [Next]_vars
      => [Account!Next]_Account!vars
  BY AccountStep DEF Bounded
<1> QED
  BY Inductive, UsageHolds, BoundedHolds, <1>1, <1>2, PTL DEF Spec, KeepsAccount, Account!Spec

==================================================
