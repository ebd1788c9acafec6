-------------------------- MODULE NativeUpdate_proofs -------------------------
(* What TLAPS proves of the native update executor for any executors, roots, *)
(* grants, fences and bounds.                                                *)
EXTENDS NativeUpdate, TLAPS

-----------------------------------------------------------------------------
(* The inductive invariant. *)

\* Only the holder of the session, or the backend it left, can still commit,
\* and the target is as its transaction found it.
SessionKept ==
  /\ migrations <= 1
  /\ session = Gone => migrations = 0
  /\ \A e \in Exec : session = e => pc[e] \notin {"idle", "connecting"}
  /\ \A e \in Exec : InTransaction(e) => migrations = 0

\* A fresh reservation whose transaction is not open yet.
Reserving(e) == pc[e] \in {"reserved", "opening"}

\* A root's record is written by the owner of its marker alone, who knows it;
\* its one reservation stands before its one dispatch, and binds it.
ReservationKept ==
  /\ \A e \in Exec : pc[e] = "loaded" /\ Owns(e) => journal[e] = disk[home[e]]
  /\ \A e \in Exec : Reserving(e) =>
                        dispatches[home[e]] = 0 /\ disk[home[e]].status # "NONE"
  /\ \A e, f \in Exec : Reserving(e) /\ Reserving(f) /\ home[e] = home[f] => e = f
  /\ \A r \in Root : dispatches[r] <= 1 /\ (dispatches[r] > 0 => disk[r].status # "NONE")
  /\ \A r \in Root : disk[r].status = "NONE" => disk[r].binding = 0

\* What an executor saw of the target stays true.
SeenKept == \A e \in Exec : seen[e] => Applied

\* The two halves of TypeOK: the stores, and the calls.
StoresTyped ==
  /\ migrations \in Nat /\ fence \in Nat
  /\ session \in Exec \cup {Nobody, Gone}
  /\ marker \in [Root -> Exec \cup {Nobody, Gone, Torn}]
  /\ disk \in [Root -> Record]
  /\ control \in [Root -> {"NONE", "STOP", "REVOKE"}]
  /\ grant \in 1 .. MaxGrant /\ live \in BOOLEAN
  /\ dispatches \in [Root -> Nat]
  /\ passed \in SUBSET Root
  /\ events \in Nat

CallsTyped ==
  /\ pc \in [Exec -> Label]
  /\ home \in [Exec -> Root \cup {Nobody}]
  /\ held \in [Exec -> 0 .. MaxGrant]
  /\ journal \in [Exec -> Record]
  /\ seen \in [Exec -> BOOLEAN]
  /\ \A e \in Exec : (pc[e] = "idle") <=> (home[e] = Nobody)
  /\ \A e \in Exec : (pc[e] = "idle") <=> (held[e] = 0)

IInv == TypeOK /\ SessionKept /\ ReservationKept /\ SeenKept /\ ReceiptMeansEffect

-----------------------------------------------------------------------------
(* What the calls write into a journal is a record. *)
LEMMA RecordShape ==
  ASSUME TypeOK
  PROVE  /\ NoRecord \in Record
         /\ \A r \in Root : Restored(disk[r]) \in Record
         /\ \A e \in Exec : /\ Executing(e) \in Record /\ Receipted(e) \in Record
                            /\ Ambiguous(e) \in Record /\ WithdrawnReceipt(e) \in Record
<1>1. \A x \in Record : /\ [x EXCEPT !.status = "AMBIGUOUS"] \in Record
                        /\ [x EXCEPT !.status = "APPLIED", !.receipt = TRUE] \in Record
                        /\ [x EXCEPT !.status = "AMBIGUOUS", !.receipt = FALSE] \in Record
  BY DEF Record, Status
<1>2. /\ \A r \in Root : disk[r] \in Record
      /\ \A e \in Exec : journal[e] \in Record /\ held[e] \in 0 .. MaxGrant
  BY DEF TypeOK
<1>3. NoRecord \in Record /\ \A e \in Exec : Executing(e) \in Record
  BY <1>2, GrantAssumption DEF NoRecord, Executing, Record, Status
<1> QED
  BY <1>1, <1>2, <1>3 DEF Restored, Receipted, Ambiguous, WithdrawnReceipt

(* The stores keep their shape. *)
LEMMA StoresStep == IInv /\ [Next]_vars => StoresTyped'
<1> SUFFICES ASSUME IInv, [Next]_vars PROVE StoresTyped'
  OBVIOUS
<1> USE ExecAssumption, GrantAssumption, RecordShape DEF IInv, TypeOK, StoresTyped, CallsTyped
<1>1. CASE UNCHANGED vars
  BY <1>1 DEF vars, database, files, controller, process, history
<1>2. ASSUME NEW e \in Exec, \E r \in Root : Start(e, r)
      PROVE  StoresTyped'
  BY <1>2 DEF Start, At, Goto, database, files, controller, process, history
<1>3. ASSUME NEW e \in Exec, Connect(e)
      PROVE  StoresTyped'
  BY <1>3 DEF Connect, At, Goto, database, files, controller, process, history
<1>4. ASSUME NEW e \in Exec, InspectMarker(e)
      PROVE  StoresTyped'
  BY <1>4 DEF InspectMarker, At, Goto, database, files, controller, process, history
<1>5. ASSUME NEW e \in Exec, Adopt(e)
      PROVE  StoresTyped'
  BY <1>5 DEF Adopt, At, Goto, database, files, controller, process, history
<1>6. ASSUME NEW e \in Exec, Create(e)
      PROVE  StoresTyped'
  BY <1>6 DEF Create, At, Goto, database, files, controller, process, history
<1>7. ASSUME NEW e \in Exec, Load(e)
      PROVE  StoresTyped'
  BY <1>7 DEF Load, At, Goto, database, files, controller, process, history
<1>8. ASSUME NEW e \in Exec, Reserve(e)
      PROVE  StoresTyped'
  BY <1>8 DEF Reserve, At, Goto, database, files, controller, process, history
<1>9. ASSUME NEW e \in Exec, Resume(e)
      PROVE  StoresTyped'
  BY <1>9 DEF Resume, At, Goto, database, files, controller, process, history
<1>10. ASSUME NEW e \in Exec, Dispatch(e)
      PROVE  StoresTyped'
  BY <1>10 DEF Dispatch, At, Goto, database, files, controller, process, history
<1>11. ASSUME NEW e \in Exec, SendCommit(e)
      PROVE  StoresTyped'
  BY <1>11 DEF SendCommit, At, Goto, database, files, controller, process, history
<1>12. ASSUME NEW e \in Exec, Commit(e)
      PROVE  StoresTyped'
  BY <1>12 DEF Commit, At, Goto, database, files, controller, process, history
<1>13. ASSUME NEW e \in Exec, Observe(e)
      PROVE  StoresTyped'
  BY <1>13 DEF Observe, At, Goto, database, files, controller, process, history
<1>14. ASSUME NEW e \in Exec, Complete(e)
      PROVE  StoresTyped'
  BY <1>14 DEF Complete, At, Goto, database, files, controller, process, history
<1>15. ASSUME NEW e \in Exec, AnswerHeld(e)
      PROVE  StoresTyped'
  BY <1>15 DEF AnswerHeld, At, Goto, database, files, controller, process, history
<1>16. ASSUME NEW e \in Exec, Refuse(e)
      PROVE  StoresTyped'
  BY <1>16 DEF Refuse, OnError, At, Goto, database, files, controller, process, history
<1>17. ASSUME NEW e \in Exec, MarkAmbiguous(e)
      PROVE  StoresTyped'
  BY <1>17 DEF MarkAmbiguous, At, Goto, database, files, controller, process, history
<1>18. ASSUME NEW e \in Exec, Release(e)
      PROVE  StoresTyped'
  BY <1>18 DEF Release, At, Goto, database, files, controller, process, history
<1>19. ASSUME NEW e \in Exec, End(e)
      PROVE  StoresTyped'
  BY <1>19 DEF End, Forget, At, Goto, database, files, controller, process, history
<1>20. ASSUME NEW e \in Exec, Kill(e)
      PROVE  StoresTyped'
  BY <1>20 DEF Kill, Orphaned, Forget, Left, Happens, At, Goto, database, files, controller,
     process, history
<1>21. ASSUME NEW e \in Exec, DropSession(e)
      PROVE  StoresTyped'
  BY <1>21 DEF DropSession, Left, Happens, At, Goto, database, files, controller, process, history
<1>22. ASSUME NEW e \in Exec, FailReserve(e) PROVE StoresTyped'
  <2>0. disk \in [Root -> Record]
    OBVIOUS
  <2>1. home[e] \in Root /\ Executing(e) \in Record
    BY <1>22 DEF FailReserve, At
  <2>2. disk' = disk \/ disk' = [disk EXCEPT ![home[e]] = Executing(e)]
    BY <1>22 DEF FailReserve
  <2>3. disk' \in [Root -> Record]
    BY ONLY <2>0, <2>1, <2>2
  <2>4. events' \in Nat
    BY <1>22 DEF FailReserve, Happens
  <2>5. UNCHANGED <<database, marker, control, controller, history>>
    BY <1>22 DEF FailReserve
  <2> QED
    BY <2>3, <2>4, <2>5 DEF database, controller, history
<1>23. ASSUME NEW e \in Exec, FailComplete(e) PROVE StoresTyped'
  <2>0. disk \in [Root -> Record]
    OBVIOUS
  <2>1. home[e] \in Root /\ Receipted(e) \in Record
    BY <1>23 DEF FailComplete
  <2>2. disk' = disk \/ disk' = [disk EXCEPT ![home[e]] = Receipted(e)]
    BY <1>23 DEF FailComplete
  <2>3. disk' \in [Root -> Record]
    BY ONLY <2>0, <2>1, <2>2
  <2>4. events' \in Nat
    BY <1>23 DEF FailComplete, Happens
  <2>5. UNCHANGED <<database, marker, control, controller, history>>
    BY <1>23 DEF FailComplete
  <2> QED
    BY <2>3, <2>4, <2>5 DEF database, controller, history
<1>24. ASSUME NEW e \in Exec, FailMark(e)
      PROVE  StoresTyped'
  BY <1>24 DEF FailMark, Happens, At, Goto, database, files, controller, process, history
<1>25. CASE SettleBackend
  BY <1>25 DEF SettleBackend, files, controller, process, history
<1>26. CASE \/ Withdraw \/ Reissue \/ MoveFence
           \/ \E r \in Root, kind \in {"STOP", "REVOKE"} : RecordControl(r, kind)
  <2>1. CASE Withdraw
    <3>1. live' \in BOOLEAN
      BY <2>1 DEF Withdraw
    <3>2. grant' = grant /\ events' \in Nat /\ UNCHANGED <<database, files, history>>
      BY <2>1 DEF Withdraw, Happens
    <3> QED
      BY <3>1, <3>2 DEF database, files, history
  <2>2. CASE Reissue
    BY <1>26, <2>2 DEF Reissue, Happens, database, files, history
  <2>3. CASE MoveFence
    BY <1>26, <2>3 DEF MoveFence, Happens, files, controller, history
  <2>4. CASE \E r \in Root, kind \in {"STOP", "REVOKE"} : RecordControl(r, kind)
    BY <1>26, <2>4 DEF RecordControl, Happens, database, controller, history
  <2> QED
    BY <1>26, <2>1, <2>2, <2>3, <2>4
<1>27. ASSUME NEW e \in Exec, Mark(e) \/ Proceed(e) \/ FailRelease(e)
       PROVE  StoresTyped'
  BY <1>27 DEF Mark, Proceed, FailRelease, Happens, At, Goto, database, files, controller,
     process, history
<1>28. ASSUME NEW e \in Exec, FailCreate(e)
       PROVE  StoresTyped'
  BY <1>28 DEF FailCreate, Happens, At, Goto, database, files, controller, process, history
<1> QED
  BY <1>1, <1>2, <1>3, <1>4, <1>5, <1>6, <1>7, <1>8, <1>9, <1>10, <1>11, <1>12, <1>13, <1>14,
     <1>15, <1>16, <1>17, <1>18, <1>19, <1>20, <1>21, <1>22, <1>23, <1>24, <1>25, <1>26,
     <1>27, <1>28
     DEF Next, Continue, Fault

(* The calls keep their shape. *)
LEMMA CallsStep == IInv /\ [Next]_vars => CallsTyped'
<1> SUFFICES ASSUME IInv, [Next]_vars PROVE CallsTyped'
  OBVIOUS
<1> USE ExecAssumption, GrantAssumption, RecordShape DEF IInv, TypeOK, CallsTyped, Label,
        ReservedLabel, UnownedLabel
<1>1. CASE UNCHANGED vars
  BY <1>1 DEF vars, database, files, controller, process, history
<1>2. ASSUME NEW e \in Exec, \E r \in Root : Start(e, r)
      PROVE  CallsTyped'
  BY <1>2 DEF Start, At, Goto, database, files, controller, process, history
<1>3. ASSUME NEW e \in Exec, Connect(e) PROVE CallsTyped'
  <2>1. /\ pc[e] # "idle" /\ pc' = [pc EXCEPT ![e] = "locked"]
        /\ UNCHANGED <<home, held, journal, seen>>
    BY <1>3 DEF Connect, At, Goto
  <2> QED
    BY <2>1
<1>4. ASSUME NEW e \in Exec, InspectMarker(e) PROVE CallsTyped'
  <2>1. \E label \in {"creating", "adopting"} : pc' = [pc EXCEPT ![e] = label]
    BY <1>4 DEF InspectMarker, Goto
  <2>2. pc[e] # "idle" /\ UNCHANGED <<home, held, journal, seen>>
    BY <1>4 DEF InspectMarker, At
  <2> QED
    BY <2>1, <2>2
<1>5. ASSUME NEW e \in Exec, Adopt(e)
      PROVE  CallsTyped'
  BY <1>5 DEF Adopt, At, Goto, database, files, controller, process, history
<1>6. ASSUME NEW e \in Exec, Create(e)
      PROVE  CallsTyped'
  BY <1>6 DEF Create, At, Goto, database, files, controller, process, history
<1>7. ASSUME NEW e \in Exec, Load(e)
      PROVE  CallsTyped'
  BY <1>7 DEF Load, At, Goto, database, files, controller, process, history
<1>8. ASSUME NEW e \in Exec, Reserve(e)
      PROVE  CallsTyped'
  BY <1>8 DEF Reserve, At, Goto, database, files, controller, process, history
<1>9. ASSUME NEW e \in Exec, Resume(e)
      PROVE  CallsTyped'
  BY <1>9 DEF Resume, At, Goto, database, files, controller, process, history
<1>10. ASSUME NEW e \in Exec, Dispatch(e)
      PROVE  CallsTyped'
  BY <1>10 DEF Dispatch, At, Goto, database, files, controller, process, history
<1>11. ASSUME NEW e \in Exec, SendCommit(e)
      PROVE  CallsTyped'
  BY <1>11 DEF SendCommit, At, Goto, database, files, controller, process, history
<1>12. ASSUME NEW e \in Exec, Commit(e)
      PROVE  CallsTyped'
  BY <1>12 DEF Commit, At, Goto, database, files, controller, process, history
<1>13. ASSUME NEW e \in Exec, Observe(e)
      PROVE  CallsTyped'
  BY <1>13 DEF Observe, At, Goto, database, files, controller, process, history
<1>14. ASSUME NEW e \in Exec, Complete(e)
      PROVE  CallsTyped'
  BY <1>14 DEF Complete, At, Goto, database, files, controller, process, history
<1>15. ASSUME NEW e \in Exec, AnswerHeld(e)
      PROVE  CallsTyped'
  BY <1>15 DEF AnswerHeld, At, Goto, database, files, controller, process, history
<1>16. ASSUME NEW e \in Exec, Refuse(e) PROVE CallsTyped'
  <2>1. \E label \in {"failed", "ending", "releasing"} : pc' = [pc EXCEPT ![e] = label]
    BY <1>16 DEF Refuse, OnError, Goto
  <2>2. pc[e] # "idle" /\ UNCHANGED <<home, held, journal, seen>>
    BY <1>16 DEF Refuse, Refusal, At, process
  <2> QED
    BY <2>1, <2>2
<1>17. ASSUME NEW e \in Exec, MarkAmbiguous(e)
      PROVE  CallsTyped'
  BY <1>17 DEF MarkAmbiguous, At, Goto, database, files, controller, process, history
<1>18. ASSUME NEW e \in Exec, Release(e)
      PROVE  CallsTyped'
  BY <1>18 DEF Release, At, Goto, database, files, controller, process, history
<1>19. ASSUME NEW e \in Exec, End(e)
      PROVE  CallsTyped'
  BY <1>19 DEF End, Forget, At, Goto, database, files, controller, process, history
<1>20. ASSUME NEW e \in Exec, Kill(e)
      PROVE  CallsTyped'
  BY <1>20 DEF Kill, Forget, At, Goto, database, files, controller, process, history
<1>21. ASSUME NEW e \in Exec, DropSession(e)
      PROVE  CallsTyped'
  BY <1>21 DEF DropSession, At, Goto, database, files, controller, process, history
<1>22. ASSUME NEW e \in Exec, FailReserve(e)
      PROVE  CallsTyped'
  BY <1>22 DEF FailReserve, At, Goto, database, files, controller, process, history
<1>23. ASSUME NEW e \in Exec, FailComplete(e)
      PROVE  CallsTyped'
  BY <1>23 DEF FailComplete, At, Goto, database, files, controller, process, history
<1>24. ASSUME NEW e \in Exec, FailMark(e)
      PROVE  CallsTyped'
  BY <1>24 DEF FailMark, At, Goto, database, files, controller, process, history
<1>25. CASE SettleBackend
  BY <1>25 DEF SettleBackend, files, controller, process, history
<1>26. CASE \/ Withdraw \/ Reissue \/ MoveFence
           \/ \E r \in Root, kind \in {"STOP", "REVOKE"} : RecordControl(r, kind)
  BY <1>26 DEF Withdraw, Reissue, MoveFence, RecordControl, Happens, database, files, controller,
     process, history
<1>27. ASSUME NEW e \in Exec, Mark(e) \/ Proceed(e) \/ FailRelease(e)
       PROVE  CallsTyped'
  BY <1>27 DEF Mark, Proceed, FailRelease, Happens, At, Goto, database, files, controller,
     process, history
<1>28. ASSUME NEW e \in Exec, FailCreate(e)
       PROVE  CallsTyped'
  BY <1>28 DEF FailCreate, Happens, At, Goto, database, files, controller, process, history
<1> QED
  BY <1>1, <1>2, <1>3, <1>4, <1>5, <1>6, <1>7, <1>8, <1>9, <1>10, <1>11, <1>12, <1>13, <1>14,
     <1>15, <1>16, <1>17, <1>18, <1>19, <1>20, <1>21, <1>22, <1>23, <1>24, <1>25, <1>26,
     <1>27, <1>28
     DEF Next, Continue, Fault

(* Who may still commit. *)
LEMMA SessionStep == IInv /\ [Next]_vars => SessionKept'
<1> SUFFICES ASSUME IInv, [Next]_vars PROVE SessionKept'
  OBVIOUS
<1> USE ExecAssumption DEF IInv, TypeOK, SessionKept, InTransaction
<1>1. CASE UNCHANGED vars
  BY <1>1 DEF vars, database, files, controller, process, history
<1>2. ASSUME NEW e \in Exec, Connect(e) \/ InspectMarker(e) \/ \E r \in Root : Start(e, r)
      PROVE  SessionKept'
  BY <1>2 DEF Start, Connect, Connectable, InspectMarker, At, Goto, database, files, controller,
     process, history
<1>3. ASSUME NEW e \in Exec, Adopt(e) \/ Create(e) \/ Mark(e) \/ Load(e)
      PROVE  SessionKept'
  BY <1>3 DEF Adopt, Create, Mark, Load, At, Goto, database, files, controller, process, history
<1>4. ASSUME NEW e \in Exec, Reserve(e) \/ Resume(e) \/ FailReserve(e)
      PROVE  SessionKept'
  BY <1>4 DEF Reserve, Resume, FailReserve, At, Goto, database, files, controller, process,
     history
<1>5. ASSUME NEW e \in Exec, Proceed(e) \/ Dispatch(e) \/ SendCommit(e) \/ Commit(e)
      PROVE  SessionKept'
  BY <1>5 DEF Proceed, Dispatch, Migratable, SendCommit, Commit, At, Goto, database, files,
     controller, process, history
<1>6. ASSUME NEW e \in Exec, Observe(e) \/ Complete(e) \/ AnswerHeld(e) \/ FailComplete(e)
      PROVE  SessionKept'
  BY <1>6 DEF Observe, Complete, AnswerHeld, FailComplete, At, Goto, database, files, controller,
     process, history
<1>7. ASSUME NEW e \in Exec, Refuse(e) \/ MarkAmbiguous(e) \/ FailMark(e) \/ Release(e)
                            \/ FailCreate(e) \/ FailRelease(e)
      PROVE  SessionKept'
  BY <1>7 DEF Refuse, OnError, ReservedLabel, UnownedLabel, MarkAmbiguous, FailMark, Release,
     FailCreate, FailRelease, Happens, At, Goto, database, files, controller, process, history
<1>8. ASSUME NEW e \in Exec, End(e) \/ Kill(e)
      PROVE  SessionKept'
  BY <1>8 DEF End, Forget, Kill, Left, At, Goto, database, files, controller, process, history
<1>9. ASSUME NEW e \in Exec, DropSession(e)
      PROVE  SessionKept'
  BY <1>9 DEF DropSession, Left, At, Goto, database, files, controller, process, history
<1>10. CASE SettleBackend
  BY <1>10 DEF SettleBackend, files, controller, process, history
<1>11. CASE \/ Withdraw \/ Reissue \/ MoveFence
           \/ \E r \in Root, kind \in {"STOP", "REVOKE"} : RecordControl(r, kind)
  BY <1>11 DEF Withdraw, Reissue, MoveFence, RecordControl, Happens, database, files, controller,
     process, history
<1> QED
  BY <1>1, <1>2, <1>3, <1>4, <1>5, <1>6, <1>7, <1>8, <1>9, <1>10, <1>11
     DEF Next, Continue, Fault

(* One reservation and one dispatch of each root. *)
LEMMA ReservationStep == IInv /\ [Next]_vars => ReservationKept'
<1> SUFFICES ASSUME IInv, [Next]_vars PROVE ReservationKept'
  OBVIOUS
<1> USE ExecAssumption DEF IInv, TypeOK, ReservationKept, Reserving, Owns
<1>1. CASE UNCHANGED vars
  BY <1>1 DEF vars, database, files, controller, process, history
<1>2. ASSUME NEW e \in Exec, \E r \in Root : Start(e, r)
      PROVE  ReservationKept'
  BY <1>2 DEF Start, At, Goto, database, files, controller, process, history
<1>3. ASSUME NEW e \in Exec, Connect(e)
      PROVE  ReservationKept'
  BY <1>3 DEF Connect, At, Goto, database, files, controller, process, history
<1>4. ASSUME NEW e \in Exec, InspectMarker(e)
      PROVE  ReservationKept'
  BY <1>4 DEF InspectMarker, At, Goto, database, files, controller, process, history
<1>5. ASSUME NEW e \in Exec, Adopt(e)
      PROVE  ReservationKept'
  BY <1>5 DEF Adopt, At, Goto, database, files, controller, process, history
<1>6. ASSUME NEW e \in Exec, Create(e)
      PROVE  ReservationKept'
  BY <1>6 DEF Create, At, Goto, database, files, controller, process, history
<1>7. ASSUME NEW e \in Exec, Load(e)
      PROVE  ReservationKept'
  BY <1>7 DEF Load, Restored, At, Goto, database, files, controller, process, history
<1>8. ASSUME NEW e \in Exec, Reserve(e)
      PROVE  ReservationKept'
  BY <1>8 DEF Reserve, Fresh, Executing, At, Goto, database, files, controller, process, history
<1>9. ASSUME NEW e \in Exec, Resume(e)
      PROVE  ReservationKept'
  BY <1>9 DEF Resume, At, Goto, database, files, controller, process, history
<1>10. ASSUME NEW e \in Exec, Dispatch(e)
      PROVE  ReservationKept'
  BY <1>10 DEF Dispatch, At, Goto, database, files, controller, process, history
<1>11. ASSUME NEW e \in Exec, SendCommit(e)
      PROVE  ReservationKept'
  BY <1>11 DEF SendCommit, At, Goto, database, files, controller, process, history
<1>12. ASSUME NEW e \in Exec, Commit(e)
      PROVE  ReservationKept'
  BY <1>12 DEF Commit, At, Goto, database, files, controller, process, history
<1>13. ASSUME NEW e \in Exec, Observe(e)
      PROVE  ReservationKept'
  BY <1>13 DEF Observe, At, Goto, database, files, controller, process, history
<1>14. ASSUME NEW e \in Exec, Complete(e)
      PROVE  ReservationKept'
  BY <1>14 DEF Complete, Receipted, At, Goto, database, files, controller, process, history
<1>15. ASSUME NEW e \in Exec, AnswerHeld(e)
      PROVE  ReservationKept'
  BY <1>15 DEF AnswerHeld, At, Goto, database, files, controller, process, history
<1>16. ASSUME NEW e \in Exec, Refuse(e)
      PROVE  ReservationKept'
  BY <1>16 DEF Refuse, OnError, At, Goto, database, files, controller, process, history
<1>17. ASSUME NEW e \in Exec, MarkAmbiguous(e)
      PROVE  ReservationKept'
  BY <1>17 DEF MarkAmbiguous, Ambiguous, At, Goto, database, files, controller, process, history
<1>18. ASSUME NEW e \in Exec, Release(e)
      PROVE  ReservationKept'
  BY <1>18 DEF Release, At, Goto, database, files, controller, process, history
<1>19. ASSUME NEW e \in Exec, End(e)
      PROVE  ReservationKept'
  BY <1>19 DEF End, Forget, At, Goto, database, files, controller, process, history
<1>20. ASSUME NEW e \in Exec, Kill(e)
      PROVE  ReservationKept'
  BY <1>20 DEF Kill, Orphaned, Forget, At, Goto, database, files, controller, process, history
<1>21. ASSUME NEW e \in Exec, DropSession(e)
      PROVE  ReservationKept'
  BY <1>21 DEF DropSession, At, Goto, database, files, controller, process, history
<1>22. ASSUME NEW e \in Exec, FailReserve(e)
      PROVE  ReservationKept'
  BY <1>22 DEF FailReserve, Executing, At, Goto, database, files, controller, process, history
<1>23. ASSUME NEW e \in Exec, FailComplete(e) PROVE ReservationKept'
  <2>1. /\ home[e] \in Root /\ marker[home[e]] = e
        /\ pc[e] \notin {"loaded", "reserved", "opening"}
        /\ pc' = [pc EXCEPT ![e] = "failed"]
        /\ UNCHANGED <<marker, home, dispatches>>
    BY <1>23 DEF FailComplete, Goto, history
  <2>2. disk' = disk \/ disk' = [disk EXCEPT ![home[e]] = Receipted(e)]
    BY <1>23 DEF FailComplete
  <2>3. Receipted(e).status = "APPLIED"
    BY DEF Receipted, Record
  <2>4. \A r \in Root : r # home[e] => disk'[r] = disk[r]
    BY <2>2
  <2>5. \A r \in Root : disk[r].status # "NONE" => disk'[r].status # "NONE"
    BY <2>1, <2>2, <2>3
  <2>6. \A f \in Exec : pc'[f] \in {"loaded", "reserved", "opening"} => f # e /\ pc'[f] = pc[f]
    BY <2>1
  <2>7. \A f \in Exec : f # e => journal'[f] = journal[f]
    BY <1>23 DEF FailComplete
  <2>8. \A f \in Exec : pc'[f] = "loaded" /\ Owns(f)' => journal'[f] = disk'[home'[f]]
    BY <2>1, <2>4, <2>6, <2>7
  <2>9. \A f \in Exec : Reserving(f)' =>
                          dispatches'[home'[f]] = 0 /\ disk'[home'[f]].status # "NONE"
    BY <2>1, <2>5, <2>6
  <2>10. \A r \in Root : disk'[r].status = "NONE" => disk'[r].binding = 0
    BY <2>1, <2>2, <2>3, <2>4
  <2> QED
    BY <2>1, <2>5, <2>6, <2>8, <2>9, <2>10
<1>24. ASSUME NEW e \in Exec, FailMark(e)
      PROVE  ReservationKept'
  BY <1>24 DEF FailMark, At, Goto, database, files, controller, process, history
<1>25. CASE SettleBackend
  BY <1>25 DEF SettleBackend, files, controller, process, history
<1>26. CASE \/ Withdraw \/ Reissue \/ MoveFence
           \/ \E r \in Root, kind \in {"STOP", "REVOKE"} : RecordControl(r, kind)
  BY <1>26 DEF Withdraw, Reissue, MoveFence, RecordControl, Happens, database, files, controller,
     process, history
<1>27. ASSUME NEW e \in Exec, Mark(e) \/ Proceed(e) \/ FailRelease(e)
       PROVE  ReservationKept'
  BY <1>27 DEF Mark, Proceed, FailRelease, Happens, At, Goto, database, files, controller,
     process, history
<1>28. ASSUME NEW e \in Exec, FailCreate(e)
       PROVE  ReservationKept'
  BY <1>28 DEF FailCreate, Happens, At, Goto, database, files, controller, process, history
<1> QED
  BY <1>1, <1>2, <1>3, <1>4, <1>5, <1>6, <1>7, <1>8, <1>9, <1>10, <1>11, <1>12, <1>13, <1>14,
     <1>15, <1>16, <1>17, <1>18, <1>19, <1>20, <1>21, <1>22, <1>23, <1>24, <1>25, <1>26,
     <1>27, <1>28
     DEF Next, Continue, Fault

(* What was seen stays true. *)
LEMMA SeenStep == IInv /\ [Next]_vars => SeenKept'
<1> SUFFICES ASSUME IInv, [Next]_vars PROVE SeenKept'
  OBVIOUS
<1> USE ExecAssumption DEF IInv, TypeOK, SessionKept, SeenKept, Applied, InTransaction
<1>1. CASE UNCHANGED vars
  BY <1>1 DEF vars, database, files, controller, process, history
<1>2. ASSUME NEW e \in Exec, Connect(e) \/ InspectMarker(e) \/ \E r \in Root : Start(e, r)
      PROVE  SeenKept'
  BY <1>2 DEF Start, Connect, InspectMarker, At, Goto, database, files, controller, process,
     history
<1>3. ASSUME NEW e \in Exec, Adopt(e) \/ Create(e) \/ Mark(e) \/ Load(e)
      PROVE  SeenKept'
  BY <1>3 DEF Adopt, Create, Mark, Load, At, Goto, database, files, controller, process, history
<1>4. ASSUME NEW e \in Exec, Reserve(e) \/ Resume(e) \/ FailReserve(e)
      PROVE  SeenKept'
  BY <1>4 DEF Reserve, Resume, FailReserve, At, Goto, database, files, controller, process,
     history
<1>5. ASSUME NEW e \in Exec, Proceed(e) \/ Dispatch(e) \/ SendCommit(e) \/ Commit(e)
      PROVE  SeenKept'
  BY <1>5 DEF Proceed, Dispatch, SendCommit, Commit, At, Goto, database, files, controller,
     process, history
<1>6. ASSUME NEW e \in Exec, Observe(e) \/ Complete(e) \/ AnswerHeld(e) \/ FailComplete(e)
      PROVE  SeenKept'
  BY <1>6 DEF Observe, Complete, AnswerHeld, FailComplete, At, Goto, database, files, controller,
     process, history
<1>7. ASSUME NEW e \in Exec, Refuse(e) \/ MarkAmbiguous(e) \/ FailMark(e) \/ Release(e)
                            \/ FailCreate(e) \/ FailRelease(e)
      PROVE  SeenKept'
  BY <1>7 DEF Refuse, MarkAmbiguous, FailMark, Release, FailCreate, FailRelease, At, Goto,
     database, files, controller, process, history
<1>8. ASSUME NEW e \in Exec, End(e) \/ Kill(e)
      PROVE  SeenKept'
  BY <1>8 DEF End, Forget, Kill, At, Goto, database, files, controller, process, history
<1>9. ASSUME NEW e \in Exec, DropSession(e)
      PROVE  SeenKept'
  BY <1>9 DEF DropSession, At, Goto, database, files, controller, process, history
<1>10. CASE SettleBackend
  BY <1>10 DEF SettleBackend, files, controller, process, history
<1>11. CASE \/ Withdraw \/ Reissue \/ MoveFence
           \/ \E r \in Root, kind \in {"STOP", "REVOKE"} : RecordControl(r, kind)
  BY <1>11 DEF Withdraw, Reissue, MoveFence, RecordControl, Happens, database, files, controller,
     process, history
<1> QED
  BY <1>1, <1>2, <1>3, <1>4, <1>5, <1>6, <1>7, <1>8, <1>9, <1>10, <1>11
     DEF Next, Continue, Fault

(* A receipt is of an effect. *)
LEMMA ReceiptStep == IInv /\ [Next]_vars => ReceiptMeansEffect'
<1> SUFFICES ASSUME IInv, [Next]_vars PROVE ReceiptMeansEffect'
  OBVIOUS
<1> USE ExecAssumption DEF IInv, TypeOK, SessionKept, ReservationKept, Reserving, SeenKept,
        ReceiptMeansEffect, Applied, InTransaction, Owns
<1>1. CASE UNCHANGED vars
  BY <1>1 DEF vars, database, files, controller, process, history
<1>2. ASSUME NEW e \in Exec, \E r \in Root : Start(e, r)
      PROVE  ReceiptMeansEffect'
  BY <1>2 DEF Start, At, Goto, database, files, controller, process, history
<1>3. ASSUME NEW e \in Exec, Connect(e)
      PROVE  ReceiptMeansEffect'
  BY <1>3 DEF Connect, At, Goto, database, files, controller, process, history
<1>4. ASSUME NEW e \in Exec, InspectMarker(e)
      PROVE  ReceiptMeansEffect'
  BY <1>4 DEF InspectMarker, At, Goto, database, files, controller, process, history
<1>5. ASSUME NEW e \in Exec, Adopt(e)
      PROVE  ReceiptMeansEffect'
  BY <1>5 DEF Adopt, At, Goto, database, files, controller, process, history
<1>6. ASSUME NEW e \in Exec, Create(e)
      PROVE  ReceiptMeansEffect'
  BY <1>6 DEF Create, At, Goto, database, files, controller, process, history
<1>7. ASSUME NEW e \in Exec, Load(e)
      PROVE  ReceiptMeansEffect'
  BY <1>7 DEF Load, Restored, At, Goto, database, files, controller, process, history
<1>8. ASSUME NEW e \in Exec, Reserve(e)
      PROVE  ReceiptMeansEffect'
  BY <1>8 DEF Reserve, Fresh, Executing, At, Goto, database, files, controller, process, history
<1>9. ASSUME NEW e \in Exec, Resume(e)
      PROVE  ReceiptMeansEffect'
  BY <1>9 DEF Resume, At, Goto, database, files, controller, process, history
<1>10. ASSUME NEW e \in Exec, Dispatch(e)
      PROVE  ReceiptMeansEffect'
  BY <1>10 DEF Dispatch, At, Goto, database, files, controller, process, history
<1>11. ASSUME NEW e \in Exec, SendCommit(e)
      PROVE  ReceiptMeansEffect'
  BY <1>11 DEF SendCommit, At, Goto, database, files, controller, process, history
<1>12. ASSUME NEW e \in Exec, Commit(e)
      PROVE  ReceiptMeansEffect'
  BY <1>12 DEF Commit, At, Goto, database, files, controller, process, history
<1>13. ASSUME NEW e \in Exec, Observe(e)
      PROVE  ReceiptMeansEffect'
  BY <1>13 DEF Observe, At, Goto, database, files, controller, process, history
<1>14. ASSUME NEW e \in Exec, Complete(e)
      PROVE  ReceiptMeansEffect'
  BY <1>14 DEF Complete, Receipted, Completable, At, Goto, database, files, controller, process,
     history
<1>15. ASSUME NEW e \in Exec, AnswerHeld(e)
      PROVE  ReceiptMeansEffect'
  BY <1>15 DEF AnswerHeld, At, Goto, database, files, controller, process, history
<1>16. ASSUME NEW e \in Exec, Refuse(e)
      PROVE  ReceiptMeansEffect'
  BY <1>16 DEF Refuse, At, Goto, database, files, controller, process, history
<1>17. ASSUME NEW e \in Exec, MarkAmbiguous(e)
      PROVE  ReceiptMeansEffect'
  BY <1>17 DEF MarkAmbiguous, Ambiguous, At, Goto, database, files, controller, process, history
<1>18. ASSUME NEW e \in Exec, Release(e)
      PROVE  ReceiptMeansEffect'
  BY <1>18 DEF Release, At, Goto, database, files, controller, process, history
<1>19. ASSUME NEW e \in Exec, End(e)
      PROVE  ReceiptMeansEffect'
  BY <1>19 DEF End, At, Goto, database, files, controller, process, history
<1>20. ASSUME NEW e \in Exec, Kill(e)
      PROVE  ReceiptMeansEffect'
  BY <1>20 DEF Kill, At, Goto, database, files, controller, process, history
<1>21. ASSUME NEW e \in Exec, DropSession(e)
      PROVE  ReceiptMeansEffect'
  BY <1>21 DEF DropSession, At, Goto, database, files, controller, process, history
<1>22. ASSUME NEW e \in Exec, FailReserve(e)
      PROVE  ReceiptMeansEffect'
  BY <1>22 DEF FailReserve, Fresh, Executing, At, Goto, database, files, controller, process,
     history
<1>23. ASSUME NEW e \in Exec, FailComplete(e) PROVE ReceiptMeansEffect'
  <2>1. /\ Applied' /\ UNCHANGED passed /\ home[e] \in Root
    BY <1>23 DEF FailComplete, Completable, database, history
  <2>2. disk' = disk \/ disk' = [disk EXCEPT ![home[e]] = Receipted(e)]
    BY <1>23 DEF FailComplete
  <2>3. Receipted(e).status = "APPLIED" /\ Receipted(e).receipt
    BY DEF Receipted, Record
  <2>4. \A r \in Root : disk'[r] = disk[r] \/ (disk'[r].status = "APPLIED" /\ disk'[r].receipt)
    BY <2>1, <2>2, <2>3
  <2> QED
    BY <2>1, <2>4
<1>24. ASSUME NEW e \in Exec, FailMark(e)
      PROVE  ReceiptMeansEffect'
  BY <1>24 DEF FailMark, At, Goto, database, files, controller, process, history
<1>25. CASE SettleBackend
  BY <1>25 DEF SettleBackend, files, controller, process, history
<1>26. CASE \/ Withdraw \/ Reissue \/ MoveFence
           \/ \E r \in Root, kind \in {"STOP", "REVOKE"} : RecordControl(r, kind)
  BY <1>26 DEF Withdraw, Reissue, MoveFence, RecordControl, Happens, database, files, controller,
     process, history
<1>27. ASSUME NEW e \in Exec, Mark(e) \/ Proceed(e) \/ FailRelease(e)
       PROVE  ReceiptMeansEffect'
  BY <1>27 DEF Mark, Proceed, FailRelease, Happens, At, Goto, database, files, controller,
     process, history
<1>28. ASSUME NEW e \in Exec, FailCreate(e)
       PROVE  ReceiptMeansEffect'
  BY <1>28 DEF FailCreate, Happens, At, Goto, database, files, controller, process, history
<1> QED
  BY <1>1, <1>2, <1>3, <1>4, <1>5, <1>6, <1>7, <1>8, <1>9, <1>10, <1>11, <1>12, <1>13, <1>14,
     <1>15, <1>16, <1>17, <1>18, <1>19, <1>20, <1>21, <1>22, <1>23, <1>24, <1>25, <1>26,
     <1>27, <1>28
     DEF Next, Continue, Fault

-----------------------------------------------------------------------------
(* The theorems *)

LEMMA Inductive == Spec => []IInv
<1>1. Init => IInv
  <2> SUFFICES ASSUME Init PROVE IInv
    OBVIOUS
  <2>1. TypeOK
    BY ExecAssumption, GrantAssumption DEF Init, TypeOK, Label, Record, Status, NoRecord
  <2>2. SessionKept /\ ReservationKept /\ SeenKept /\ ReceiptMeansEffect
    BY ExecAssumption DEF Init, SessionKept, ReservationKept, Reserving, SeenKept,
       ReceiptMeansEffect, NoRecord, InTransaction
  <2> QED
    BY <2>1, <2>2 DEF IInv
<1>2. IInv /\ [Next]_vars => IInv'
  BY StoresStep, CallsStep, SessionStep, ReservationStep, SeenStep, ReceiptStep
     DEF IInv, TypeOK, StoresTyped, CallsTyped
<1> QED
  BY <1>1, <1>2, PTL DEF Spec

(* Every reachable state of database, journals and calls is well formed: no *)
(* write of execute leaves a record normalizeEffectStore would not know. *)
THEOREM TypeCorrect == Spec => []TypeOK
<1>1. IInv => TypeOK
  BY DEF IInv
<1> QED
  BY <1>1, Inductive, PTL

(* The column is added once, and the gate's reservation lets every root *)
(* begin one transaction: executors, kills and lost answers change nothing. *)
THEOREM MigratesOnce == Spec => []EffectOnce
<1>1. IInv => EffectOnce
  BY DEF IInv, SessionKept, ReservationKept, EffectOnce
<1> QED
  BY <1>1, Inductive, PTL

(* A receipt that complete wrote is of a column the database has, and a *)
(* caller that execute answered PASS can have that answer again. *)
THEOREM ReceiptsTrue == Spec => []ReceiptMeansEffect
<1>1. IInv => ReceiptMeansEffect
  BY DEF IInv
<1> QED
  BY <1>1, Inductive, PTL

(* A control, once recorded, stays or rises. *)
LEMMA ControlsMove ==
  ASSUME TypeOK, [Next]_vars
  PROVE  \A r \in Root : control[r] # "NONE" => control'[r] # "NONE"
<1> USE DEF database, files, controller, process, history
<1>1. ASSUME NEW r \in Root, NEW kind \in {"STOP", "REVOKE"}, RecordControl(r, kind)
      PROVE  \A s \in Root : control[s] # "NONE" => control'[s] # "NONE"
  BY <1>1 DEF RecordControl, TypeOK
<1>2. CASE UNCHANGED vars \/ SettleBackend \/ Withdraw \/ Reissue \/ MoveFence
  BY <1>2 DEF vars, SettleBackend, Withdraw, Reissue, MoveFence
<1>3. ASSUME NEW e \in Exec, (\E r \in Root : Start(e, r)) \/ Continue(e)
      PROVE  UNCHANGED control
  BY <1>3 DEF Start, Continue, Connect, InspectMarker, Adopt, Create, Mark, Load, Reserve, Resume,
     Proceed, Dispatch, SendCommit, Commit, Observe, Complete, AnswerHeld, Refuse, MarkAmbiguous,
     Release, End
<1>4. ASSUME NEW e \in Exec, Fault(e)
      PROVE  UNCHANGED control
  BY <1>4 DEF Fault, Kill, DropSession, FailCreate, FailReserve, FailComplete, FailMark,
     FailRelease
<1> QED
  BY <1>1, <1>2, <1>3, <1>4 DEF Next

(* A COMMIT is on its way only from where it was, or by being sent. *)
LEMMA CommitsMove ==
  ASSUME TypeOK, [Next]_vars, NEW e \in Exec, pc'[e] = "committing"
  PROVE  home'[e] = home[e] /\ (pc[e] = "committing" \/ Committable(e))
<1> USE DEF database, files, controller, process, history, TypeOK
<1>1. CASE \/ UNCHANGED vars \/ SettleBackend \/ Withdraw \/ Reissue \/ MoveFence
           \/ \E r \in Root, kind \in {"STOP", "REVOKE"} : RecordControl(r, kind)
  BY <1>1 DEF vars, SettleBackend, Withdraw, Reissue, MoveFence, RecordControl
<1>2. ASSUME NEW f \in Exec, SendCommit(f)
      PROVE  home'[e] = home[e] /\ (pc[e] = "committing" \/ Committable(e))
  BY <1>2 DEF SendCommit, Goto
<1>3. ASSUME NEW f \in Exec, \/ \E r \in Root : Start(f, r)
                             \/ End(f) \/ Kill(f)
      PROVE  home'[e] = home[e] /\ pc[e] = "committing"
  BY <1>3 DEF Start, End, Kill, Forget, Goto
<1>4. ASSUME NEW f \in Exec,
             \/ Connect(f) \/ InspectMarker(f) \/ Adopt(f) \/ Create(f) \/ Mark(f) \/ Load(f)
             \/ Reserve(f) \/ Resume(f) \/ Proceed(f) \/ Dispatch(f) \/ Commit(f)
      PROVE  home' = home /\ pc[e] = "committing"
  BY <1>4 DEF Connect, InspectMarker, Adopt, Create, Mark, Load, Reserve, Resume, Proceed,
     Dispatch, Commit, Goto
<1>5. ASSUME NEW f \in Exec,
             \/ Observe(f) \/ Complete(f) \/ AnswerHeld(f) \/ Refuse(f) \/ MarkAmbiguous(f)
             \/ Release(f) \/ DropSession(f) \/ FailCreate(f) \/ FailReserve(f)
             \/ FailComplete(f) \/ FailMark(f) \/ FailRelease(f)
      PROVE  home' = home /\ pc[e] = "committing"
  BY <1>5 DEF Observe, Complete, AnswerHeld, Refuse, OnError, MarkAmbiguous, Release, DropSession,
     FailCreate, FailReserve, FailComplete, FailMark, FailRelease, Goto
<1> QED
  BY <1>1, <1>2, <1>3, <1>4, <1>5 DEF Next, Continue, Fault

(* Once assertEffectControl denies a root and no COMMIT of it is on its way, *)
(* none is sent any more: the check stands inside the transaction. *)
THEOREM ControlsEnd == Spec => ControlEndsCommits
<1>1. TypeOK /\ [Next]_vars => [\A r \in Root : Quiet(r) => Quiet(r)']_vars
  <2> SUFFICES ASSUME TypeOK, [Next]_vars, NEW r \in Root, Quiet(r) PROVE Quiet(r)'
    OBVIOUS
  <2>1. control'[r] # "NONE"
    BY ControlsMove DEF Quiet
  <2>2. ASSUME NEW e \in Exec, home'[e] = r, pc'[e] = "committing" PROVE FALSE
    BY <2>2, CommitsMove DEF Quiet, Committing, Committable, Dispatchable
  <2> QED
    BY <2>1, <2>2 DEF Quiet, Committing
<1> QED
  BY <1>1, TypeCorrect, PTL DEF Spec, ControlEndsCommits

-----------------------------------------------------------------------------
(* What the executors do to the records: a reservation stands under the grant *)
(* it was made with. *)
LEMMA RecordsMove ==
  ASSUME IInv, BindingKept, [Next]_vars, NEW r \in Root, disk[r].status # "NONE"
  PROVE  disk'[r].status # "NONE" /\ disk'[r].binding = disk[r].binding
<1> USE ExecAssumption
<1>0. /\ disk \in [Root -> Record] /\ journal \in [Exec -> Record]
      /\ home \in [Exec -> Root \cup {Nobody}]
      /\ \A e \in Exec : pc[e] # "idle" => home[e] \in Root
  BY DEF IInv, TypeOK
<1>1. ASSUME UNCHANGED disk
      PROVE  disk'[r].status # "NONE" /\ disk'[r].binding = disk[r].binding
  BY <1>1
<1>2. ASSUME NEW e \in Exec, Load(e)
      PROVE  disk'[r].status # "NONE" /\ disk'[r].binding = disk[r].binding
  BY <1>0, <1>2 DEF Load, Restored, Record
<1>3. ASSUME NEW e \in Exec, Reserve(e) \/ FailReserve(e)
      PROVE  disk'[r].status # "NONE" /\ disk'[r].binding = disk[r].binding
  <2>1. At(e, "loaded") /\ Fresh(e) /\ Owns(e)
    BY <1>3 DEF Reserve, FailReserve
  <2>2. disk[home[e]].status = "NONE"
    BY <2>1 DEF IInv, ReservationKept, At, Fresh
  <2>3. disk' = disk \/ disk' = [disk EXCEPT ![home[e]] = Executing(e)]
    BY <1>3 DEF Reserve, FailReserve
  <2> QED
    BY <1>0, <2>2, <2>3
<1>4. ASSUME NEW e \in Exec, Complete(e) \/ FailComplete(e) \/ MarkAmbiguous(e)
      PROVE  disk'[r].status # "NONE" /\ disk'[r].binding = disk[r].binding
  <2>1. pc[e] \in ReservedLabel /\ home[e] \in Root
    BY <1>0, <1>4 DEF Complete, FailComplete, MarkAmbiguous, At, ReservedLabel
  <2>2. disk[home[e]].binding = journal[e].binding
    BY <2>1 DEF BindingKept
  <2>3. \/ disk' = disk
        \/ disk' = [disk EXCEPT ![home[e]] = Receipted(e)]
        \/ ~journal[e].receipt /\ disk' = [disk EXCEPT ![home[e]] = Ambiguous(e)]
    BY <1>4 DEF Complete, FailComplete, MarkAmbiguous
  <2>4. /\ Receipted(e).status = "APPLIED" /\ Receipted(e).binding = journal[e].binding
        /\ ~journal[e].receipt =>
             Ambiguous(e).status = "AMBIGUOUS" /\ Ambiguous(e).binding = journal[e].binding
    BY <1>0 DEF Receipted, Ambiguous, Record
  <2> QED
    BY <1>0, <2>1, <2>2, <2>3, <2>4
<1>5. CASE \/ UNCHANGED vars \/ SettleBackend \/ Withdraw \/ Reissue \/ MoveFence
           \/ \E s \in Root, kind \in {"STOP", "REVOKE"} : RecordControl(s, kind)
  BY <1>1, <1>5 DEF vars, files, SettleBackend, Withdraw, Reissue, MoveFence, RecordControl
<1>6. ASSUME NEW e \in Exec,
             \/ \E s \in Root : Start(e, s)
             \/ Connect(e) \/ InspectMarker(e) \/ Adopt(e) \/ Create(e) \/ Mark(e) \/ Resume(e)
             \/ Proceed(e) \/ Dispatch(e) \/ SendCommit(e) \/ Commit(e) \/ Observe(e)
             \/ AnswerHeld(e) \/ Refuse(e) \/ Release(e) \/ End(e) \/ Kill(e) \/ DropSession(e)
             \/ FailCreate(e) \/ FailMark(e) \/ FailRelease(e)
      PROVE  UNCHANGED disk
  BY <1>6 DEF Start, Connect, InspectMarker, Adopt, Create, Mark, Resume, Proceed, Dispatch,
     SendCommit, Commit, Observe, AnswerHeld, Refuse, Release, End, Kill, DropSession,
     FailCreate, FailMark, FailRelease, files
<1> QED
  BY <1>1, <1>2, <1>3, <1>4, <1>5, <1>6 DEF Next, Continue, Fault

(* An executor's step is in its own call. *)
LEMMA OthersStand ==
  ASSUME TypeOK, NEW e \in Exec, NEW f \in Exec, f # e,
         (\E r \in Root : Start(f, r)) \/ Continue(f) \/ Fault(f)
  PROVE  pc'[e] = pc[e] /\ home'[e] = home[e] /\ held'[e] = held[e] /\ journal'[e] = journal[e]
<1> USE DEF TypeOK, Goto, process
<1>1. CASE \/ \E r \in Root : Start(f, r)
           \/ Connect(f) \/ InspectMarker(f) \/ Adopt(f) \/ Create(f) \/ Mark(f) \/ Load(f)
           \/ Reserve(f) \/ Resume(f) \/ FailReserve(f)
  BY <1>1 DEF Start, Connect, InspectMarker, Adopt, Create, Mark, Load, Reserve, Resume,
     FailReserve
<1>2. CASE \/ Proceed(f) \/ Dispatch(f) \/ SendCommit(f) \/ Commit(f)
           \/ Observe(f) \/ Complete(f) \/ AnswerHeld(f)
  BY <1>2 DEF Proceed, Dispatch, SendCommit, Commit, Observe, Complete, AnswerHeld
<1>3. CASE \/ Refuse(f) \/ MarkAmbiguous(f) \/ Release(f)
           \/ FailCreate(f) \/ FailComplete(f) \/ FailMark(f) \/ FailRelease(f)
  BY <1>3 DEF Refuse, MarkAmbiguous, Release, FailCreate, FailComplete, FailMark, FailRelease
<1>4. CASE End(f) \/ Kill(f) \/ DropSession(f)
  BY <1>4 DEF End, Kill, DropSession, Forget
<1> QED
  BY <1>1, <1>2, <1>3, <1>4 DEF Continue, Fault

(* How a call with a reservation came by it, and that it keeps it. *)
LEMMA CallsMove ==
  ASSUME IInv, [Next]_vars, NEW e \in Exec, pc'[e] \in ReservedLabel \cup {"loaded"}
  PROVE  /\ home'[e] = home[e] /\ held'[e] = held[e] /\ home[e] \in Root
         /\ \/ Load(e)
            \/ Reserve(e)
            \/ pc[e] = "loaded" /\ Resumable(e) /\ journal'[e] = journal[e]
            \/ pc[e] = "loaded" /\ pc'[e] = "loaded" /\ journal'[e] = journal[e]
            \/ /\ pc[e] \in ReservedLabel
               /\ \/ journal'[e] = journal[e]
                  \/ journal'[e].status # "NONE" /\ journal'[e].binding = journal[e].binding
<1> DEFINE Kept == /\ home'[e] = home[e] /\ held'[e] = held[e] /\ home[e] \in Root
           How == \/ Load(e)
                  \/ Reserve(e)
                  \/ pc[e] = "loaded" /\ Resumable(e) /\ journal'[e] = journal[e]
                  \/ pc[e] = "loaded" /\ pc'[e] = "loaded" /\ journal'[e] = journal[e]
                  \/ /\ pc[e] \in ReservedLabel
                     /\ \/ journal'[e] = journal[e]
                        \/ /\ journal'[e].status # "NONE"
                           /\ journal'[e].binding = journal[e].binding
<1> USE DEF ReservedLabel
<1>0. /\ TypeOK /\ pc \in [Exec -> Label] /\ journal \in [Exec -> Record]
      /\ \A f \in Exec : home[f] \in Root \cup {Nobody} /\ (pc[f] # "idle" => home[f] \in Root)
  BY DEF IInv, TypeOK
<1>1. CASE \/ UNCHANGED vars \/ SettleBackend \/ Withdraw \/ Reissue \/ MoveFence
           \/ \E r \in Root, kind \in {"STOP", "REVOKE"} : RecordControl(r, kind)
  BY <1>0, <1>1 DEF vars, SettleBackend, Withdraw, Reissue, MoveFence, RecordControl, process
<1>2. ASSUME NEW f \in Exec, f # e, (\E r \in Root : Start(f, r)) \/ Continue(f) \/ Fault(f)
      PROVE  Kept /\ How
  BY <1>0, <1>2, OthersStand
<1>3. CASE Load(e) \/ Reserve(e)
  BY <1>0, <1>3 DEF Load, Reserve, At
<1>4. CASE Resume(e)
  <2>1. /\ pc[e] = "loaded" /\ Resumable(e)
        /\ home' = home /\ held' = held /\ journal' = journal
    BY <1>4 DEF Resume, At
  <2> QED
    BY <1>0, <2>1
<1>5. CASE FailComplete(e)
  BY <1>0, <1>5 DEF FailComplete, WithdrawnReceipt, Record
<1>6. CASE Proceed(e) \/ Dispatch(e) \/ SendCommit(e) \/ Commit(e) \/ Observe(e) \/ Refuse(e)
  BY <1>0, <1>6 DEF Proceed, Dispatch, SendCommit, Commit, Observe, Refuse, OnError, At, Goto
<1>7. CASE \/ Connect(e) \/ InspectMarker(e) \/ Adopt(e) \/ Create(e) \/ Mark(e)
           \/ Complete(e) \/ AnswerHeld(e) \/ MarkAmbiguous(e) \/ Release(e)
           \/ FailCreate(e) \/ FailReserve(e) \/ FailMark(e) \/ FailRelease(e)
           \/ \E r \in Root : Start(e, r)
  BY <1>0, <1>7 DEF Connect, InspectMarker, Adopt, Create, Mark, Complete, AnswerHeld,
     MarkAmbiguous, Release, FailCreate, FailReserve, FailMark, FailRelease, Start, Goto
<1>8. CASE End(e) \/ Kill(e)
  BY <1>0, <1>8 DEF End, Kill, Forget, Goto
<1>9. CASE DropSession(e)
  BY <1>0, <1>9 DEF DropSession, process
<1> QED
  BY <1>1, <1>2, <1>3, <1>4, <1>5, <1>6, <1>7, <1>8, <1>9 DEF Next, Continue, Fault

(* The fence moves only when nobody is in a transaction. *)
LEMMA FenceStands ==
  ASSUME [Next]_vars
  PROVE  UNCHANGED fence \/ MoveFence
<1> USE DEF database, files, controller, process, history
<1>1. CASE \/ UNCHANGED vars \/ SettleBackend \/ Withdraw \/ Reissue
           \/ \E r \in Root, kind \in {"STOP", "REVOKE"} : RecordControl(r, kind)
  BY <1>1 DEF vars, SettleBackend, Withdraw, Reissue, RecordControl
<1>2. ASSUME NEW e \in Exec, (\E r \in Root : Start(e, r)) \/ Continue(e)
      PROVE  UNCHANGED fence
  BY <1>2 DEF Start, Continue, Connect, InspectMarker, Adopt, Create, Mark, Load, Reserve, Resume,
     Proceed, Dispatch, SendCommit, Commit, Observe, Complete, AnswerHeld, Refuse, MarkAmbiguous,
     Release, End
<1>3. ASSUME NEW e \in Exec, Fault(e)
      PROVE  UNCHANGED fence
  BY <1>3 DEF Fault, Kill, DropSession, FailCreate, FailReserve, FailComplete, FailMark,
     FailRelease
<1> QED
  BY <1>1, <1>2, <1>3 DEF Next

(* Whoever is in a transaction has begun it, and holds the session since. *)
LEMMA TransactionsMove ==
  ASSUME IInv, [Next]_vars, NEW e \in Exec, pc'[e] \in {"inTransaction", "committing"}
  PROVE  \/ Dispatch(e)
         \/ /\ pc[e] \in {"inTransaction", "committing"}
            /\ session' = e => session = e
<1> DEFINE Was == /\ pc[e] \in {"inTransaction", "committing"}
                  /\ session' = e => session = e
<1>0. TypeOK /\ pc \in [Exec -> Label]
  BY DEF IInv, TypeOK
<1>1. ASSUME NEW f \in Exec, f # e, (\E r \in Root : Start(f, r)) \/ Continue(f) \/ Fault(f)
      PROVE  Was
  <2>1. pc[e] \in {"inTransaction", "committing"}
    BY <1>0, <1>1, OthersStand
  <2>2. session' \in {session, f, Gone, Nobody}
    BY <1>1 DEF Start, Continue, Fault, Connect, InspectMarker, Adopt, Create, Mark, Load,
       Reserve, Resume, Proceed, Dispatch, SendCommit, Commit, Observe, Complete, AnswerHeld,
       Refuse, MarkAmbiguous, Release, End, Kill, DropSession, FailCreate, FailReserve,
       FailComplete, FailMark, FailRelease, Left, database
  <2> QED
    BY <1>1, <2>1, <2>2, ExecAssumption
<1>2. CASE SendCommit(e) \/ DropSession(e)
  BY <1>0, <1>2, ExecAssumption DEF SendCommit, DropSession, Left, At, Goto, database, process
<1>3. CASE \/ \E r \in Root : Start(e, r)
           \/ Connect(e) \/ InspectMarker(e) \/ Adopt(e) \/ Create(e) \/ Mark(e) \/ Load(e)
           \/ Reserve(e) \/ Resume(e) \/ FailReserve(e)
  BY <1>0, <1>3 DEF Start, Connect, InspectMarker, Adopt, Create, Mark, Load, Reserve, Resume,
     FailReserve, Goto
<1>4. CASE \/ Commit(e) \/ Observe(e) \/ Complete(e) \/ AnswerHeld(e) \/ Refuse(e)
           \/ MarkAmbiguous(e) \/ Release(e) \/ Proceed(e)
           \/ FailCreate(e) \/ FailComplete(e) \/ FailMark(e) \/ FailRelease(e)
  BY <1>0, <1>4 DEF Commit, Observe, Complete, AnswerHeld, Refuse, OnError, MarkAmbiguous,
     Release, Proceed, FailCreate, FailComplete, FailMark, FailRelease, Goto
<1>5. CASE End(e) \/ Kill(e)
  BY <1>0, <1>5 DEF End, Kill, Forget, Goto
<1>6. CASE \/ UNCHANGED vars \/ SettleBackend \/ Withdraw \/ Reissue \/ MoveFence
           \/ \E r \in Root, kind \in {"STOP", "REVOKE"} : RecordControl(r, kind)
  BY <1>0, <1>6, ExecAssumption DEF vars, SettleBackend, Withdraw, Reissue, MoveFence,
     RecordControl, process, database
<1> QED
  BY <1>1, <1>2, <1>3, <1>4, <1>5, <1>6 DEF Next, Continue, Fault

(* What a call is bound to. *)
LEMMA BindingStep == IInv /\ BindingKept /\ [Next]_vars => BindingKept'
<1> SUFFICES ASSUME IInv, BindingKept, [Next]_vars PROVE BindingKept'
  OBVIOUS
<1>0. /\ TypeOK /\ journal \in [Exec -> Record] /\ disk \in [Root -> Record]
  BY DEF IInv, TypeOK
<1>1. ASSUME NEW e \in Exec, pc'[e] \in ReservedLabel
      PROVE  journal'[e].status # "NONE" /\ journal'[e].binding = held'[e]
  <2>1. CASE Load(e)
    BY <1>0, <1>1, <2>1 DEF Load, Goto, ReservedLabel, TypeOK
  <2>2. CASE Reserve(e)
    BY <1>0, <2>2 DEF Reserve, Executing
  <2>3. CASE pc[e] = "loaded" /\ Resumable(e) /\ journal'[e] = journal[e] /\ held'[e] = held[e]
    BY <2>3 DEF Resumable
  <2>4. CASE /\ pc[e] \in ReservedLabel /\ held'[e] = held[e]
             /\ \/ journal'[e] = journal[e]
                \/ journal'[e].status # "NONE" /\ journal'[e].binding = journal[e].binding
    BY <2>4 DEF BindingKept
  <2> QED
    BY <1>1, <2>1, <2>2, <2>3, <2>4, CallsMove DEF ReservedLabel
<1>2. ASSUME NEW e \in Exec, pc'[e] \in ReservedLabel \cup {"loaded"}, journal'[e].status # "NONE"
      PROVE  /\ disk'[home'[e]].status # "NONE"
             /\ disk'[home'[e]].binding = journal'[e].binding
  <2>1. home'[e] = home[e] /\ home[e] \in Root
    BY <1>2, CallsMove
  <2>2. CASE Load(e)
    BY <1>0, <1>2, <2>1, <2>2 DEF Load
  <2>3. CASE Reserve(e)
    BY <1>0, <2>1, <2>3 DEF Reserve, Executing
  <2>4. CASE /\ pc[e] \in ReservedLabel \cup {"loaded"}
             /\ journal[e].status # "NONE" /\ journal'[e].binding = journal[e].binding
    BY <2>1, <2>4, RecordsMove DEF BindingKept
  <2>5. pc[e] \in ReservedLabel => journal[e].status # "NONE"
    BY DEF BindingKept
  <2> QED
    BY <1>2, <2>2, <2>3, <2>4, <2>5, CallsMove
<1>3. ASSUME NEW e \in Exec, InTransaction(e)' PROVE fence' = Fence[held'[e]]
  <2>1. pc'[e] \in {"inTransaction", "committing"} /\ session' = e
    BY <1>3 DEF InTransaction
  <2>2. held'[e] = held[e]
    BY <2>1, CallsMove DEF ReservedLabel
  <2>3. CASE Dispatch(e)
    BY <2>2, <2>3 DEF Dispatch, Migratable, database
  <2>4. CASE InTransaction(e)
    BY <2>2, <2>4, FenceStands DEF BindingKept, MoveFence
  <2> QED
    BY <2>1, <2>3, <2>4, TransactionsMove DEF InTransaction
<1> QED
  BY <1>1, <1>2, <1>3 DEF BindingKept

(* ... from the first state on. *)
LEMMA BindingHolds == Spec => []BindingKept
<1>1. Init => BindingKept
  BY ExecAssumption DEF Init, BindingKept, ReservedLabel, InTransaction
<1> QED
  BY <1>1, BindingStep, Inductive, PTL DEF Spec

-----------------------------------------------------------------------------
(* The update as its controller sees it. *)

\* Only who holds the session has a COMMIT on its way.
LEMMA SentIs ==
  ASSUME IInv
  PROVE  /\ Sent => session # Nobody
         /\ \A e \in Exec : session = e => (Sent <=> At(e, "committing"))
BY ExecAssumption DEF Sent, IInv, TypeOK

\* A root's attempt is known by its record, whatever is written into it later.
LEMMA BegunStays ==
  ASSUME IInv, BindingKept,
         \/ UNCHANGED disk
         \/ \E e \in Exec : Load(e) \/ Complete(e) \/ FailComplete(e) \/ MarkAmbiguous(e)
  PROVE  UNCHANGED Begun
<1>0. /\ disk \in [Root -> Record] /\ journal \in [Exec -> Record]
      /\ \A e \in Exec : pc[e] # "idle" => home[e] \in Root
  BY DEF IInv, TypeOK
<1>1. ASSUME NEW e \in Exec, Load(e) PROVE UNCHANGED Begun
  BY <1>0, <1>1 DEF Load, Restored, Record, Begun
<1>2. ASSUME NEW e \in Exec, Complete(e) \/ FailComplete(e) \/ MarkAmbiguous(e)
      PROVE  UNCHANGED Begun
  <2>1. pc[e] \in ReservedLabel /\ home[e] \in Root
    BY <1>0, <1>2 DEF Complete, FailComplete, MarkAmbiguous, At, ReservedLabel
  <2>2. disk[home[e]].binding = journal[e].binding
    BY <2>1 DEF BindingKept
  <2>3. \/ disk' = disk
        \/ disk' = [disk EXCEPT ![home[e]] = Receipted(e)]
        \/ disk' = [disk EXCEPT ![home[e]] = Ambiguous(e)]
    BY <1>2 DEF Complete, FailComplete, MarkAmbiguous
  <2>4. Receipted(e).binding = journal[e].binding /\ Ambiguous(e).binding = journal[e].binding
    BY <1>0 DEF Receipted, Ambiguous, Record
  <2> QED
    BY <1>0, <2>1, <2>2, <2>3, <2>4 DEF Begun
<1> QED
  BY <1>1, <1>2 DEF Begun

\* The steps of a call that its controller does not see: whether a COMMIT is on
\* its way does not change, not even when its client goes.
LEMMA SentStays ==
  ASSUME IInv, NEW e \in Exec,
         \/ \E r \in Root : Start(e, r)
         \/ Connect(e) \/ InspectMarker(e) \/ Adopt(e) \/ Create(e) \/ Mark(e) \/ Load(e)
         \/ Reserve(e) \/ Resume(e) \/ Proceed(e) \/ Dispatch(e) \/ Observe(e)
         \/ AnswerHeld(e) \/ Refuse(e) \/ MarkAmbiguous(e) \/ Release(e) \/ End(e) \/ Fault(e)
  PROVE  UNCHANGED <<grant, live, fence, control, migrations, passed>> /\ UNCHANGED Sent
<1> USE ExecAssumption DEF database, files, controller, process, history
<1>0. pc \in [Exec -> Label]
  BY DEF IInv, TypeOK
<1>1. UNCHANGED <<grant, live, fence, control, migrations, passed>>
  BY DEF Start, Connect, InspectMarker, Adopt, Create, Mark, Load, Reserve, Resume, Proceed,
     Dispatch, Observe, AnswerHeld, Refuse, MarkAmbiguous, Release, End, Fault, Kill, DropSession,
     FailCreate, FailReserve, FailComplete, FailMark, FailRelease
<1>2. CASE \/ \E r \in Root : Start(e, r)
           \/ InspectMarker(e) \/ Adopt(e) \/ Create(e) \/ Mark(e) \/ Load(e)
           \/ Reserve(e) \/ Resume(e) \/ FailCreate(e) \/ FailReserve(e)
  BY <1>0, <1>2 DEF Start, InspectMarker, Adopt, Create, Mark, Load, Reserve, Resume, FailCreate,
     FailReserve, Sent, At, Goto
<1>3. CASE \/ Proceed(e) \/ Dispatch(e) \/ Observe(e) \/ AnswerHeld(e) \/ MarkAmbiguous(e)
           \/ Release(e) \/ FailComplete(e) \/ FailMark(e) \/ FailRelease(e)
  BY <1>0, <1>3 DEF Proceed, Dispatch, Observe, AnswerHeld, MarkAmbiguous, Release, FailComplete,
     FailMark, FailRelease, Sent, At, Goto
<1>4. CASE Refuse(e)
  <2>1. session = e => pc[e] # "committing"
    BY <1>4 DEF Refuse, Refusal, At
  <2> QED
    BY <1>0, <1>4, <2>1 DEF Refuse, OnError, Sent, At, Goto
<1>5. CASE Connect(e) \/ End(e)
  BY <1>0, <1>5 DEF Connect, Connectable, End, Forget, Sent, At, Goto
<1>6. CASE Kill(e)
  BY <1>0, <1>6 DEF Kill, Left, Forget, Sent, At, Goto
<1>7. CASE DropSession(e)
  BY <1>0, <1>7 DEF DropSession, Left, Sent, At
<1> QED
  BY <1>1, <1>2, <1>3, <1>4, <1>5, <1>6, <1>7 DEF Fault

\* What the guard does not speak of.
LEMMA GuardAside ==
  ASSUME UNCHANGED <<grant, live, fence, control, migrations, passed>>,
         UNCHANGED Begun, UNCHANGED Sent
  PROVE  UNCHANGED Migration!vars
BY DEF Migration!vars, Denied, Applied

\* A reservation that reaches the disk begins the root's attempt.
LEMMA ReservationBegins ==
  ASSUME IInv, BindingKept, NEW e \in Exec, Reserve(e) \/ FailReserve(e)
  PROVE  Migration!Begin(home[e]) \/ UNCHANGED Migration!vars
<1>0. disk \in [Root -> Record] /\ home[e] \in Root
  BY DEF IInv, TypeOK, Reserve, FailReserve, At
<1>1. /\ pc[e] = "loaded" /\ Owns(e) /\ journal[e].status = "NONE"
      /\ live /\ held[e] = grant /\ control[home[e]] = "NONE"
  BY DEF Reserve, FailReserve, Admitted, Authorised, Dispatchable, Fresh, At
<1>2. Begun[home[e]] = 0
  BY <1>0, <1>1 DEF Begun, IInv, ReservationKept
<1>3. UNCHANGED <<grant, live, fence, control, migrations, passed>> /\ UNCHANGED Sent
  BY SentStays DEF Fault
<1>4. CASE disk' = disk
  BY <1>3, <1>4, GuardAside DEF Begun
<1>5. CASE disk' = [disk EXCEPT ![home[e]] = Executing(e)]
  <2>1. Begun' = [Begun EXCEPT ![home[e]] = grant]
    BY <1>0, <1>1, <1>5 DEF Begun, Executing
  <2> QED
    BY <1>0, <1>1, <1>2, <1>3, <2>1 DEF Migration!Begin, Denied, Applied
<1> QED
  BY <1>4, <1>5 DEF Reserve, FailReserve

\* The checks inside the transaction are those of the promise.
LEMMA CommitIsSent ==
  ASSUME IInv, BindingKept, NEW e \in Exec, SendCommit(e)
  PROVE  Migration!Send(home[e])
<1>0. home[e] \in Root /\ migrations \in Nat /\ pc \in [Exec -> Label]
  BY DEF IInv, TypeOK, SendCommit, At
<1>1. /\ live /\ held[e] = grant /\ control[home[e]] = "NONE"
      /\ session = e /\ pc[e] = "inTransaction"
      /\ pc' = [pc EXCEPT ![e] = "committing"]
      /\ UNCHANGED <<database, files, controller, history>>
  BY DEF SendCommit, Committable, Authorised, Dispatchable, At, Goto
<1>2. ~Sent /\ Sent'
  BY <1>0, <1>1, SentIs DEF Sent, At, database
<1>3. migrations = 0 /\ fence = Fence[grant]
  BY <1>1 DEF IInv, SessionKept, BindingKept, InTransaction
<1>4. Begun[home[e]] = grant
  BY <1>0, <1>1 DEF Begun, BindingKept, ReservedLabel
<1>5. UNCHANGED Begun
  BY <1>1, BegunStays DEF files
<1> QED
  BY <1>0, <1>1, <1>2, <1>3, <1>4, <1>5
     DEF Migration!Send, Migration!Open, Denied, Applied, database, files, controller, history

\* A COMMIT ends, with its client or without.
LEMMA CommitSettles ==
  ASSUME IInv, BindingKept, SettleBackend \/ \E e \in Exec : Commit(e)
  PROVE  Migration!Settle
<1>0. pc \in [Exec -> Label]
  BY DEF IInv, TypeOK
<1>1. Sent /\ ~Sent'
  <2>1. CASE SettleBackend
    BY <2>1, ExecAssumption DEF SettleBackend, Sent
  <2>2. ASSUME NEW e \in Exec, Commit(e) PROVE Sent /\ ~Sent'
    BY <1>0, <2>2, ExecAssumption DEF Commit, Sent, At, Goto
  <2> QED
    BY <2>1, <2>2
<1>2. UNCHANGED <<grant, live, fence, control, disk, passed>>
  BY DEF SettleBackend, Commit, files, controller, history
<1>3. UNCHANGED Begun
  BY <1>2, BegunStays
<1>4. Applied' \in BOOLEAN /\ Sent' = FALSE
  BY <1>1 DEF Applied
<1> QED
  BY <1>1, <1>2, <1>3, <1>4 DEF Migration!Settle, Denied

\* PASS is told of what was seen, under the grant of the reservation.
LEMMA CompleteTells ==
  ASSUME IInv, BindingKept, NEW e \in Exec, Complete(e)
  PROVE  Migration!Tell(home[e])
<1>0. pc \in [Exec -> Label] /\ home[e] \in Root
  BY DEF IInv, TypeOK, Complete
<1>1. /\ live /\ held[e] = grant /\ seen[e] /\ pc[e] \in {"observed", "resolved"}
      /\ pc' = [pc EXCEPT ![e] = "releasing"]
      /\ passed' = passed \cup {home[e]}
      /\ UNCHANGED <<database, control, controller>>
  BY DEF Complete, Completable, Authorised, Goto
<1>2. Applied
  BY <1>1 DEF IInv, SeenKept
<1>3. Begun[home[e]] = grant
  BY <1>0, <1>1 DEF Begun, BindingKept, ReservedLabel
<1>4. UNCHANGED Begun
  BY BegunStays
<1>5. UNCHANGED Sent
  BY <1>0, <1>1 DEF Sent, At, database
<1> QED
  BY <1>0, <1>1, <1>2, <1>3, <1>4, <1>5 DEF Migration!Tell, Denied, Applied, database, controller

\* Controller, operator and target do what they may.
LEMMA EnvironmentActs ==
  ASSUME IInv, BindingKept
  PROVE  /\ Withdraw => Migration!Withdraw
         /\ Reissue => Migration!Reissue
         /\ MoveFence => Migration!MoveFence
         /\ \A r \in Root, kind \in {"STOP", "REVOKE"} :
              RecordControl(r, kind) => Migration!Deny(r)
<1> USE DEF database, files, controller, process, history
<1>1. ASSUME Withdraw \/ Reissue PROVE UNCHANGED <<fence, Denied, Begun, Sent, Applied, passed>>
  BY <1>1, BegunStays DEF Withdraw, Reissue, Denied, Sent, Applied, At
<1>2. ASSUME Withdraw PROVE Migration!Withdraw
  BY <1>1, <1>2 DEF Withdraw, Migration!Withdraw
<1>3. ASSUME Reissue PROVE Migration!Reissue
  BY <1>1, <1>3 DEF Reissue, Migration!Reissue
<1>4. ASSUME MoveFence PROVE Migration!MoveFence
  <2>1. ~Sent /\ UNCHANGED Sent
    BY <1>4 DEF MoveFence, Sent, At, InTransaction
  <2>2. fence' \in Nat
    BY <1>4, GrantAssumption DEF MoveFence
  <2> QED
    BY <1>4, <2>1, <2>2, BegunStays DEF MoveFence, Migration!MoveFence, Denied, Applied
<1>5. ASSUME NEW r \in Root, NEW kind \in {"STOP", "REVOKE"}, RecordControl(r, kind)
      PROVE  Migration!Deny(r)
  <2>1. Denied' = Denied \cup {r}
    BY <1>5 DEF RecordControl, Denied, IInv, TypeOK
  <2>2. UNCHANGED Sent /\ UNCHANGED Begun /\ UNCHANGED Applied
    BY <1>5, BegunStays DEF RecordControl, Sent, At, Applied
  <2> QED
    BY <1>5, <2>1, <2>2 DEF RecordControl, Migration!Deny
<1> QED
  BY <1>2, <1>3, <1>4, <1>5

\* Every step is one of GuardedMigration or none.
LEMMA GuardStep ==
  ASSUME IInv, BindingKept, [Next]_vars
  PROVE  [Migration!Next]_Migration!vars
<1>1. ASSUME NEW e \in Exec, Reserve(e) \/ FailReserve(e) \/ SendCommit(e) \/ Complete(e)
      PROVE  [Migration!Next]_Migration!vars
  <2>1. home[e] \in Root
    BY <1>1 DEF IInv, TypeOK, Reserve, FailReserve, SendCommit, Complete, At
  <2> QED
    BY <1>1, <2>1, ReservationBegins, CommitIsSent, CompleteTells DEF Migration!Next
<1>2. ASSUME SettleBackend \/ \E e \in Exec : Commit(e) PROVE Migration!Next
  BY <1>2, CommitSettles DEF Migration!Next
<1>3. ASSUME \/ Withdraw \/ Reissue \/ MoveFence
             \/ \E r \in Root, kind \in {"STOP", "REVOKE"} : RecordControl(r, kind)
      PROVE  Migration!Next
  BY <1>3, EnvironmentActs DEF Migration!Next
<1>4. ASSUME NEW e \in Exec, Load(e) \/ MarkAmbiguous(e) \/ FailComplete(e)
      PROVE  UNCHANGED Migration!vars
  BY <1>4, SentStays, BegunStays, GuardAside DEF Fault
<1>5. ASSUME NEW e \in Exec,
             \/ \E r \in Root : Start(e, r)
             \/ Connect(e) \/ InspectMarker(e) \/ Adopt(e) \/ Create(e) \/ Mark(e) \/ Resume(e)
             \/ Proceed(e) \/ Dispatch(e) \/ Observe(e) \/ AnswerHeld(e)
             \/ Refuse(e) \/ Release(e) \/ End(e) \/ Kill(e) \/ DropSession(e)
             \/ FailCreate(e) \/ FailMark(e) \/ FailRelease(e)
      PROVE  UNCHANGED Migration!vars
  <2>1. UNCHANGED disk
    BY <1>5 DEF Start, Connect, InspectMarker, Adopt, Create, Mark, Resume, Proceed, Dispatch,
       Observe, AnswerHeld, Refuse, Release, End, Kill, DropSession, FailCreate, FailMark,
       FailRelease, files
  <2> QED
    BY <1>5, <2>1, SentStays, BegunStays, GuardAside DEF Fault
<1>6. CASE UNCHANGED vars
  <2>1. UNCHANGED <<grant, live, fence, control, migrations, disk, passed, session, pc>>
    BY <1>6 DEF vars, database, files, controller, process, history
  <2>2. UNCHANGED Sent
    BY <2>1 DEF Sent, At
  <2> QED
    BY <2>1, <2>2, BegunStays, GuardAside
<1> QED
  BY <1>1, <1>2, <1>3, <1>4, <1>5, <1>6 DEF Next, Continue, Fault

(* Whatever executors, roots, kills, dropped sessions and failing writes there *)
(* are, execute is the one guarded migration its controller was promised: one  *)
(* attempt of each root, under one grant that stands when its COMMIT is sent.  *)
THEOREM UpdateKeepsGuard == Spec => KeepsGuard
<1>1. Init => Migration!Init
  <2> SUFFICES ASSUME Init PROVE Migration!Init
    OBVIOUS
  <2>1. Denied = {} /\ Begun = [r \in Root |-> 0]
    BY DEF Init, Denied, Begun, NoRecord
  <2>2. Sent = FALSE /\ Applied = FALSE
    BY ExecAssumption DEF Init, Sent, Applied, At
  <2> QED
    BY <2>1, <2>2 DEF Init, Migration!Init
<1>2. IInv /\ BindingKept /\ [Next]_vars => [Migration!Next]_Migration!vars
  BY GuardStep
<1> QED
  BY <1>1, <1>2, Inductive, BindingHolds, PTL DEF Spec, KeepsGuard, Migration!Spec
=============================================================================
