------------------------- MODULE EffectGate_proofs -------------------------
(* What TLAPS proves of the mutation gate for every set of requests, grants *)
(* and keys.                                                                *)
EXTENDS EffectGate, FiniteSetTheorems, TLAPS

(* Rewriting a reservation sets its status and keeps its grant. *)
LEMMA RowShapes ==
  ASSUME NEW row \in Reservation
  PROVE  /\ Unsure(row) \in Reservation
         /\ Unsure(row).status = "AMBIGUOUS"
         /\ Unsure(row).grant = row.grant
         /\ AppliedFresh(row) \in Reservation
         /\ AppliedFresh(row).status = "APPLIED"
         /\ AppliedFresh(row).grant = row.grant
         /\ AppliedReconciled(row) \in Reservation
         /\ AppliedReconciled(row).status = "APPLIED"
         /\ AppliedReconciled(row).grant = row.grant
         /\ Recovered(row) \in Reservation
         /\ Recovered(row).status = "NONE" <=> row.status = "NONE"
         /\ Recovered(row).status # "EXECUTING"
         /\ Recovered(row).grant = row.grant
  BY DEF Reservation, Unsure, AppliedFresh, AppliedReconciled, Recovered

(* A fresh reservation is EXECUTING, for the grant it was taken with. *)
LEMMA TakenShape ==
  ASSUME NEW grant \in Grant
  PROVE  /\ Taken(grant) \in Reservation
         /\ Taken(grant).status = "EXECUTING"
         /\ Taken(grant).grant = grant
  BY DEF Taken, Reservation

(* The empty reservation names no grant. *)
LEMMA NoneShape ==
  None \in Reservation /\ None.status = "NONE" /\ None.grant = NoGrant
  BY DEF None, Reservation

(* The shape of the state and of the store is preserved by every step. *)
LEMMA TypeStep == TypeOK /\ [Next]_vars => TypeOK'
<1> SUFFICES ASSUME TypeOK, [Next]_vars PROVE TypeOK'
  OBVIOUS
<1> USE GrantsAssumption, BoundsAssumption
<1>1. ASSUME NEW r \in Req, EnterDenied(r) PROVE TypeOK'
  BY <1>1 DEF EnterDenied, Answer, Idle, store, control, Waiting, Reconciling, Answered,
     TypeOK
<1>2. ASSUME NEW r \in Req, EnterOwner(r) PROVE TypeOK'
  BY <1>2 DEF EnterOwner, Cleared, Moves, Idle, store, control, Waiting, Reconciling,
     Answered, TypeOK, Key_
<1>3. ASSUME NEW r \in Req, EnterReplay(r) PROVE TypeOK'
  BY <1>3 DEF EnterReplay, Answer, Idle, store, control, Waiting, Reconciling, Answered,
     TypeOK, Key_
<1>4. ASSUME NEW r \in Req, SnapshotServed(r) PROVE TypeOK'
  BY <1>4 DEF SnapshotServed, Idle, store, control, Waiting, Reconciling, Answered, TypeOK
<1>5. ASSUME NEW r \in Req, SnapshotDenied(r) PROVE TypeOK'
  BY <1>5 DEF SnapshotDenied, Answer, Idle, store, control, Waiting, Reconciling,
     Answered, TypeOK
<1>6. ASSUME NEW r \in Req, AskReconcile(r) PROVE TypeOK'
  BY <1>6 DEF AskReconcile, Ready, Recovers, Ambiguous, Moves, Idle, store, control,
     Waiting, Reconciling, Answered, TypeOK, Key_
<1>7. ASSUME NEW r \in Req, ReconcileRefused(r) PROVE TypeOK'
  BY <1>7 DEF ReconcileRefused, Ready, Recovers, Answer, Idle, store, control, Waiting,
     Reconciling, Answered, TypeOK, Key_
<1>8. ASSUME NEW r \in Req, AttemptFails(r) PROVE TypeOK'
  BY <1>8 DEF AttemptFails, Ready, Recovers, Ambiguous, Answer, store, control, Waiting,
     Reconciling, Answered, TypeOK, Key_
<1>9. ASSUME NEW r \in Req, ReserveShared(r) PROVE TypeOK'
  BY <1>9 DEF ReserveShared, Ready, Recovers, Ambiguous, Conflict, Moves, Idle, store,
     control, Waiting, Reconciling, Answered, TypeOK, Key_
<1>10. ASSUME NEW r \in Req, ReserveDenied(r) PROVE TypeOK'
  BY <1>10 DEF ReserveDenied, Ready, Answer, Idle, store, control, Waiting, Reconciling,
     Answered, TypeOK, Key_
<1>11. ASSUME NEW r \in Req, Post(r) PROVE TypeOK'
  BY <1>11 DEF Post, Moves, Idle, store, control, Waiting, Reconciling, Answered, TypeOK
<1>12. ASSUME NEW r \in Req, Lands(r) PROVE TypeOK'
  BY <1>12 DEF Lands, Idle, store, control, Waiting, Reconciling, Answered, TypeOK
<1>13. ASSUME NEW r \in Req, MutateAnswers(r) PROVE TypeOK'
  BY <1>13 DEF MutateAnswers, Moves, Idle, store, control, Waiting, Reconciling, Answered,
     TypeOK
<1>14. ASSUME NEW r \in Req, ReconcileUnknown(r) PROVE TypeOK'
  BY <1>14 DEF ReconcileUnknown, Answer, Idle, store, control, Waiting, Reconciling,
     Answered, TypeOK
<1>15. ASSUME NEW r \in Req, ReconcileClaims(r) PROVE TypeOK'
  BY <1>15 DEF ReconcileClaims, Moves, Idle, store, control, Waiting, Reconciling,
     Answered, TypeOK
<1>16. ASSUME NEW r \in Req, AwaitFails(r) PROVE TypeOK'
  BY <1>16 DEF AwaitFails, Answer, Idle, store, control, Waiting, Reconciling, Answered,
     TypeOK
<1>17. ASSUME NEW r \in Req, EffectFailsApplied(r) PROVE TypeOK'
  BY <1>17 DEF EffectFailsApplied, Answer, Idle, store, control, Waiting, Reconciling,
     Answered, TypeOK, Key_
<1>18. ASSUME NEW r \in Req, ReserveFresh(r) PROVE TypeOK'
  <2>1. /\ reservations' \in [Key -> Reservation]
        /\ effects' \in [Key -> Receipt] /\ consumed' \in SUBSET Grant
    BY <1>18, RowShapes, TakenShape DEF ReserveFresh, Reserve, Ready, PersistOk, Written,
       Moves, control, Waiting, Reconciling, Answered, TypeOK, Key_, Receipt
  <2>2. disk' \in Store
    BY <1>18, <2>1, RowShapes DEF ReserveFresh, Reserve, Ready, PersistOk, Written, Moves,
       control, Waiting, Reconciling, Answered, TypeOK, Key_, Store, Receipt
  <2> QED
    BY <1>18, <2>1, <2>2 DEF ReserveFresh, Reserve, Ready, PersistOk, Written, Moves,
       control, Waiting, Reconciling, Answered, TypeOK, Key_
<1>19. ASSUME NEW r \in Req, ReserveFails(r) PROVE TypeOK'
  <2>1. /\ reservations' \in [Key -> Reservation]
        /\ effects' \in [Key -> Receipt] /\ consumed' \in SUBSET Grant
    BY <1>19, RowShapes, TakenShape DEF ReserveFails, Reserve, Ready, PersistThrows,
       Written, Throws, Answer, control, Waiting, Reconciling, Answered, TypeOK, Key_,
       Receipt
  <2>2. disk' \in Store
    BY <1>19, <2>1, RowShapes DEF ReserveFails, Reserve, Ready, PersistThrows, Written,
       Throws, Answer, control, Waiting, Reconciling, Answered, TypeOK, Key_, Store, Receipt
  <2> QED
    BY <1>19, <2>1, <2>2 DEF ReserveFails, Reserve, Ready, PersistThrows, Written, Throws,
       Answer, control, Waiting, Reconciling, Answered, TypeOK, Key_
<1>20. ASSUME NEW r \in Req, Apply(r) PROVE TypeOK'
  <2>1. /\ reservations' \in [Key -> Reservation]
        /\ effects' \in [Key -> Receipt] /\ consumed' \in SUBSET Grant
    BY <1>20, RowShapes, TakenShape DEF Apply, ReadbackConfirms, Records, PersistOk,
       Written, Answer, control, Waiting, Reconciling, Answered, TypeOK, Key_, Receipt
  <2>2. disk' \in Store
    BY <1>20, <2>1, RowShapes DEF Apply, ReadbackConfirms, Records, PersistOk, Written,
       Answer, control, Waiting, Reconciling, Answered, TypeOK, Key_, Store, Receipt
  <2> QED
    BY <1>20, <2>1, <2>2 DEF Apply, ReadbackConfirms, Records, PersistOk, Written, Answer,
       control, Waiting, Reconciling, Answered, TypeOK, Key_
<1>21. ASSUME NEW r \in Req, ApplyFails(r) PROVE TypeOK'
  <2>1. /\ reservations' \in [Key -> Reservation]
        /\ effects' \in [Key -> Receipt] /\ consumed' \in SUBSET Grant
    BY <1>21, RowShapes, TakenShape DEF ApplyFails, ReadbackConfirms, TakesBack, Written,
       Answer, control, Waiting, Reconciling, Answered, TypeOK, Key_, Receipt
  <2>2. disk' \in Store
    BY <1>21, <2>1, RowShapes DEF ApplyFails, ReadbackConfirms, TakesBack, Written,
       Answer, control, Waiting, Reconciling, Answered, TypeOK, Key_, Store, Receipt
  <2> QED
    BY <1>21, <2>1, <2>2 DEF ApplyFails, ReadbackConfirms, TakesBack, Written, Answer,
       control, Waiting, Reconciling, Answered, TypeOK, Key_
<1>22. ASSUME NEW r \in Req, ApplyFailsTwice(r) PROVE TypeOK'
  <2>1. /\ reservations' \in [Key -> Reservation]
        /\ effects' \in [Key -> Receipt] /\ consumed' \in SUBSET Grant
    BY <1>22, RowShapes, TakenShape DEF ApplyFailsTwice, ReadbackConfirms, TakesBack,
       Written, With, Throws, Answer, control, Waiting, Reconciling, Answered, TypeOK, Key_,
       Receipt
  <2>2. disk' \in Store
    BY <1>22, <2>1, RowShapes DEF ApplyFailsTwice, ReadbackConfirms, TakesBack, Written,
       With, Throws, Answer, control, Waiting, Reconciling, Answered, TypeOK, Key_, Store,
       Receipt
  <2> QED
    BY <1>22, <2>1, <2>2 DEF ApplyFailsTwice, ReadbackConfirms, TakesBack, Written, With,
       Throws, Answer, control, Waiting, Reconciling, Answered, TypeOK, Key_
<1>23. ASSUME NEW r \in Req, ApplyReconciled(r) PROVE TypeOK'
  <2>1. /\ reservations' \in [Key -> Reservation]
        /\ effects' \in [Key -> Receipt] /\ consumed' \in SUBSET Grant
    BY <1>23, RowShapes, TakenShape DEF ApplyReconciled, ReconcileConfirms, Records,
       PersistOk, Written, Answer, control, Waiting, Reconciling, Answered, TypeOK, Key_,
       Receipt
  <2>2. disk' \in Store
    BY <1>23, <2>1, RowShapes DEF ApplyReconciled, ReconcileConfirms, Records, PersistOk,
       Written, Answer, control, Waiting, Reconciling, Answered, TypeOK, Key_, Store, Receipt
  <2> QED
    BY <1>23, <2>1, <2>2 DEF ApplyReconciled, ReconcileConfirms, Records, PersistOk,
       Written, Answer, control, Waiting, Reconciling, Answered, TypeOK, Key_
<1>24. ASSUME NEW r \in Req, ApplyReconciledFails(r) PROVE TypeOK'
  <2>1. /\ reservations' \in [Key -> Reservation]
        /\ effects' \in [Key -> Receipt] /\ consumed' \in SUBSET Grant
    BY <1>24, RowShapes, TakenShape DEF ApplyReconciledFails, ReconcileConfirms,
       TakesBack, PersistThrows, With, Throws, Answer, control, Waiting, Reconciling,
       Answered, TypeOK, Key_, Receipt
  <2>2. disk' \in Store
    BY <1>24, <2>1, RowShapes DEF ApplyReconciledFails, ReconcileConfirms, TakesBack,
       PersistThrows, With, Throws, Answer, control, Waiting, Reconciling, Answered, TypeOK,
       Key_, Store, Receipt
  <2> QED
    BY <1>24, <2>1, <2>2 DEF ApplyReconciledFails, ReconcileConfirms, TakesBack,
       PersistThrows, With, Throws, Answer, control, Waiting, Reconciling, Answered, TypeOK,
       Key_
<1>25. ASSUME NEW r \in Req, EffectFails(r) PROVE TypeOK'
  <2>1. /\ reservations' \in [Key -> Reservation]
        /\ effects' \in [Key -> Receipt] /\ consumed' \in SUBSET Grant
    BY <1>25, RowShapes, TakenShape DEF EffectFails, PersistOk, PersistThrows, Written,
       Throws, Answer, control, Waiting, Reconciling, Answered, TypeOK, Key_, Receipt
  <2>2. disk' \in Store
    BY <1>25, <2>1, RowShapes DEF EffectFails, PersistOk, PersistThrows, Written, Throws,
       Answer, control, Waiting, Reconciling, Answered, TypeOK, Key_, Store, Receipt
  <2> QED
    BY <1>25, <2>1, <2>2 DEF EffectFails, PersistOk, PersistThrows, Written, Throws,
       Answer, control, Waiting, Reconciling, Answered, TypeOK, Key_
<1>26. ASSUME NEW k \in Key, Stop(k) PROVE TypeOK'
  BY <1>26 DEF Stop, Idle, store, TypeOK
<1>27. ASSUME NEW k \in Key, Revoke(k) PROVE TypeOK'
  BY <1>27 DEF Revoke, Idle, store, TypeOK
<1>28. ASSUME NEW g \in Grant, Close(g) PROVE TypeOK'
  BY <1>28 DEF Close, Idle, store, TypeOK
<1>29. CASE Crash
  <2>1. /\ reservations' \in [Key -> Reservation]
        /\ effects' \in [Key -> Receipt] /\ consumed' \in SUBSET Grant
    BY <1>29, NoneShape DEF Crash, Receipt
  <2>2. pc' \in [Req -> {"idle", "post"} \cup Waiting \cup Answered]
    BY <1>29 DEF Crash, TypeOK, Answered
  <2>3. crashes' \in 0 .. MaxCrashes
    BY <1>29 DEF Crash, TypeOK
  <2>4. up' = FALSE /\ UNCHANGED <<disk, existed, seen, wire, asked, attempts, faults, forgotten>>
    BY <1>29 DEF Crash
  <2>5. UNCHANGED <<stopped, revoked, closed>>
    BY <1>29 DEF Crash, control
  <2> QED
    BY <2>1, <2>2, <2>3, <2>4, <2>5 DEF TypeOK
<1>30. CASE Restart
  <2>1. /\ reservations' \in [Key -> Reservation]
        /\ effects' \in [Key -> Receipt] /\ consumed' \in SUBSET Grant
    BY <1>30, RowShapes DEF Restart, TypeOK, Store
  <2> QED
    BY <1>30, <2>1 DEF Restart, PersistOk, Written, TypeOK, Store, control
<1>31. CASE UNCHANGED vars
  BY <1>31 DEF vars, store, control, TypeOK
<1>32. ASSUME NEW k \in Key, Evict(k) PROVE TypeOK'
  BY <1>32 DEF Evict, Idle, store, control, TypeOK
<1> QED
  BY <1>1, <1>2, <1>3, <1>4, <1>5, <1>6, <1>7, <1>8, <1>9, <1>10, <1>11, <1>12, <1>13,
     <1>14, <1>15, <1>16, <1>17, <1>18, <1>19, <1>20, <1>21, <1>22, <1>23, <1>24, <1>25,
     <1>26, <1>27, <1>28, <1>29, <1>30, <1>31, <1>32 DEF Next, Execute

(* The rest of the invariant in two parts: what relates memory and disk, and *)
(* what relates the requests to the records they hold.                      *)
StoreOK ==
    /\ Rows(reservations) /\ Rows(disk.reservations)
    /\ Leased(reservations, consumed) /\ Leased(disk.reservations, disk.consumed)
    /\ Follows
    /\ NoUndurableReceipt

CallsOK == Custody /\ OneHolder /\ Phases /\ ReceiptMeansEffect

(* IInv is those two parts and the type invariant. *)
LEMMA Parts == IInv <=> TypeOK /\ StoreOK /\ CallsOK
  BY DEF IInv, StoreOK, CallsOK

(* A step that touches neither memory nor disk keeps the first part. *)
LEMMA QuietStore ==
  ASSUME StoreOK, UNCHANGED <<up, store, disk>>
  PROVE  StoreOK'
  BY DEF StoreOK, store, Rows, Leased, Follows, NoUndurableReceipt

(* A request that drives an effect or reconciles one finds the record of its *)
(* key in memory as it is on disk.                                          *)
LEMMA HeldRow ==
  ASSUME IInv, NEW r \in Req, pc[r] \in {"mutate", "readback"} \cup Reconciling
  PROVE  /\ up
         /\ Key_(r) \in Key
         /\ reservations[Key_(r)] \in Reservation
         /\ reservations[Key_(r)].status # "NONE"
         /\ disk.reservations[Key_(r)].status # "NONE"
         /\ reservations[Key_(r)].grant = disk.reservations[Key_(r)].grant
<1>1. up /\ Key_(r) \in Key
  BY GrantsAssumption DEF IInv, Phases, Waiting, Reconciling, Key_
<1>2. disk.reservations[Key_(r)].status # "NONE"
  <2>1. CASE pc[r] \in {"mutate", "readback"}
    BY <1>1, <2>1, GrantsAssumption DEF IInv, Custody, Holds, Driving, Rows, Key_
  <2>2. CASE pc[r] \in Reconciling
    BY <2>2 DEF IInv, Custody
  <2> QED
    BY <2>1, <2>2
<1>3. reservations[Key_(r)].grant = disk.reservations[Key_(r)].grant
  BY <1>1, <1>2 DEF IInv, Follows
<1> QED
  BY <1>1, <1>2, <1>3 DEF IInv, TypeOK, Rows

(* What is on disk for a key stays on disk, with the same owner. *)
Durable ==
    \A k \in Key : disk.reservations[k].status # "NONE" =>
        /\ disk'.reservations[k].status # "NONE"
        /\ disk'.reservations[k].grant = disk.reservations[k].grant

(* Rewriting a record that is on disk without changing whose it is, in memory *)
(* and perhaps on disk, keeps memory and disk in agreement.                   *)
LEMMA Rewrite ==
  ASSUME TypeOK, StoreOK, up, up', NEW k \in Key,
         reservations[k].status # "NONE", disk.reservations[k].status # "NONE",
         NEW row \in Reservation, NEW written \in Reservation,
         row.grant = reservations[k].grant, row.status # "NONE",
         written.grant = reservations[k].grant, written.status # "NONE",
         reservations' = [reservations EXCEPT ![k] = row], consumed' = consumed,
         \/ disk' = disk
         \/ /\ disk'.reservations = [reservations EXCEPT ![k] = written]
            /\ disk'.consumed = consumed
  PROVE  /\ Rows(reservations)' /\ Rows(disk.reservations)'
         /\ Leased(reservations, consumed)' /\ Leased(disk.reservations, disk.consumed)'
         /\ Follows'
         /\ Durable
<1>1. /\ \A q \in Key : reservations'[q] = IF q = k THEN row ELSE reservations[q]
      /\ \A q \in Key : disk.reservations[q].status # "NONE" =>
                          reservations[q].grant = disk.reservations[q].grant
      /\ reservations[k].grant # NoGrant
  BY DEF TypeOK, StoreOK, Follows, Rows
<1>2. CASE disk' = disk
  BY <1>1, <1>2 DEF TypeOK, StoreOK, Rows, Leased, Follows, Durable
<1>3. CASE /\ disk'.reservations = [reservations EXCEPT ![k] = written]
           /\ disk'.consumed = consumed
  <2>1. \A q \in Key : disk'.reservations[q] = IF q = k THEN written ELSE reservations[q]
    BY <1>3 DEF TypeOK
  <2>2. Rows(reservations)' /\ Rows(disk.reservations)'
    BY <1>1, <2>1 DEF StoreOK, Rows
  <2>3. Leased(reservations, consumed)' /\ Leased(disk.reservations, disk.consumed)'
    BY <1>1, <1>3, <2>1 DEF StoreOK, Leased
  <2>4. Follows'
    BY <1>1, <2>1 DEF Follows
  <2>5. Durable
    BY <1>1, <2>1 DEF StoreOK, Rows, Durable
  <2> QED
    BY <2>2, <2>3, <2>4, <2>5
<1> QED
  BY <1>2, <1>3

(* A request that ends leaves the others their records, when those are kept. *)
LEMMA CallEnds ==
  ASSUME TypeOK, StoreOK, CallsOK, up', Durable, NEW r \in Req, NEW result \in Answered,
         pc' = [pc EXCEPT ![r] = result], UNCHANGED <<existed, wire>>,
         \A k \in Key : reservations[k].status # "NONE" => reservations'[k].status # "NONE"
  PROVE  (Custody /\ OneHolder /\ Phases)'
<1> USE GrantsAssumption
<1>1. pc' \in [Req -> {"idle", "post"} \cup Waiting \cup Answered]
  BY DEF TypeOK
<1>2. \A q \in Req : /\ pc'[q] \in Waiting \cup {"post", "idle"} => pc'[q] = pc[q]
                     /\ Holds(q)' => Holds(q)
  BY DEF TypeOK, Holds, Posted, Driving, Waiting, Reconciling, Answered
<1>3. Custody'
  <2>1. ASSUME NEW q \in Req, Holds(q)'
        PROVE  disk'.reservations[Key_(q)].grant = GrantOf[q] /\ ~existed'[q]
    BY <1>2, <2>1 DEF StoreOK, CallsOK, Custody, Rows, Durable, Key_
  <2>2. ASSUME NEW q \in Req, pc'[q] \in Reconciling
        PROVE  disk'.reservations[Key_(q)].status # "NONE"
    BY <1>2, <2>2 DEF CallsOK, Custody, Durable, Key_, Waiting
  <2>3. ASSUME NEW q \in Req, pc'[q] = "snapshot", existed'[q]
        PROVE  reservations'[Key_(q)].status # "NONE"
    BY <1>2, <2>3 DEF CallsOK, Custody, Key_, Waiting
  <2> QED
    BY <2>1, <2>2, <2>3 DEF Custody, Key_
<1>4. OneHolder'
  BY <1>2 DEF CallsOK, OneHolder, Key_, Kind
<1>5. Phases'
  BY <1>2 DEF CallsOK, Phases, Waiting
<1> QED
  BY <1>3, <1>4, <1>5

(* A first start with an empty store satisfies the invariant. *)
LEMMA InitIInv == Init => IInv
<1> SUFFICES ASSUME Init PROVE IInv
  OBVIOUS
<1> USE GrantsAssumption, BoundsAssumption
<1>1. TypeOK
  BY NoneShape DEF Init, TypeOK, Store, Receipt
<1>2. StoreOK
  BY NoneShape DEF Init, StoreOK, Rows, Leased, Follows, NoUndurableReceipt
<1>3. CallsOK
  BY NoneShape DEF Init, CallsOK, Custody, OneHolder, Phases, ReceiptMeansEffect, Holds,
     Posted, Driving, Reconciling, Waiting, Key_
<1> QED
  BY <1>1, <1>2, <1>3, Parts

(* One step, action by action. *)
LEMMA InvStep == IInv /\ [Next]_vars => IInv'
<1> SUFFICES ASSUME IInv, [Next]_vars PROVE StoreOK' /\ CallsOK'
  BY TypeStep, Parts DEF IInv, StoreOK, CallsOK
<1> USE GrantsAssumption
<1>0. TypeOK /\ TypeOK' /\ StoreOK /\ CallsOK
  BY TypeStep, Parts
<1>1. ASSUME NEW r \in Req, EnterDenied(r) PROVE StoreOK' /\ CallsOK'
  BY <1>0, <1>1, QuietStore DEF EnterDenied, Answer, Idle, store, control, Waiting,
     Reconciling, Answered, TypeOK, StoreOK, CallsOK, Rows, Follows, Custody, OneHolder,
     Phases, ReceiptMeansEffect, KeyLanded, Holds, Posted, Driving, Kind, Key_
<1>2. ASSUME NEW r \in Req, EnterOwner(r) PROVE StoreOK' /\ CallsOK'
  BY <1>0, <1>2, QuietStore DEF EnterOwner, Cleared, Moves, Idle, store, control, Waiting,
     Reconciling, Answered, TypeOK, StoreOK, CallsOK, Rows, Follows, Custody, OneHolder,
     Phases, ReceiptMeansEffect, KeyLanded, Holds, Posted, Driving, Kind, Key_
<1>3. ASSUME NEW r \in Req, EnterReplay(r) PROVE StoreOK' /\ CallsOK'
  BY <1>0, <1>3, QuietStore DEF EnterReplay, Answer, Idle, store, control, Waiting,
     Reconciling, Answered, TypeOK, StoreOK, CallsOK, Rows, Follows, Custody, OneHolder,
     Phases, ReceiptMeansEffect, KeyLanded, Holds, Posted, Driving, Kind, Key_
<1>4. ASSUME NEW r \in Req, SnapshotServed(r) PROVE StoreOK' /\ CallsOK'
  BY <1>0, <1>4, QuietStore DEF SnapshotServed, Idle, store, control, Waiting,
     Reconciling, Answered, TypeOK, StoreOK, CallsOK, Rows, Follows, Custody, OneHolder,
     Phases, ReceiptMeansEffect, KeyLanded, Holds, Posted, Driving, Kind, Key_
<1>5. ASSUME NEW r \in Req, SnapshotDenied(r) PROVE StoreOK' /\ CallsOK'
  BY <1>0, <1>5, QuietStore DEF SnapshotDenied, Answer, Idle, store, control, Waiting,
     Reconciling, Answered, TypeOK, StoreOK, CallsOK, Rows, Follows, Custody, OneHolder,
     Phases, ReceiptMeansEffect, KeyLanded, Holds, Posted, Driving, Kind, Key_
<1>6. ASSUME NEW r \in Req, AskReconcile(r) PROVE StoreOK' /\ CallsOK'
  BY <1>0, <1>6, QuietStore DEF AskReconcile, Ready, Recovers, Ambiguous, Moves, Idle,
     store, control, Waiting, Reconciling, Answered, TypeOK, StoreOK, CallsOK, Rows, Follows,
     Custody, OneHolder, Phases, ReceiptMeansEffect, KeyLanded, Holds, Posted, Driving, Kind,
     Key_
<1>7. ASSUME NEW r \in Req, ReconcileRefused(r) PROVE StoreOK' /\ CallsOK'
  BY <1>0, <1>7, QuietStore DEF ReconcileRefused, Ready, Recovers, Answer, Idle, store,
     control, Waiting, Reconciling, Answered, TypeOK, StoreOK, CallsOK, Rows, Follows,
     Custody, OneHolder, Phases, ReceiptMeansEffect, KeyLanded, Holds, Posted, Driving, Kind,
     Key_
<1>8. ASSUME NEW r \in Req, AttemptFails(r) PROVE StoreOK' /\ CallsOK'
  BY <1>0, <1>8, QuietStore DEF AttemptFails, Ready, Recovers, Ambiguous, Answer, store,
     control, Waiting, Reconciling, Answered, TypeOK, StoreOK, CallsOK, Rows, Follows,
     Custody, OneHolder, Phases, ReceiptMeansEffect, KeyLanded, Holds, Posted, Driving, Kind,
     Key_
<1>9. ASSUME NEW r \in Req, ReserveShared(r) PROVE StoreOK' /\ CallsOK'
  BY <1>0, <1>9, QuietStore DEF ReserveShared, Ready, Recovers, Ambiguous, Conflict,
     Moves, Idle, store, control, Waiting, Reconciling, Answered, TypeOK, StoreOK, CallsOK,
     Rows, Follows, Custody, OneHolder, Phases, ReceiptMeansEffect, KeyLanded, Holds, Posted,
     Driving, Kind, Key_
<1>10. ASSUME NEW r \in Req, ReserveDenied(r) PROVE StoreOK' /\ CallsOK'
  BY <1>0, <1>10, QuietStore DEF ReserveDenied, Ready, Answer, Idle, store, control,
     Waiting, Reconciling, Answered, TypeOK, StoreOK, CallsOK, Rows, Follows, Custody,
     OneHolder, Phases, ReceiptMeansEffect, KeyLanded, Holds, Posted, Driving, Kind, Key_
<1>11. ASSUME NEW r \in Req, Post(r) PROVE StoreOK' /\ CallsOK'
  BY <1>0, <1>11, QuietStore DEF Post, Moves, Idle, store, control, Waiting, Reconciling,
     Answered, TypeOK, StoreOK, CallsOK, Rows, Follows, Custody, OneHolder, Phases,
     ReceiptMeansEffect, KeyLanded, Holds, Posted, Driving, Kind, Key_
<1>12. ASSUME NEW r \in Req, Lands(r) PROVE StoreOK' /\ CallsOK'
  BY <1>0, <1>12, QuietStore DEF Lands, Idle, store, control, Waiting, Reconciling,
     Answered, TypeOK, StoreOK, CallsOK, Rows, Follows, Custody, OneHolder, Phases,
     ReceiptMeansEffect, KeyLanded, Holds, Posted, Driving, Kind, Key_
<1>13. ASSUME NEW r \in Req, MutateAnswers(r) PROVE StoreOK' /\ CallsOK'
  BY <1>0, <1>13, QuietStore DEF MutateAnswers, Moves, Idle, store, control, Waiting,
     Reconciling, Answered, TypeOK, StoreOK, CallsOK, Rows, Follows, Custody, OneHolder,
     Phases, ReceiptMeansEffect, KeyLanded, Holds, Posted, Driving, Kind, Key_
<1>14. ASSUME NEW r \in Req, ReconcileUnknown(r) PROVE StoreOK' /\ CallsOK'
  BY <1>0, <1>14, QuietStore DEF ReconcileUnknown, Answer, Idle, store, control, Waiting,
     Reconciling, Answered, TypeOK, StoreOK, CallsOK, Rows, Follows, Custody, OneHolder,
     Phases, ReceiptMeansEffect, KeyLanded, Holds, Posted, Driving, Kind, Key_
<1>15. ASSUME NEW r \in Req, ReconcileClaims(r) PROVE StoreOK' /\ CallsOK'
  BY <1>0, <1>15, QuietStore DEF ReconcileClaims, Moves, Idle, store, control, Waiting,
     Reconciling, Answered, TypeOK, StoreOK, CallsOK, Rows, Follows, Custody, OneHolder,
     Phases, ReceiptMeansEffect, KeyLanded, Holds, Posted, Driving, Kind, Key_
<1>16. ASSUME NEW r \in Req, AwaitFails(r) PROVE StoreOK' /\ CallsOK'
  BY <1>0, <1>16, QuietStore DEF AwaitFails, Answer, Idle, store, control, Waiting,
     Reconciling, Answered, TypeOK, StoreOK, CallsOK, Rows, Follows, Custody, OneHolder,
     Phases, ReceiptMeansEffect, KeyLanded, Holds, Posted, Driving, Kind, Key_
<1>17. ASSUME NEW r \in Req, EffectFailsApplied(r) PROVE StoreOK' /\ CallsOK'
  BY <1>0, <1>17, QuietStore DEF EffectFailsApplied, Answer, Idle, store, control,
     Waiting, Reconciling, Answered, TypeOK, StoreOK, CallsOK, Rows, Follows, Custody,
     OneHolder, Phases, ReceiptMeansEffect, KeyLanded, Holds, Posted, Driving, Kind, Key_
<1>18. ASSUME NEW r \in Req, ReserveFresh(r) PROVE StoreOK' /\ CallsOK'
  <2> DEFINE k == Key_(r)
  <2>1. /\ up /\ k \in Key /\ GrantOf[r] \in Grant
        /\ pc[r] \in {"idle", "snapshot"} /\ reservations[k].status = "NONE"
    BY <1>18 DEF ReserveFresh, Reserve, Ready, Key_
  <2>2. ~existed[r] /\ wire[r] = "none"
    BY <1>0, <2>1 DEF TypeOK, CallsOK, Custody, Phases, Key_
  <2>3. disk.reservations[k].status = "NONE" /\ disk.reservations[k].grant = NoGrant
    BY <1>0, <2>1 DEF StoreOK, Rows, Follows
  <2>4. \A q \in Req : Key_(q) = k => ~Holds(q) /\ pc[q] \notin Reconciling
    BY <1>0, <2>3 DEF CallsOK, Custody, Key_
  <2>5. StoreOK'
    BY <1>0, <1>18, TakenShape DEF ReserveFresh, Reserve, Ready, PersistOk, Written,
       Moves, control, Waiting, Reconciling, Answered, TypeOK, StoreOK, CallsOK, Rows,
       Leased, Follows, NoUndurableReceipt, Key_, Store, Kind
  <2>6. Durable
    BY <1>0, <1>18, <2>1, <2>3 DEF ReserveFresh, Reserve, PersistOk, Written, TypeOK,
       StoreOK, Rows, Follows, Durable
  <2>7. (Custody /\ OneHolder /\ Phases)'
    <3>1. /\ up' /\ UNCHANGED <<existed, wire>>
          /\ pc' = [pc EXCEPT ![r] = "post"]
          /\ reservations'[k] = Taken(GrantOf[r]) /\ disk'.reservations = reservations'
          /\ \A j \in Key : j # k => reservations'[j] = reservations[j]
      BY <1>0, <1>18, <2>1 DEF ReserveFresh, Reserve, PersistOk, Written, Moves, TypeOK
    <3>2. /\ Holds(r)' /\ pc'[r] = "post"
          /\ \A q \in Req \ {r} : pc'[q] = pc[q] /\ (Holds(q)' <=> Holds(q))
      BY <1>0, <3>1 DEF TypeOK, Holds, Posted, Driving
    <3>3. disk'.reservations[k].grant = GrantOf[r] /\ reservations'[k].status # "NONE"
      BY <2>1, <3>1, TakenShape
    <3>4. Custody'
      <4>1. ASSUME NEW q \in Req, Holds(q)'
            PROVE  disk'.reservations[Key_(q)].grant = GrantOf[q] /\ ~existed'[q]
        BY <1>0, <2>2, <2>6, <3>1, <3>2, <3>3, <4>1 DEF StoreOK, CallsOK, Custody, Rows,
           Durable, Key_
      <4>2. ASSUME NEW q \in Req, pc'[q] \in Reconciling
            PROVE  disk'.reservations[Key_(q)].status # "NONE"
        BY <1>0, <2>6, <3>2, <4>2 DEF CallsOK, Custody, Durable, Key_, Reconciling
      <4>3. ASSUME NEW q \in Req, pc'[q] = "snapshot", existed'[q]
            PROVE  reservations'[Key_(q)].status # "NONE"
        BY <1>0, <3>1, <3>2, <3>3, <4>3 DEF CallsOK, Custody, Key_
      <4> QED
        BY <4>1, <4>2, <4>3 DEF Custody, Key_
    <3>5. OneHolder'
      BY <1>0, <2>4, <3>2 DEF CallsOK, OneHolder, Key_, Kind
    <3>6. Phases'
      BY <1>0, <2>2, <3>1, <3>2 DEF CallsOK, Phases
    <3> QED
      BY <3>4, <3>5, <3>6
  <2>8. ReceiptMeansEffect'
    BY <1>0, <1>18 DEF ReserveFresh, Reserve, PersistOk, Written, CallsOK,
       ReceiptMeansEffect, KeyLanded
  <2> QED
    BY <2>5, <2>7, <2>8 DEF CallsOK
<1>19. ASSUME NEW r \in Req, ReserveFails(r) PROVE StoreOK' /\ CallsOK'
  <2> DEFINE k == Key_(r)
  <2>1. /\ up /\ k \in Key /\ GrantOf[r] \in Grant
        /\ pc[r] \in {"idle", "snapshot"} /\ reservations[k].status = "NONE"
    BY <1>19 DEF ReserveFails, Reserve, Ready, Key_
  <2>2. ~existed[r] /\ wire[r] = "none"
    BY <1>0, <2>1 DEF TypeOK, CallsOK, Custody, Phases, Key_
  <2>3. disk.reservations[k].status = "NONE" /\ disk.reservations[k].grant = NoGrant
    BY <1>0, <2>1 DEF StoreOK, Rows, Follows
  <2>4. \A q \in Req : Key_(q) = k => ~Holds(q) /\ pc[q] \notin Reconciling
    BY <1>0, <2>3 DEF CallsOK, Custody, Key_
  <2>5. StoreOK'
    BY <1>0, <1>19, TakenShape DEF ReserveFails, Reserve, Ready, PersistThrows, Written,
       Throws, Answer, control, Waiting, Reconciling, Answered, TypeOK, StoreOK, CallsOK,
       Rows, Leased, Follows, NoUndurableReceipt, Key_, Store, Kind
  <2>6. Durable
    BY <1>0, <1>19, <2>1, <2>3 DEF ReserveFails, Reserve, PersistThrows, Throws, Written,
       TypeOK, StoreOK, Rows, Follows, Durable
  <2>7. (Custody /\ OneHolder /\ Phases)'
    BY <1>0, <1>19, <2>1, <2>2, <2>3, <2>4, <2>6, TakenShape DEF ReserveFails, Reserve,
       Ready, PersistThrows, Written, Throws, Answer, control, Waiting, Reconciling,
       Answered, TypeOK, StoreOK, CallsOK, Rows, Follows, Custody, OneHolder, Phases,
       ReceiptMeansEffect, KeyLanded, Holds, Posted, Driving, Kind, Key_, Store,
       NoUndurableReceipt, Durable
  <2>8. ReceiptMeansEffect'
    BY <1>0, <1>19 DEF ReserveFails, Reserve, PersistThrows, Written, CallsOK,
       ReceiptMeansEffect, KeyLanded
  <2> QED
    BY <2>5, <2>7, <2>8 DEF CallsOK
<1>20. ASSUME NEW r \in Req, Apply(r) PROVE StoreOK' /\ CallsOK'
  <2> DEFINE k == Key_(r)
  <2>1. /\ up /\ k \in Key /\ reservations[k] \in Reservation
        /\ reservations[k].status # "NONE" /\ disk.reservations[k].status # "NONE"
    BY <1>20, HeldRow DEF Apply, ReadbackConfirms, Reconciling
  <2>2. /\ Rows(reservations)' /\ Rows(disk.reservations)'
        /\ Leased(reservations, consumed)' /\ Leased(disk.reservations, disk.consumed)'
        /\ Follows' /\ Durable
    <3> DEFINE row == AppliedFresh(reservations[k])
               written == AppliedFresh(reservations[k])
    <3>1. /\ row \in Reservation /\ row.grant = reservations[k].grant /\ row.status # "NONE"
          /\ written \in Reservation /\ written.grant = reservations[k].grant
          /\ written.status # "NONE"
      BY <2>1, RowShapes
    <3>2. /\ up' /\ reservations' = [reservations EXCEPT ![k] = row] /\ consumed' = consumed
      BY <1>20, <2>1 DEF Apply, Records
    <3>3. \/ disk' = disk
          \/ /\ disk'.reservations = [reservations EXCEPT ![k] = written]
             /\ disk'.consumed = consumed
      BY <1>20 DEF Apply, Records, PersistOk, Written
    <3> QED
      BY <1>0, <2>1, <3>1, <3>2, <3>3, Rewrite
  <2>3. NoUndurableReceipt'
    BY <1>0, <1>20, <2>1 DEF Apply, Records, PersistOk, Written, TypeOK, StoreOK,
       NoUndurableReceipt
  <2>4. (Custody /\ OneHolder /\ Phases)'
    <3>1. /\ up' /\ UNCHANGED <<existed, wire>>
          /\ pc' = [pc EXCEPT ![r] = "PASS"]
      BY <1>20, <2>1 DEF Apply, Records, Answer
    <3>2. \A j \in Key : reservations[j].status # "NONE" => reservations'[j].status # "NONE"
      BY <1>0, <1>20, <2>1, RowShapes DEF Apply, Records, TypeOK
    <3> QED
      BY <1>0, <2>1, <2>2, <3>1, <3>2, CallEnds DEF Answered
  <2>5. ReceiptMeansEffect'
    BY <1>0, <1>20, <2>1 DEF Apply, ReadbackConfirms, Records, PersistOk, Written, Answer,
       control, Waiting, Reconciling, Answered, TypeOK, CallsOK, ReceiptMeansEffect,
       KeyLanded
  <2> QED
    BY <2>2, <2>3, <2>4, <2>5 DEF StoreOK, CallsOK
<1>21. ASSUME NEW r \in Req, ApplyFails(r) PROVE StoreOK' /\ CallsOK'
  <2> DEFINE k == Key_(r)
  <2>1. /\ up /\ k \in Key /\ reservations[k] \in Reservation
        /\ reservations[k].status # "NONE" /\ disk.reservations[k].status # "NONE"
    BY <1>21, HeldRow DEF ApplyFails, ReadbackConfirms, Reconciling
  <2>2. /\ Rows(reservations)' /\ Rows(disk.reservations)'
        /\ Leased(reservations, consumed)' /\ Leased(disk.reservations, disk.consumed)'
        /\ Follows' /\ Durable
    <3> DEFINE row == Unsure(reservations[k])
               written == Unsure(reservations[k])
    <3>1. /\ row \in Reservation /\ row.grant = reservations[k].grant /\ row.status # "NONE"
          /\ written \in Reservation /\ written.grant = reservations[k].grant
          /\ written.status # "NONE"
      BY <2>1, RowShapes
    <3>2. /\ up' /\ reservations' = [reservations EXCEPT ![k] = row] /\ consumed' = consumed
      BY <1>21, <2>1 DEF ApplyFails, TakesBack
    <3>3. \/ disk' = disk
          \/ /\ disk'.reservations = [reservations EXCEPT ![k] = written]
             /\ disk'.consumed = consumed
      BY <1>21 DEF ApplyFails, TakesBack, Written
    <3> QED
      BY <1>0, <2>1, <3>1, <3>2, <3>3, Rewrite
  <2>3. NoUndurableReceipt'
    BY <1>0, <1>21, <2>1 DEF ApplyFails, TakesBack, Written, TypeOK, StoreOK,
       NoUndurableReceipt
  <2>4. (Custody /\ OneHolder /\ Phases)'
    <3>1. /\ up' /\ UNCHANGED <<existed, wire>>
          /\ pc' = [pc EXCEPT ![r] = "FAILED"]
      BY <1>21, <2>1 DEF ApplyFails, Answer
    <3>2. \A j \in Key : reservations[j].status # "NONE" => reservations'[j].status # "NONE"
      BY <1>0, <1>21, <2>1, RowShapes DEF ApplyFails, TakesBack, TypeOK
    <3> QED
      BY <1>0, <2>1, <2>2, <3>1, <3>2, CallEnds DEF Answered
  <2>5. ReceiptMeansEffect'
    BY <1>0, <1>21, <2>1 DEF ApplyFails, ReadbackConfirms, TakesBack, Written, Answer,
       control, Waiting, Reconciling, Answered, TypeOK, CallsOK, ReceiptMeansEffect,
       KeyLanded
  <2> QED
    BY <2>2, <2>3, <2>4, <2>5 DEF StoreOK, CallsOK
<1>22. ASSUME NEW r \in Req, ApplyFailsTwice(r) PROVE StoreOK' /\ CallsOK'
  <2> DEFINE k == Key_(r)
  <2>1. /\ up /\ k \in Key /\ reservations[k] \in Reservation
        /\ reservations[k].status # "NONE" /\ disk.reservations[k].status # "NONE"
    BY <1>22, HeldRow DEF ApplyFailsTwice, ReadbackConfirms, Reconciling
  <2>2. /\ Rows(reservations)' /\ Rows(disk.reservations)'
        /\ Leased(reservations, consumed)' /\ Leased(disk.reservations, disk.consumed)'
        /\ Follows' /\ Durable
    <3> DEFINE row == Unsure(reservations[k])
               written == IF disk' = Written THEN Unsure(reservations[k])
                          ELSE AppliedFresh(reservations[k])
    <3>1. /\ row \in Reservation /\ row.grant = reservations[k].grant /\ row.status # "NONE"
          /\ written \in Reservation /\ written.grant = reservations[k].grant
          /\ written.status # "NONE"
      BY <2>1, RowShapes
    <3>2. /\ up' /\ reservations' = [reservations EXCEPT ![k] = row] /\ consumed' = consumed
      BY <1>22, <2>1 DEF ApplyFailsTwice, TakesBack
    <3>3. \/ disk' = disk
          \/ /\ disk'.reservations = [reservations EXCEPT ![k] = written]
             /\ disk'.consumed = consumed
      <4>1. disk' \in {disk, Written, With(k, "fresh", AppliedFresh(reservations[k]))}
        BY <1>22 DEF ApplyFailsTwice
      <4>2. CASE disk' = Written
        BY <3>2, <4>2 DEF Written
      <4>3. CASE disk' # Written /\ disk' = With(k, "fresh", AppliedFresh(reservations[k]))
        BY <4>3 DEF With
      <4> QED
        BY <4>1, <4>2, <4>3
    <3> QED
      BY <1>0, <2>1, <3>1, <3>2, <3>3, Rewrite
  <2>3. NoUndurableReceipt'
    BY <1>0, <1>22, <2>1 DEF ApplyFailsTwice, TakesBack, Written, With, TypeOK, StoreOK,
       NoUndurableReceipt
  <2>4. (Custody /\ OneHolder /\ Phases)'
    <3>1. /\ up' /\ UNCHANGED <<existed, wire>>
          /\ pc' = [pc EXCEPT ![r] = "FAILED"]
      BY <1>22, <2>1 DEF ApplyFailsTwice, Answer
    <3>2. \A j \in Key : reservations[j].status # "NONE" => reservations'[j].status # "NONE"
      BY <1>0, <1>22, <2>1, RowShapes DEF ApplyFailsTwice, TakesBack, TypeOK
    <3> QED
      BY <1>0, <2>1, <2>2, <3>1, <3>2, CallEnds DEF Answered
  <2>5. ReceiptMeansEffect'
    BY <1>0, <1>22, <2>1 DEF ApplyFailsTwice, ReadbackConfirms, TakesBack, Written, With,
       Throws, Answer, control, Waiting, Reconciling, Answered, TypeOK, CallsOK,
       ReceiptMeansEffect, KeyLanded
  <2> QED
    BY <2>2, <2>3, <2>4, <2>5 DEF StoreOK, CallsOK
<1>23. ASSUME NEW r \in Req, ApplyReconciled(r) PROVE StoreOK' /\ CallsOK'
  <2> DEFINE k == Key_(r)
  <2>1. /\ up /\ k \in Key /\ reservations[k] \in Reservation
        /\ reservations[k].status # "NONE" /\ disk.reservations[k].status # "NONE"
    BY <1>23, HeldRow DEF ApplyReconciled, ReconcileConfirms, Reconciling
  <2>2. /\ Rows(reservations)' /\ Rows(disk.reservations)'
        /\ Leased(reservations, consumed)' /\ Leased(disk.reservations, disk.consumed)'
        /\ Follows' /\ Durable
    <3> DEFINE row == AppliedReconciled(reservations[k])
               written == AppliedReconciled(reservations[k])
    <3>1. /\ row \in Reservation /\ row.grant = reservations[k].grant /\ row.status # "NONE"
          /\ written \in Reservation /\ written.grant = reservations[k].grant
          /\ written.status # "NONE"
      BY <2>1, RowShapes
    <3>2. /\ up' /\ reservations' = [reservations EXCEPT ![k] = row] /\ consumed' = consumed
      BY <1>23, <2>1 DEF ApplyReconciled, Records
    <3>3. \/ disk' = disk
          \/ /\ disk'.reservations = [reservations EXCEPT ![k] = written]
             /\ disk'.consumed = consumed
      BY <1>23 DEF ApplyReconciled, Records, PersistOk, Written
    <3> QED
      BY <1>0, <2>1, <3>1, <3>2, <3>3, Rewrite
  <2>3. NoUndurableReceipt'
    BY <1>0, <1>23, <2>1 DEF ApplyReconciled, Records, PersistOk, Written, TypeOK,
       StoreOK, NoUndurableReceipt
  <2>4. (Custody /\ OneHolder /\ Phases)'
    <3>1. /\ up' /\ UNCHANGED <<existed, wire>>
          /\ pc' = [pc EXCEPT ![r] = "PASS"]
      BY <1>23, <2>1 DEF ApplyReconciled, Records, Answer
    <3>2. \A j \in Key : reservations[j].status # "NONE" => reservations'[j].status # "NONE"
      BY <1>0, <1>23, <2>1, RowShapes DEF ApplyReconciled, Records, TypeOK
    <3> QED
      BY <1>0, <2>1, <2>2, <3>1, <3>2, CallEnds DEF Answered
  <2>5. ReceiptMeansEffect'
    BY <1>0, <1>23, <2>1 DEF ApplyReconciled, ReconcileConfirms, Records, PersistOk,
       Written, Answer, control, Waiting, Reconciling, Answered, TypeOK, CallsOK,
       ReceiptMeansEffect, KeyLanded
  <2> QED
    BY <2>2, <2>3, <2>4, <2>5 DEF StoreOK, CallsOK
<1>24. ASSUME NEW r \in Req, ApplyReconciledFails(r) PROVE StoreOK' /\ CallsOK'
  <2> DEFINE k == Key_(r)
  <2>1. /\ up /\ k \in Key /\ reservations[k] \in Reservation
        /\ reservations[k].status # "NONE" /\ disk.reservations[k].status # "NONE"
    BY <1>24, HeldRow DEF ApplyReconciledFails, ReconcileConfirms, Reconciling
  <2>2. /\ Rows(reservations)' /\ Rows(disk.reservations)'
        /\ Leased(reservations, consumed)' /\ Leased(disk.reservations, disk.consumed)'
        /\ Follows' /\ Durable
    <3> DEFINE row == Unsure(reservations[k])
               written == AppliedReconciled(reservations[k])
    <3>1. /\ row \in Reservation /\ row.grant = reservations[k].grant /\ row.status # "NONE"
          /\ written \in Reservation /\ written.grant = reservations[k].grant
          /\ written.status # "NONE"
      BY <2>1, RowShapes
    <3>2. /\ up' /\ reservations' = [reservations EXCEPT ![k] = row] /\ consumed' = consumed
      BY <1>24, <2>1 DEF ApplyReconciledFails, TakesBack
    <3>3. \/ disk' = disk
          \/ /\ disk'.reservations = [reservations EXCEPT ![k] = written]
             /\ disk'.consumed = consumed
      BY <1>24 DEF ApplyReconciledFails, TakesBack, PersistThrows, With
    <3> QED
      BY <1>0, <2>1, <3>1, <3>2, <3>3, Rewrite
  <2>3. NoUndurableReceipt'
    BY <1>0, <1>24, <2>1 DEF ApplyReconciledFails, TakesBack, PersistThrows, With, TypeOK,
       StoreOK, NoUndurableReceipt
  <2>4. (Custody /\ OneHolder /\ Phases)'
    <3>1. /\ up' /\ UNCHANGED <<existed, wire>>
          /\ pc' = [pc EXCEPT ![r] = "FAILED"]
      BY <1>24, <2>1 DEF ApplyReconciledFails, Answer
    <3>2. \A j \in Key : reservations[j].status # "NONE" => reservations'[j].status # "NONE"
      BY <1>0, <1>24, <2>1, RowShapes DEF ApplyReconciledFails, TakesBack, TypeOK
    <3> QED
      BY <1>0, <2>1, <2>2, <3>1, <3>2, CallEnds DEF Answered
  <2>5. ReceiptMeansEffect'
    BY <1>0, <1>24, <2>1 DEF ApplyReconciledFails, ReconcileConfirms, TakesBack,
       PersistThrows, With, Throws, Answer, control, Waiting, Reconciling, Answered, TypeOK,
       CallsOK, ReceiptMeansEffect, KeyLanded
  <2> QED
    BY <2>2, <2>3, <2>4, <2>5 DEF StoreOK, CallsOK
<1>25. ASSUME NEW r \in Req, EffectFails(r) PROVE StoreOK' /\ CallsOK'
  <2> DEFINE k == Key_(r)
  <2>1. /\ up /\ k \in Key /\ reservations[k] \in Reservation
        /\ reservations[k].status # "NONE" /\ disk.reservations[k].status # "NONE"
    BY <1>25, HeldRow DEF EffectFails, Reconciling
  <2>2. /\ Rows(reservations)' /\ Rows(disk.reservations)'
        /\ Leased(reservations, consumed)' /\ Leased(disk.reservations, disk.consumed)'
        /\ Follows' /\ Durable
    <3> DEFINE row == Unsure(reservations[k])
               written == Unsure(reservations[k])
    <3>1. /\ row \in Reservation /\ row.grant = reservations[k].grant /\ row.status # "NONE"
          /\ written \in Reservation /\ written.grant = reservations[k].grant
          /\ written.status # "NONE"
      BY <2>1, RowShapes
    <3>2. /\ up' /\ reservations' = [reservations EXCEPT ![k] = row] /\ consumed' = consumed
      BY <1>25, <2>1 DEF EffectFails
    <3>3. \/ disk' = disk
          \/ /\ disk'.reservations = [reservations EXCEPT ![k] = written]
             /\ disk'.consumed = consumed
      <4>1. disk' \in {disk, Written}
        BY <1>25 DEF EffectFails, PersistOk, PersistThrows
      <4>2. CASE disk' = Written
        BY <3>2, <4>2 DEF Written
      <4>3. CASE disk' = disk
        BY <4>3
      <4> QED
        BY <4>1, <4>2, <4>3
    <3> QED
      BY <1>0, <2>1, <3>1, <3>2, <3>3, Rewrite
  <2>3. NoUndurableReceipt'
    BY <1>0, <1>25, <2>1 DEF EffectFails, PersistOk, PersistThrows, Written, TypeOK,
       StoreOK, NoUndurableReceipt
  <2>4. (Custody /\ OneHolder /\ Phases)'
    <3>1. /\ up' /\ UNCHANGED <<existed, wire>>
          /\ pc' = [pc EXCEPT ![r] = "FAILED"]
      BY <1>25, <2>1 DEF EffectFails, Answer
    <3>2. \A j \in Key : reservations[j].status # "NONE" => reservations'[j].status # "NONE"
      BY <1>0, <1>25, <2>1, RowShapes DEF EffectFails, TypeOK
    <3> QED
      BY <1>0, <2>1, <2>2, <3>1, <3>2, CallEnds DEF Answered
  <2>5. ReceiptMeansEffect'
    BY <1>0, <1>25, <2>1 DEF EffectFails, PersistOk, PersistThrows, Written, Throws,
       Answer, control, Waiting, Reconciling, Answered, TypeOK, CallsOK, ReceiptMeansEffect,
       KeyLanded
  <2> QED
    BY <2>2, <2>3, <2>4, <2>5 DEF StoreOK, CallsOK
<1>26. ASSUME NEW k \in Key, Stop(k) PROVE StoreOK' /\ CallsOK'
  BY <1>0, <1>26, QuietStore DEF Stop, Idle, store, CallsOK, Custody, OneHolder, Phases,
     ReceiptMeansEffect, KeyLanded, Holds, Posted
<1>27. ASSUME NEW k \in Key, Revoke(k) PROVE StoreOK' /\ CallsOK'
  BY <1>0, <1>27, QuietStore DEF Revoke, Idle, store, CallsOK, Custody, OneHolder, Phases,
     ReceiptMeansEffect, KeyLanded, Holds, Posted
<1>28. ASSUME NEW g \in Grant, Close(g) PROVE StoreOK' /\ CallsOK'
  BY <1>0, <1>28, QuietStore DEF Close, Idle, store, CallsOK, Custody, OneHolder, Phases,
     ReceiptMeansEffect, KeyLanded, Holds, Posted
<1>29. CASE Crash
  <2>1. StoreOK'
    BY <1>0, <1>29, NoneShape DEF Crash, StoreOK, Rows, Leased, Follows, NoUndurableReceipt
  <2>2. /\ \A q \in Req : /\ pc'[q] \notin Waiting \cup {"post"}
                          /\ pc'[q] = "idle" => pc[q] = "idle"
                          /\ Holds(q)' => Holds(q)
        /\ UNCHANGED <<disk, existed, wire>>
    BY <1>0, <1>29 DEF Crash, TypeOK, Holds, Posted, Driving, Waiting, Reconciling, Answered
  <2>3. (Custody /\ OneHolder /\ Phases)'
    <3>1. Custody'
      BY <1>0, <2>2 DEF CallsOK, Custody, Key_, Waiting
    <3>2. OneHolder'
      BY <1>0, <2>2 DEF CallsOK, OneHolder, Key_, Kind
    <3>3. Phases'
      BY <1>0, <2>2 DEF CallsOK, Phases, Waiting
    <3> QED
      BY <3>1, <3>2, <3>3
  <2>4. ReceiptMeansEffect'
    BY <1>0, <1>29 DEF Crash, CallsOK, ReceiptMeansEffect, KeyLanded, Key_
  <2> QED
    BY <2>1, <2>3, <2>4 DEF CallsOK
<1>30. CASE Restart
  <2>1. /\ reservations' = [k \in Key |-> Recovered(disk.reservations[k])]
        /\ disk'.reservations = reservations' /\ effects' = disk.effects
        /\ disk'.effects = effects' /\ consumed' = disk.consumed /\ disk'.consumed = consumed'
        /\ UNCHANGED <<pc, existed, wire>> /\ ~up
    BY <1>30 DEF Restart, PersistOk, Written
  <2>2. \A k \in Key : /\ disk.reservations[k] \in Reservation
                       /\ reservations'[k].grant = disk.reservations[k].grant
                       /\ reservations'[k].status = "NONE" <=> disk.reservations[k].status = "NONE"
    BY <1>0, <2>1, RowShapes DEF TypeOK, Store
  <2>3. StoreOK'
    <3>1. Rows(reservations)' /\ Rows(disk.reservations)'
      BY <1>0, <2>1, <2>2 DEF StoreOK, Rows
    <3>2. Leased(reservations, consumed)' /\ Leased(disk.reservations, disk.consumed)'
      BY <1>0, <2>1, <2>2 DEF StoreOK, Leased
    <3>3. Follows' /\ NoUndurableReceipt'
      BY <2>1, <2>2 DEF Follows, NoUndurableReceipt
    <3> QED
      BY <3>1, <3>2, <3>3 DEF StoreOK
  <2>4. (Custody /\ OneHolder /\ Phases)'
    <3>1. \A q \in Req : Holds(q)' <=> Holds(q)
      BY <2>1 DEF Holds, Posted
    <3>2. Custody'
      BY <1>0, <2>1, <2>2, <3>1 DEF CallsOK, Custody, Phases, Waiting, Key_
    <3>3. OneHolder' /\ Phases'
      BY <1>0, <2>1, <3>1 DEF CallsOK, OneHolder, Phases, Key_, Kind
    <3> QED
      BY <3>2, <3>3
  <2>5. ReceiptMeansEffect'
    BY <1>0, <2>1 DEF CallsOK, ReceiptMeansEffect, KeyLanded, Key_
  <2> QED
    BY <2>3, <2>4, <2>5 DEF CallsOK
<1>31. CASE UNCHANGED vars
  BY <1>0, <1>31, QuietStore DEF vars, store, CallsOK, Custody, OneHolder, Phases,
     ReceiptMeansEffect, KeyLanded, Holds, Posted
<1>32. ASSUME NEW k \in Key, Evict(k) PROVE StoreOK' /\ CallsOK'
  BY <1>0, <1>32, QuietStore DEF Evict, Idle, store, CallsOK, Custody, OneHolder, Phases,
     ReceiptMeansEffect, KeyLanded, Holds, Posted
<1> QED
  BY <1>0, <1>1, <1>2, <1>3, <1>4, <1>5, <1>6, <1>7, <1>8, <1>9, <1>10, <1>11, <1>12,
     <1>13, <1>14, <1>15, <1>16, <1>17, <1>18, <1>19, <1>20, <1>21, <1>22, <1>23, <1>24,
     <1>25, <1>26, <1>27, <1>28, <1>29, <1>30, <1>31, <1>32, Parts DEF
     Next, Execute

(* The inductive invariant holds in every reachable state. *)
LEMMA Inductive == Spec => []IInv
<1>1. IInv /\ [Next]_vars => IInv'
  BY TypeStep, InvStep, Parts DEF IInv, StoreOK, CallsOK
<1> QED
  BY InitIInv, <1>1, PTL DEF Spec

(* State and store are well formed. *)
THEOREM TypeCorrect == Spec => []TypeOK
<1>1. IInv => TypeOK
  BY DEF IInv
<1> QED
  BY Inductive, <1>1, PTL

(* A POST has its reservation, by its own grant, on disk ever after. *)
THEOREM PostReserved == Spec => []PostIsReserved
<1>1. IInv => PostIsReserved
  <2> SUFFICES ASSUME IInv, NEW r \in Req, Posted(r)
               PROVE  /\ disk.reservations[Key_(r)].grant = GrantOf[r]
                      /\ Kind(r) = "owner" => GrantOf[r] \in disk.consumed
    BY DEF PostIsReserved
  <2>1. disk.reservations[Key_(r)].grant = GrantOf[r]
    BY DEF IInv, Custody, Holds
  <2> QED
    BY <2>1, GrantsAssumption DEF IInv, Leased, Key_, Kind
<1> QED
  BY Inductive, <1>1, PTL

(* Two requests POST an operation only when they present one owner lease and *)
(* neither found a reservation on entry.                                     *)
THEOREM PostsOnce == Spec => []OnePostPerKey
<1>1. IInv => OnePostPerKey
  BY DEF IInv, OnePostPerKey, Custody, OneHolder, Holds
<1> QED
  BY Inductive, <1>1, PTL

(* Every receipt in memory is on disk, whatever storage failed in between. *)
THEOREM ReceiptsDurable == Spec => []NoUndurableReceipt
<1>1. IInv => NoUndurableReceipt
  BY DEF IInv
<1> QED
  BY Inductive, <1>1, PTL

(* Every receipt, in memory or on disk, is of an effect the provider has. *)
THEOREM ReceiptsTrue == Spec => []ReceiptMeansEffect
<1>1. IInv => ReceiptMeansEffect
  BY DEF IInv
<1> QED
  BY Inductive, <1>1, PTL

(* A request goes on to its POST only with an authority that holds in that  *)
(* step.                                                                    *)
THEOREM PostsAuthorized == Spec => PostUnderAuthority
<1>1. TypeOK /\ [Next]_vars =>
        [\A r \in Req : pc[r] # "post" /\ pc'[r] = "post" => AuthorityHolds(r)]_vars
  <2> SUFFICES ASSUME TypeOK, [Next]_vars, NEW r \in Req, pc[r] # "post", pc'[r] = "post"
               PROVE  AuthorityHolds(r)
    OBVIOUS
  <2>1. ReserveFresh(r) \/ ReserveShared(r)
    <3>1. ASSUME NEW q \in Req, ReserveFresh(q) PROVE ReserveFresh(r) \/ ReserveShared(r)
      BY <3>1 DEF ReserveFresh, Moves, TypeOK
    <3>2. ASSUME NEW q \in Req, ReserveShared(q) PROVE ReserveFresh(r) \/ ReserveShared(r)
      BY <3>2 DEF ReserveShared, Moves, TypeOK
    <3>3. ASSUME NEW q \in Req,
                 EnterDenied(q) \/ EnterOwner(q) \/ EnterReplay(q) \/
                 SnapshotServed(q)
          PROVE  FALSE
      BY <3>3 DEF EnterDenied, Answer, Moves, Idle, store, control, Waiting, Reconciling,
         Answered, EnterOwner, Cleared, EnterReplay, SnapshotServed, TypeOK
    <3>4. ASSUME NEW q \in Req,
                 SnapshotDenied(q) \/ AskReconcile(q) \/ ReconcileRefused(q) \/
                 AttemptFails(q)
          PROVE  FALSE
      BY <3>4 DEF SnapshotDenied, Answer, Moves, Idle, store, control, Waiting,
         Reconciling, Answered, AskReconcile, Ready, Recovers, Ambiguous, ReconcileRefused,
         AttemptFails, TypeOK
    <3>5. ASSUME NEW q \in Req,
                 ReserveDenied(q) \/ Post(q) \/ Lands(q) \/
                 MutateAnswers(q) \/ ReconcileUnknown(q) \/ ReconcileClaims(q) \/
                 AwaitFails(q)
          PROVE  FALSE
      BY <3>5 DEF ReserveDenied, Ready, Answer, Moves, Idle, store, control, Waiting,
         Reconciling, Answered, Post, Lands, MutateAnswers, ReconcileUnknown,
         ReconcileClaims, AwaitFails, TypeOK
    <3>6. ASSUME NEW q \in Req,
                 EffectFailsApplied(q) \/ ReserveFails(q) \/ Apply(q) \/
                 ApplyFails(q) \/ ApplyFailsTwice(q) \/ ApplyReconciled(q) \/
                 ApplyReconciledFails(q) \/ EffectFails(q)
          PROVE  FALSE
      BY <3>6 DEF EffectFailsApplied, Answer, Idle, store, control, Waiting, Reconciling,
         Answered, ReserveFails, Reserve, Ready, PersistThrows, Written, Throws, Apply,
         ReadbackConfirms, Records, PersistOk, ApplyFails, TakesBack, ApplyFailsTwice, With,
         ApplyReconciled, ReconcileConfirms, ApplyReconciledFails, EffectFails, TypeOK
    <3>7. ASSUME NEW k \in Key, Stop(k) \/ Revoke(k) \/ Evict(k) PROVE FALSE
      BY <3>7 DEF Stop, Revoke, Evict
    <3>8. ASSUME NEW g \in Grant, Close(g) PROVE FALSE
      BY <3>8 DEF Close
    <3>9. ~Crash /\ ~Restart /\ ~UNCHANGED vars
      BY DEF Crash, Restart, vars, TypeOK, Waiting
    <3> QED
      BY <3>1, <3>2, <3>3, <3>4, <3>5, <3>6, <3>7, <3>8, <3>9 DEF Next, Execute
  <2>2. Ready(r)
    BY <2>1 DEF ReserveFresh, Reserve, ReserveShared
  <2> QED
    BY <2>2 DEF Ready, SnapshotHolds, Cleared
<1> QED
  BY TypeCorrect, <1>1, PTL DEF Spec, PostUnderAuthority

-----------------------------------------------------------------------------
(* Requests that enter after a REVOKE *)

\* Nothing was sent for a request, and nothing can be: it has not entered and
\* its key is revoked, or it was answered.
Silent(r) ==
    /\ wire[r] = "none" /\ r \notin asked
    /\ \/ pc[r] = "idle" /\ Key_(r) \in revoked
       \/ pc[r] \in Answered

Unasked ==
    /\ revoked # {} => Owned
    /\ \A r \in Req : pc[r] = "idle" => r \notin asked

\* What a step of one request does to another, and to its own place.
LEMMA StepOfOne ==
    ASSUME TypeOK, NEW q \in Req, Execute(q) \/ Lands(q)
    PROVE  /\ \A r \in Req \ {q} :
                pc'[r] = pc[r] /\ wire'[r] = wire[r] /\ (r \in asked' <=> r \in asked)
           /\ revoked' = revoked
           /\ pc'[q] = "idle" => pc[q] = "idle" /\ asked' = asked
<1>1. CASE EnterDenied(q) \/ EnterOwner(q) \/ EnterReplay(q) \/ SnapshotServed(q)
  BY <1>1 DEF EnterDenied, EnterOwner, EnterReplay, SnapshotServed, Answer, Moves, control, TypeOK
<1>2. CASE SnapshotDenied(q) \/ AskReconcile(q) \/ ReconcileRefused(q) \/ AttemptFails(q)
  BY <1>2 DEF SnapshotDenied, AskReconcile, ReconcileRefused, AttemptFails, Answer, Moves,
              control, TypeOK
<1>3. CASE ReserveFresh(q) \/ ReserveFails(q) \/ ReserveShared(q) \/ ReserveDenied(q)
  BY <1>3 DEF ReserveFresh, ReserveFails, ReserveShared, ReserveDenied, Answer, Moves,
              control, TypeOK
<1>4. CASE Post(q) \/ Lands(q) \/ MutateAnswers(q) \/ ReconcileUnknown(q) \/ ReconcileClaims(q)
  BY <1>4 DEF Post, Lands, MutateAnswers, ReconcileUnknown, ReconcileClaims, Answer, Moves,
              control, TypeOK
<1>5. CASE Apply(q) \/ ApplyFails(q) \/ ApplyFailsTwice(q)
  BY <1>5 DEF Apply, Records, ApplyFails, ApplyFailsTwice, Answer, control, TypeOK
<1>6. CASE ApplyReconciled(q) \/ ApplyReconciledFails(q)
  BY <1>6 DEF ApplyReconciled, Records, ApplyReconciledFails, Answer, control, TypeOK
<1>7. CASE AwaitFails(q) \/ EffectFails(q) \/ EffectFailsApplied(q)
  BY <1>7 DEF AwaitFails, EffectFails, EffectFailsApplied, Answer, control, TypeOK
<1> QED
  BY <1>1, <1>2, <1>3, <1>4, <1>5, <1>6, <1>7 DEF Execute

\* What the rest of the system does to a request.
LEMMA StepOutside ==
    ASSUME TypeOK, NEW r \in Req,
           \/ UNCHANGED vars \/ Crash \/ Restart
           \/ \E k \in Key : Stop(k) \/ Revoke(k) \/ Evict(k)
           \/ \E g \in Grant : Close(g)
    PROVE  /\ wire' = wire /\ asked' = asked /\ revoked \subseteq revoked'
           /\ revoked' # revoked => Owned
           /\ pc'[r] = pc[r] \/ (pc[r] # "idle" /\ pc'[r] = "LOST")
<1>1. CASE UNCHANGED vars
  BY <1>1 DEF vars, control
<1>2. CASE Crash
  BY <1>2 DEF Crash, control, TypeOK, Waiting, Reconciling
<1>3. CASE Restart
  BY <1>3 DEF Restart, control
<1>4. ASSUME NEW k \in Key, Stop(k) \/ Revoke(k) \/ Evict(k)
      PROVE  /\ wire' = wire /\ asked' = asked /\ revoked \subseteq revoked'
             /\ revoked' # revoked => Owned
             /\ pc' = pc
  BY <1>4 DEF Stop, Revoke, Evict, control
<1>5. ASSUME NEW g \in Grant, Close(g)
      PROVE  wire' = wire /\ asked' = asked /\ revoked' = revoked /\ pc' = pc
  BY <1>5 DEF Close
<1> QED
  BY <1>1, <1>2, <1>3, <1>4, <1>5

(* Only a request that entered has asked, in every step. *)
LEMMA UnaskedStep == TypeOK /\ Unasked /\ [Next]_vars => Unasked'
<1> SUFFICES ASSUME TypeOK, Unasked, [Next]_vars PROVE Unasked'
  OBVIOUS
<1>1. ASSUME NEW q \in Req, Execute(q) \/ Lands(q) PROVE Unasked'
  BY <1>1, StepOfOne DEF Unasked
<1>2. CASE \/ UNCHANGED vars \/ Crash \/ Restart
           \/ \E k \in Key : Stop(k) \/ Revoke(k) \/ Evict(k)
           \/ \E g \in Grant : Close(g)
  <2>1. (revoked # {} => Owned)'
    <3>1. CASE Req = {}
      BY <1>2, <3>1 DEF Unasked, vars, control, Crash, Restart, Stop, Revoke, Evict, Close
    <3>2. CASE Req # {}
      BY <1>2, <3>2, StepOutside DEF Unasked
    <3> QED
      BY <3>1, <3>2
  <2>2. (\A r \in Req : pc[r] = "idle" => r \notin asked)'
    BY <1>2, StepOutside DEF Unasked
  <2> QED
    BY <2>1, <2>2 DEF Unasked
<1> QED
  BY <1>1, <1>2 DEF Next

\* A silent request stays silent: a revoked one is not cleared, an answered one
\* does nothing.
LEMMA SilentStays ==
    ASSUME TypeOK, Unasked, [Next]_vars, NEW r \in Req, Silent(r)
    PROVE  Silent(r)'
<1>1. CASE pc[r] = "idle" /\ Key_(r) \in revoked /\ (Execute(r) \/ Lands(r))
  <2>1. ~Cleared(r)
    BY <1>1 DEF Cleared, ControlAllows, Unasked
  <2>2. ~Ready(r)
    BY <1>1, <2>1 DEF Ready
  <2>3. EnterDenied(r)
    BY <1>1, <2>1, <2>2 DEF Execute, Lands, Silent, EnterOwner, EnterReplay, SnapshotServed,
       SnapshotDenied, AskReconcile, ReconcileRefused, AttemptFails, ReserveFresh, Reserve,
       ReserveFails, ReserveShared, ReserveDenied, Post, MutateAnswers, Apply, ApplyFails,
       ApplyFailsTwice, ReadbackConfirms, ReconcileUnknown, ReconcileClaims, ApplyReconciled,
       ApplyReconciledFails, ReconcileConfirms, AwaitFails, EffectFails, EffectFailsApplied,
       Reconciling
  <2> QED
    BY <2>3 DEF EnterDenied, Answer, Silent, Answered, TypeOK
<1>2. CASE pc[r] \in Answered /\ (Execute(r) \/ Lands(r))
  <2>1. ~Ready(r)
    BY <1>2 DEF Ready, Answered
  <2> QED
    BY <1>2, <2>1 DEF Execute, Lands, Silent, EnterDenied, EnterOwner, EnterReplay,
       SnapshotServed, SnapshotDenied, AskReconcile, ReconcileRefused, AttemptFails,
       ReserveFresh, Reserve, ReserveFails, ReserveShared, ReserveDenied, Post, MutateAnswers,
       Apply, ApplyFails, ApplyFailsTwice, ReadbackConfirms, ReconcileUnknown,
       ReconcileClaims, ApplyReconciled, ApplyReconciledFails, ReconcileConfirms, AwaitFails,
       EffectFails, EffectFailsApplied, Reconciling, Answered
<1>3. ASSUME NEW q \in Req \ {r}, Execute(q) \/ Lands(q) PROVE Silent(r)'
  <2>1. /\ pc'[r] = pc[r] /\ wire'[r] = wire[r] /\ (r \in asked' <=> r \in asked)
        /\ revoked' = revoked
    BY <1>3, StepOfOne
  <2> QED
    BY <2>1 DEF Silent, Key_
<1>4. CASE \/ UNCHANGED vars \/ Crash \/ Restart
           \/ \E k \in Key : Stop(k) \/ Revoke(k) \/ Evict(k)
           \/ \E g \in Grant : Close(g)
  BY <1>4, StepOutside DEF Silent, Answered, Key_
<1> QED
  BY <1>1, <1>2, <1>3, <1>4 DEF Next, Silent

(* A request that enters after its key was revoked never POSTs and never    *)
(* asks the provider to reconcile, through any restart.                     *)
THEOREM RevokedIsSilent == Spec => RevokedNeverActs
<1> SUFFICES ASSUME NEW r \in Req
             PROVE  Spec => [](pc[r] = "idle" /\ Key_(r) \in revoked =>
                               [](wire[r] = "none" /\ r \notin asked))
  BY DEF RevokedNeverActs
<1>1. Init => Unasked
  BY DEF Init, Unasked
<1>2. Spec => []Unasked
  BY <1>1, UnaskedStep, TypeCorrect, PTL DEF Spec
<1>3. IInv /\ Unasked /\ pc[r] = "idle" /\ Key_(r) \in revoked => Silent(r)
  BY DEF IInv, Phases, Unasked, Silent
<1>4. TypeOK /\ Unasked /\ [Next]_vars => (Silent(r) => Silent(r)')
  BY SilentStays
<1>5. Silent(r) => wire[r] = "none" /\ r \notin asked
  BY DEF Silent
<1> QED
  BY <1>2, <1>3, <1>4, <1>5, Inductive, TypeCorrect, PTL DEF Spec

-----------------------------------------------------------------------------
(* Provider reads are within the attempt budget *)

\* The reads of a key that its counter still counts.
AskedOf(k) == {r \in asked \ forgotten : Key_(r) = k}

Counted ==
    Owned => \A k \in Key : /\ IsFiniteSet(AskedOf(k))
                            /\ Cardinality(AskedOf(k)) <= attempts[k]

(* Provider reads are counted before they are made, and dropped with the count. *)
LEMMA CountedStep == TypeOK /\ Counted /\ [Next]_vars => Counted'
<1> SUFFICES ASSUME TypeOK, Counted, [Next]_vars, Owned, NEW k \in Key
             PROVE  IsFiniteSet(AskedOf(k)') /\ Cardinality(AskedOf(k)') <= attempts'[k]
  BY DEF Counted
<1>0. /\ IsFiniteSet(AskedOf(k)) /\ Cardinality(AskedOf(k)) <= attempts[k]
      /\ Cardinality(AskedOf(k)) \in Nat /\ attempts[k] \in Nat
  BY FS_CardinalityType, BoundsAssumption DEF Counted, TypeOK
<1>1. ASSUME asked' = asked, forgotten' = forgotten, attempts' = attempts
      PROVE  IsFiniteSet(AskedOf(k)') /\ Cardinality(AskedOf(k)') <= attempts'[k]
  BY <1>0, <1>1 DEF AskedOf, Key_
<1>2. ASSUME NEW q \in Req, AskReconcile(q)
      PROVE  IsFiniteSet(AskedOf(k)') /\ Cardinality(AskedOf(k)') <= attempts'[k]
  <2>1. /\ asked' = asked \cup {q} /\ forgotten' = forgotten
        /\ attempts' = [attempts EXCEPT ![Key_(q)] = @ + 1]
    BY <1>2 DEF AskReconcile
  <2>2. CASE Key_(q) = k
    <3>1. AskedOf(k)' \in {AskedOf(k), AskedOf(k) \cup {q}}
      BY <2>1, <2>2 DEF AskedOf, Key_
    <3>2. attempts'[k] = attempts[k] + 1
      BY <2>1, <2>2 DEF TypeOK
    <3>3. /\ IsFiniteSet(AskedOf(k) \cup {q})
          /\ Cardinality(AskedOf(k) \cup {q}) <= Cardinality(AskedOf(k)) + 1
      <4>1. /\ IsFiniteSet(AskedOf(k) \cup {q})
            /\ Cardinality(AskedOf(k) \cup {q}) =
                 IF q \in AskedOf(k) THEN Cardinality(AskedOf(k))
                                    ELSE Cardinality(AskedOf(k)) + 1
        BY <1>0, FS_AddElement, Zenon
      <4> QED
        BY <1>0, <4>1
    <3>4. Cardinality(AskedOf(k) \cup {q}) \in Nat
      BY <3>3, FS_CardinalityType
    <3>5. CASE AskedOf(k)' = AskedOf(k)
      BY <1>0, <3>2, <3>5
    <3>6. CASE AskedOf(k)' = AskedOf(k) \cup {q}
      BY <1>0, <3>2, <3>3, <3>4, <3>6
    <3> QED
      BY <3>1, <3>5, <3>6
  <2>3. CASE Key_(q) # k
    <3>1. AskedOf(k)' = AskedOf(k)
      BY <2>1, <2>3 DEF AskedOf, Key_
    <3>2. attempts'[k] = attempts[k]
      BY <2>1, <2>3 DEF TypeOK
    <3> QED
      BY <1>0, <3>1, <3>2
  <2> QED
    BY <2>2, <2>3
<1>3. ASSUME NEW q \in Req, AttemptFails(q)
      PROVE  IsFiniteSet(AskedOf(k)') /\ Cardinality(AskedOf(k)') <= attempts'[k]
  <2>1. AskedOf(k)' = AskedOf(k)
    BY <1>3 DEF AttemptFails, AskedOf, Key_
  <2>2. attempts'[k] \in {attempts[k], attempts[k] + 1}
    BY <1>3 DEF AttemptFails, TypeOK
  <2> QED
    BY <1>0, <2>1, <2>2
<1>4. ASSUME NEW q \in Req, Execute(q) \/ Lands(q), ~AskReconcile(q), ~AttemptFails(q)
      PROVE  asked' = asked /\ forgotten' = forgotten /\ attempts' = attempts
  BY <1>4 DEF Execute, EnterDenied, EnterOwner, EnterReplay, SnapshotServed, SnapshotDenied,
     ReconcileRefused, ReserveFresh, ReserveFails, ReserveShared, ReserveDenied, Post, Lands,
     MutateAnswers, ReconcileUnknown, ReconcileClaims, Apply, Records, ApplyFails,
     ApplyFailsTwice, ApplyReconciled, ApplyReconciledFails, AwaitFails, EffectFails,
     EffectFailsApplied
<1>5. CASE \/ UNCHANGED vars \/ Crash \/ Restart
           \/ \E j \in Key : Stop(j) \/ Revoke(j)
           \/ \E g \in Grant : Close(g)
  <2>1. asked' = asked /\ forgotten' = forgotten /\ attempts' = attempts
    BY <1>5 DEF vars, Crash, Restart, Stop, Revoke, Close
  <2> QED
    BY <1>1, <2>1
<1>6. ASSUME NEW j \in Key, Evict(j)
      PROVE  IsFiniteSet(AskedOf(k)') /\ Cardinality(AskedOf(k)') <= attempts'[k]
  <2>1. /\ asked' = asked /\ attempts' = [attempts EXCEPT ![j] = 0]
        /\ forgotten' = forgotten \cup {r \in asked : Key_(r) = j}
    BY <1>6 DEF Evict
  <2>2. CASE j = k
    <3>1. AskedOf(k)' = {} /\ attempts'[k] = 0
      BY <2>1, <2>2 DEF AskedOf, Key_, TypeOK
    <3> QED
      BY <3>1, FS_EmptySet
  <2>3. CASE j # k
    <3>1. AskedOf(k)' = AskedOf(k) /\ attempts'[k] = attempts[k]
      BY <2>1, <2>3 DEF AskedOf, Key_, TypeOK
    <3> QED
      BY <1>0, <3>1
  <2> QED
    BY <2>2, <2>3
<1> QED
  BY <1>1, <1>2, <1>3, <1>4, <1>5, <1>6 DEF Next

(* Provider reconciliation reads of a key never exceed its attempt budget   *)
(* while the ledger keeps its counter, however many requests ask and however *)
(* often the process restarts, and only an unspent budget is begun again.    *)
THEOREM ReadsStayBounded == Spec => []ReadsBounded
<1>1. Init => Counted
  <2>1. Init => \A k \in Key : AskedOf(k) = {} /\ attempts[k] = 0
    BY DEF Init, AskedOf
  <2> QED
    BY <2>1, FS_EmptySet DEF Counted
<1>2. TypeOK /\ Counted => ReadsBounded
  <2> SUFFICES ASSUME TypeOK, Counted, Owned, NEW k \in Key
               PROVE  Cardinality({r \in asked \ forgotten : Key_(r) = k}) <= MaxAttempts
    BY DEF ReadsBounded
  <2>1. /\ Cardinality(AskedOf(k)) \in Nat /\ Cardinality(AskedOf(k)) <= attempts[k]
        /\ attempts[k] \in 0 .. MaxAttempts
    BY FS_CardinalityType DEF Counted, TypeOK
  <2>2. Cardinality({r \in asked \ forgotten : Key_(r) = k}) = Cardinality(AskedOf(k))
    BY DEF AskedOf
  <2> QED
    BY <2>1, <2>2, BoundsAssumption
<1> QED
  BY <1>1, <1>2, CountedStep, TypeCorrect, PTL DEF Spec

-----------------------------------------------------------------------------
(* What a row says of the requests that had it *)

\* Another request of its key has POSTed.
OtherPosted(r) == \E q \in Req \ {r} : Key_(q) = Key_(r) /\ Posted(q)

TwoPosted(k) == \E q, r \in Req : /\ q # r /\ Key_(q) = k /\ Key_(r) = k
                                  /\ Posted(q) /\ Posted(r)

\* Where a request stands tells what it sent.
Sent == \A r \in Req : pc[r] \in {"mutate", "readback"} => Posted(r)

Settled(k) == reservations[k].status \in {"AMBIGUOUS", "APPLIED"}

\* A reservation that a request found free, or drives, and that is past
\* EXECUTING was settled by a POST of another.
Settling ==
    \A r \in Req :
        /\ pc[r] \in Reconciling => Settled(Key_(r))
        /\ pc[r] = "snapshot" /\ ~existed[r] /\ Settled(Key_(r)) => OtherPosted(r)
        /\ pc[r] \in Driving /\ reservations[Key_(r)].status # "EXECUTING" => OtherPosted(r)

\* A row says what the start requires of it.
Sound(row, receipt) ==
    /\ (row.recovery = "RECONCILE") <=> (row.status = "AMBIGUOUS")
    /\ (row.status = "APPLIED") <=> (receipt # "none")

RowsSound ==
    \A k \in Key : TwoPosted(k) \/ /\ Sound(reservations[k], effects[k])
                                   /\ Sound(disk.reservations[k], disk.effects[k])

\* A receipt is of an APPLIED row, whoever POSTed.
ReceiptApplied ==
    \A k \in Key : /\ effects[k] # "none" => reservations[k].status = "APPLIED"
                   /\ disk.effects[k] # "none" => disk.reservations[k].status = "APPLIED"

(* A POST stays sent. *)
LEMMA Onward ==
    ASSUME TypeOK, [Next]_vars
    PROVE  \A r \in Req : Posted(r) => Posted(r)'
<1>1. ASSUME NEW q \in Req, Execute(q)
      PROVE  wire[q] # "none" => wire'[q] # "none"
  <2>1. CASE EnterDenied(q) \/ EnterOwner(q) \/ EnterReplay(q) \/ SnapshotServed(q)
    BY <2>1 DEF EnterDenied, EnterOwner, EnterReplay, SnapshotServed
  <2>2. CASE SnapshotDenied(q) \/ AskReconcile(q) \/ ReconcileRefused(q) \/ AttemptFails(q)
    BY <2>2 DEF SnapshotDenied, AskReconcile, ReconcileRefused, AttemptFails, Ready
  <2>3. CASE ReserveFresh(q) \/ ReserveFails(q) \/ ReserveShared(q) \/ ReserveDenied(q)
    BY <2>3 DEF ReserveFresh, ReserveFails, ReserveShared, ReserveDenied, Reserve, Ready
  <2>4. CASE Post(q) \/ MutateAnswers(q) \/ ReconcileUnknown(q) \/ ReconcileClaims(q)
    BY <2>4 DEF Post, MutateAnswers, ReconcileUnknown, ReconcileClaims, TypeOK
  <2>5. CASE Apply(q) \/ ApplyFails(q) \/ ApplyFailsTwice(q)
    BY <2>5 DEF Apply, Records, ApplyFails, ApplyFailsTwice, ReadbackConfirms
  <2>6. CASE ApplyReconciled(q) \/ ApplyReconciledFails(q)
    BY <2>6 DEF ApplyReconciled, Records, ApplyReconciledFails, ReconcileConfirms
  <2>7. CASE AwaitFails(q) \/ EffectFails(q) \/ EffectFailsApplied(q)
    BY <2>7 DEF AwaitFails, EffectFails, EffectFailsApplied, Reconciling
  <2> QED
    BY <1>1, <2>1, <2>2, <2>3, <2>4, <2>5, <2>6, <2>7 DEF Execute
<1>2. ASSUME NEW q \in Req, Lands(q)
      PROVE  wire'[q] # "none"
  BY <1>2 DEF Lands, TypeOK
<1>3. ASSUME NEW q \in Req, Execute(q) \/ Lands(q)
      PROVE  \A r \in Req : Posted(r) => Posted(r)'
  BY <1>1, <1>2, <1>3, StepOfOne DEF Posted
<1>4. CASE \/ UNCHANGED vars \/ Crash \/ Restart
           \/ \E k \in Key : Stop(k) \/ Revoke(k) \/ Evict(k)
           \/ \E g \in Grant : Close(g)
  BY <1>4 DEF vars, Crash, Restart, Stop, Revoke, Evict, Close, Posted
<1> QED
  BY <1>3, <1>4 DEF Next

(* Where a request stands tells what it sent, in every step. *)
LEMMA SentStep == TypeOK /\ Sent /\ [Next]_vars => Sent'
<1> SUFFICES ASSUME TypeOK, Sent, [Next]_vars PROVE Sent'
  OBVIOUS
<1>1. ASSUME NEW q \in Req, Execute(q) \/ Lands(q)
      PROVE  pc'[q] \in {"mutate", "readback"} => wire'[q] # "none"
  <2>1. CASE EnterDenied(q) \/ EnterOwner(q) \/ EnterReplay(q) \/ SnapshotServed(q)
    BY <2>1 DEF EnterDenied, EnterOwner, EnterReplay, SnapshotServed, Answer, Moves, TypeOK,
       Reconciling, Sent, Posted
  <2>2. CASE SnapshotDenied(q) \/ AskReconcile(q) \/ ReconcileRefused(q) \/ AttemptFails(q)
    BY <2>2 DEF SnapshotDenied, AskReconcile, ReconcileRefused, AttemptFails, Answer, Moves,
       TypeOK, Reconciling
  <2>3. CASE ReserveFresh(q) \/ ReserveFails(q) \/ ReserveShared(q) \/ ReserveDenied(q)
    BY <2>3 DEF ReserveFresh, ReserveFails, ReserveShared, ReserveDenied, Answer, Moves,
       TypeOK, Reconciling
  <2>4. CASE Post(q) \/ Lands(q) \/ MutateAnswers(q) \/ ReconcileUnknown(q) \/ ReconcileClaims(q)
    BY <2>4 DEF Post, Lands, MutateAnswers, ReconcileUnknown, ReconcileClaims, Answer, Moves,
       TypeOK, Reconciling, Sent, Posted
  <2>5. CASE Apply(q) \/ ApplyFails(q) \/ ApplyFailsTwice(q)
    BY <2>5 DEF Apply, Records, ApplyFails, ApplyFailsTwice, Answer, TypeOK, Reconciling
  <2>6. CASE ApplyReconciled(q) \/ ApplyReconciledFails(q)
    BY <2>6 DEF ApplyReconciled, Records, ApplyReconciledFails, Answer, TypeOK, Reconciling
  <2>7. CASE AwaitFails(q) \/ EffectFails(q) \/ EffectFailsApplied(q)
    BY <2>7 DEF AwaitFails, EffectFails, EffectFailsApplied, Answer, TypeOK, Reconciling
  <2> QED
    BY <1>1, <2>1, <2>2, <2>3, <2>4, <2>5, <2>6, <2>7 DEF Execute
<1>2. ASSUME NEW q \in Req, Execute(q) \/ Lands(q) PROVE Sent'
  BY <1>1, <1>2, StepOfOne DEF Sent, Posted
<1>3. CASE \/ UNCHANGED vars \/ Crash \/ Restart
           \/ \E k \in Key : Stop(k) \/ Revoke(k) \/ Evict(k)
           \/ \E g \in Grant : Close(g)
  BY <1>3, StepOutside DEF Sent, Posted, Reconciling
<1> QED
  BY <1>2, <1>3 DEF Next

\* What a step leaves of the store: at k the row and the receipt in memory, and
\* on disk those written or what was there; elsewhere memory is as it was and
\* the disk as it was or as memory.
Wrote(k, row, receipt, written, kept) ==
    /\ reservations'[k] = row /\ effects'[k] = receipt
    /\ \/ disk'.reservations[k] = written /\ disk'.effects[k] = kept
       \/ disk'.reservations[k] = disk.reservations[k] /\ disk'.effects[k] = disk.effects[k]
    /\ \A j \in Key \ {k} :
          /\ reservations'[j] = reservations[j] /\ effects'[j] = effects[j]
          /\ \/ disk'.reservations[j] = reservations[j] /\ disk'.effects[j] = effects[j]
             \/ disk'.reservations[j] = disk.reservations[j]
                /\ disk'.effects[j] = disk.effects[j]

(* Functions replaced at one key, in memory and perhaps on disk, are a write. *)
LEMMA Replaced ==
    ASSUME TypeOK, NEW k \in Key, NEW row, NEW receipt, NEW written, NEW kept,
           reservations' = [reservations EXCEPT ![k] = row],
           effects' = [effects EXCEPT ![k] = receipt],
           \/ disk' = disk
           \/ /\ disk'.reservations = [reservations EXCEPT ![k] = written]
              /\ disk'.effects = [effects EXCEPT ![k] = kept]
    PROVE  Wrote(k, row, receipt, written, kept)
  BY DEF Wrote, TypeOK, Store

(* What each step that writes the store leaves of it. *)
LEMMA Writes ==
    ASSUME TypeOK, NEW q \in Req, NEW k, k = Key_(q), NEW row, row = reservations[k]
    PROVE  /\ ReserveFresh(q) \/ ReserveFails(q) =>
                Wrote(k, Taken(GrantOf[q]), effects[k], Taken(GrantOf[q]), effects[k])
           /\ Apply(q) => Wrote(k, AppliedFresh(row), "fresh", AppliedFresh(row), "fresh")
           /\ ApplyFails(q) \/ ApplyFailsTwice(q) =>
                \/ Wrote(k, Unsure(row), "none", Unsure(row), "none")
                \/ Wrote(k, Unsure(row), "none", AppliedFresh(row), "fresh")
           /\ ApplyReconciled(q) =>
                Wrote(k, AppliedReconciled(row), "reconciled",
                         AppliedReconciled(row), "reconciled")
           /\ ApplyReconciledFails(q) =>
                Wrote(k, Unsure(row), "none", AppliedReconciled(row), "reconciled")
           /\ EffectFails(q) => Wrote(k, Unsure(row), effects[k], Unsure(row), effects[k])
<1>0. k \in Key /\ effects = [effects EXCEPT ![k] = effects[k]]
  BY GrantsAssumption DEF Key_, TypeOK
<1>1. ASSUME ReserveFresh(q) \/ ReserveFails(q)
      PROVE  Wrote(k, Taken(GrantOf[q]), effects[k], Taken(GrantOf[q]), effects[k])
  <2>1. /\ reservations' = [reservations EXCEPT ![k] = Taken(GrantOf[q])]
        /\ effects' = effects
    BY <1>1 DEF ReserveFresh, ReserveFails, Reserve
  <2>2. disk' = disk \/ (disk'.reservations = reservations' /\ disk'.effects = effects')
    BY <1>1 DEF ReserveFresh, ReserveFails, PersistOk, PersistThrows, Written
  <2> QED
    BY <1>0, <2>1, <2>2, Replaced
<1>2. ASSUME Apply(q)
      PROVE  Wrote(k, AppliedFresh(row), "fresh", AppliedFresh(row), "fresh")
  <2>1. /\ reservations' = [reservations EXCEPT ![k] = AppliedFresh(row)]
        /\ effects' = [effects EXCEPT ![k] = "fresh"]
        /\ disk'.reservations = reservations' /\ disk'.effects = effects'
    BY <1>2 DEF Apply, Records, PersistOk, Written
  <2> QED
    BY <1>0, <2>1, Replaced
<1>3. ASSUME ApplyFails(q) \/ ApplyFailsTwice(q)
      PROVE  \/ Wrote(k, Unsure(row), "none", Unsure(row), "none")
             \/ Wrote(k, Unsure(row), "none", AppliedFresh(row), "fresh")
  <2>1. /\ reservations' = [reservations EXCEPT ![k] = Unsure(row)]
        /\ effects' = [effects EXCEPT ![k] = "none"]
    BY <1>3 DEF ApplyFails, ApplyFailsTwice, TakesBack
  <2>2. \/ disk' = disk
        \/ disk'.reservations = reservations' /\ disk'.effects = effects'
        \/ /\ disk'.reservations = [reservations EXCEPT ![k] = AppliedFresh(row)]
           /\ disk'.effects = [effects EXCEPT ![k] = "fresh"]
    BY <1>3 DEF ApplyFails, ApplyFailsTwice, Written, With
  <2> QED
    BY <1>0, <2>1, <2>2, Replaced
<1>4. ASSUME ApplyReconciled(q)
      PROVE  Wrote(k, AppliedReconciled(row), "reconciled",
                      AppliedReconciled(row), "reconciled")
  <2>1. /\ reservations' = [reservations EXCEPT ![k] = AppliedReconciled(row)]
        /\ effects' = [effects EXCEPT ![k] = "reconciled"]
        /\ disk'.reservations = reservations' /\ disk'.effects = effects'
    BY <1>4 DEF ApplyReconciled, Records, PersistOk, Written
  <2> QED
    BY <1>0, <2>1, Replaced
<1>5. ASSUME ApplyReconciledFails(q)
      PROVE  Wrote(k, Unsure(row), "none", AppliedReconciled(row), "reconciled")
  <2>1. /\ reservations' = [reservations EXCEPT ![k] = Unsure(row)]
        /\ effects' = [effects EXCEPT ![k] = "none"]
    BY <1>5 DEF ApplyReconciledFails, TakesBack
  <2>2. \/ disk' = disk
        \/ /\ disk'.reservations = [reservations EXCEPT ![k] = AppliedReconciled(row)]
           /\ disk'.effects = [effects EXCEPT ![k] = "reconciled"]
    BY <1>5 DEF ApplyReconciledFails, PersistThrows, With
  <2> QED
    BY <1>0, <2>1, <2>2, Replaced
<1>6. ASSUME EffectFails(q)
      PROVE  Wrote(k, Unsure(row), effects[k], Unsure(row), effects[k])
  <2>1. /\ reservations' = [reservations EXCEPT ![k] = Unsure(row)]
        /\ effects' = effects
    BY <1>6 DEF EffectFails
  <2>2. PersistOk \/ \E how \in Throws : PersistThrows(Written, how)
    BY <1>6 DEF EffectFails
  <2>3. disk' = disk \/ (disk'.reservations = reservations' /\ disk'.effects = effects')
    BY <2>2 DEF PersistOk, PersistThrows, Written
  <2> QED
    BY <1>0, <2>1, <2>3, Replaced
<1> QED
  BY <1>1, <1>2, <1>3, <1>4, <1>5, <1>6

(* How a row is rewritten decides what it says. *)
LEMMA SoundRows ==
    ASSUME NEW row \in Reservation, NEW grant
    PROVE  /\ Sound(Taken(grant), "none")
           /\ Sound(Unsure(row), "none")
           /\ Sound(AppliedReconciled(row), "reconciled")
           /\ row.recovery # "RECONCILE" => Sound(AppliedFresh(row), "fresh")
           /\ Taken(grant).status = "EXECUTING"
           /\ Sound(None, "none") /\ None.status = "NONE"
  BY DEF Reservation, Sound, Taken, Unsure, AppliedReconciled, AppliedFresh, None

(* Two that POSTed stay two. *)
LEMMA StayPosted ==
    ASSUME \A r \in Req : Posted(r) => Posted(r)'
    PROVE  /\ \A k \in Key : TwoPosted(k) => TwoPosted(k)'
           /\ \A r \in Req : OtherPosted(r) => OtherPosted(r)'
  BY DEF TwoPosted, OtherPosted, Key_

(* A write of a row and receipt that agree keeps the rows sound. *)
LEMMA WroteSound ==
    ASSUME RowsSound, \A r \in Req : Posted(r) => Posted(r)', NEW k \in Key,
           NEW row, NEW receipt, NEW written, NEW kept,
           Wrote(k, row, receipt, written, kept),
           TwoPosted(k) \/ (Sound(row, receipt) /\ Sound(written, kept))
    PROVE  RowsSound'
<1> SUFFICES ASSUME NEW j \in Key, ~TwoPosted(j)'
             PROVE  /\ Sound(reservations'[j], effects'[j])
                    /\ Sound(disk'.reservations[j], disk'.effects[j])
  BY DEF RowsSound, Sound
<1>1. /\ ~TwoPosted(j)
      /\ Sound(reservations[j], effects[j]) /\ Sound(disk.reservations[j], disk.effects[j])
  BY StayPosted DEF RowsSound
<1> QED
  BY <1>1 DEF Wrote

(* A write keeps receipts to APPLIED rows when what it writes does. *)
LEMMA WroteReceipts ==
    ASSUME ReceiptApplied, NEW k \in Key,
           NEW row, NEW receipt, NEW written, NEW kept,
           Wrote(k, row, receipt, written, kept),
           receipt # "none" => row.status = "APPLIED",
           kept # "none" => written.status = "APPLIED"
    PROVE  ReceiptApplied'
  BY DEF ReceiptApplied, Wrote

(* A write by a request that POSTed or reconciles, or to a free row, keeps  *)
(* the other requests in step with their rows.                              *)
LEMMA WroteSettling ==
    ASSUME Settling, \A r \in Req : Posted(r) => Posted(r)', NEW q \in Req,
           NEW k \in Key, k = Key_(q), NEW row, NEW receipt, NEW written, NEW kept,
           Wrote(k, row, receipt, written, kept), existed' = existed,
           \A r \in Req \ {q} : pc'[r] = pc[r],
           pc'[q] \in Answered \/ (pc'[q] = "post" /\ row.status = "EXECUTING"),
           \/ row.status = "EXECUTING" /\ reservations[k].status = "NONE"
           \/ row.status \in {"AMBIGUOUS", "APPLIED"} /\ (Settled(k) \/ Posted(q))
    PROVE  Settling'
<1>1. ASSUME NEW r \in Req, Key_(r) \in Key
      PROVE  /\ pc'[r] \in Reconciling => Settled(Key_(r))'
             /\ pc'[r] = "snapshot" /\ ~existed'[r] /\ Settled(Key_(r))' => OtherPosted(r)'
             /\ pc'[r] \in Driving /\ reservations'[Key_(r)].status # "EXECUTING"
                   => OtherPosted(r)'
  <2>1. CASE r = q
    BY <2>1 DEF Answered, Reconciling, Driving, Wrote
  <2>2. CASE r # q /\ Key_(r) # k
    <3>1. pc'[r] = pc[r] /\ reservations'[Key_(r)] = reservations[Key_(r)]
      BY <1>1, <2>2 DEF Wrote
    <3> QED
      BY <2>2, <3>1, StayPosted DEF Settling, Settled, Key_
  <2>3. CASE r # q /\ Key_(r) = k
    <3>1. pc'[r] = pc[r] /\ reservations'[k] = row
      BY <2>3 DEF Wrote
    <3>2. Posted(q) => OtherPosted(r)'
      BY <2>3 DEF OtherPosted, Key_
    <3>3. /\ pc[r] \in Reconciling => Settled(k)
          /\ pc[r] = "snapshot" /\ ~existed[r] /\ Settled(k) => OtherPosted(r)'
          /\ pc[r] \in Driving /\ reservations[k].status # "EXECUTING" => OtherPosted(r)'
      BY <2>3, StayPosted DEF Settling
    <3>4. Settled(Key_(r))' <=> row.status \in {"AMBIGUOUS", "APPLIED"}
      BY <2>3, <3>1 DEF Settled, Key_
    <3> QED
      BY <2>3, <3>1, <3>2, <3>3, <3>4 DEF Settled
  <2> QED
    BY <2>1, <2>2, <2>3
<1> QED
  BY <1>1, GrantsAssumption DEF Settling, Key_

(* A step of one request that leaves the store alone. *)
LEMMA QuietSettling ==
    ASSUME Settling, \A r \in Req : Posted(r) => Posted(r)', NEW q \in Req,
           reservations' = reservations,
           \A r \in Req \ {q} : pc'[r] = pc[r] /\ existed'[r] = existed[r],
           pc'[q] \in Reconciling => Settled(Key_(q)),
           pc'[q] = "snapshot" /\ ~existed'[q] /\ Settled(Key_(q)) => OtherPosted(q),
           pc'[q] \in Driving /\ reservations[Key_(q)].status # "EXECUTING" => OtherPosted(q)
    PROVE  Settling'
<1>1. \A r \in Req : Settled(Key_(r))' <=> Settled(Key_(r))
  BY DEF Settled, Key_
<1>2. \A r \in Req : reservations'[Key_(r)] = reservations[Key_(r)]
  OBVIOUS
<1>3. \A r \in Req : OtherPosted(r) => OtherPosted(r)'
  BY StayPosted
<1>4. ASSUME NEW r \in Req
      PROVE  /\ pc'[r] \in Reconciling => Settled(Key_(r))
             /\ pc'[r] = "snapshot" /\ ~existed'[r] /\ Settled(Key_(r)) => OtherPosted(r)
             /\ pc'[r] \in Driving /\ reservations[Key_(r)].status # "EXECUTING"
                   => OtherPosted(r)
  BY DEF Settling
<1> QED
  BY <1>1, <1>2, <1>3, <1>4 DEF Settling, Key_

(* Such a step keeps what rows and receipts say. *)
LEMMA QuietRows ==
    ASSUME RowsSound, ReceiptApplied, \A r \in Req : Posted(r) => Posted(r)',
           UNCHANGED <<reservations, effects, disk>>
    PROVE  RowsSound' /\ ReceiptApplied'
<1>1. RowsSound'
  BY StayPosted DEF RowsSound, Sound
<1>2. ReceiptApplied'
  BY DEF ReceiptApplied
<1> QED
  BY <1>1, <1>2

(* Every step that leaves the store alone is one of those. *)
LEMMA QuietSteps ==
    ASSUME IInv, Settling, NEW q \in Req,
           \/ EnterDenied(q) \/ EnterOwner(q) \/ EnterReplay(q)
           \/ SnapshotServed(q) \/ SnapshotDenied(q)
           \/ AskReconcile(q) \/ ReconcileRefused(q) \/ AttemptFails(q)
           \/ ReserveShared(q) \/ ReserveDenied(q)
           \/ Post(q) \/ Lands(q) \/ MutateAnswers(q)
           \/ ReconcileUnknown(q) \/ ReconcileClaims(q)
           \/ AwaitFails(q) \/ EffectFailsApplied(q)
    PROVE  /\ UNCHANGED <<up, reservations, effects, disk>>
           /\ \A r \in Req \ {q} : pc'[r] = pc[r] /\ existed'[r] = existed[r]
           /\ pc'[q] = "PASS" => pc[q] = "PASS" \/ effects[Key_(q)] # "none"
           /\ pc'[q] \in Reconciling => Settled(Key_(q))
           /\ pc'[q] = "snapshot" /\ ~existed'[q] /\ Settled(Key_(q)) => OtherPosted(q)
           /\ pc'[q] \in Driving /\ reservations[Key_(q)].status # "EXECUTING"
                 => OtherPosted(q)
<1>0. TypeOK
  BY DEF IInv
<1>1. CASE EnterDenied(q) \/ SnapshotDenied(q) \/ ReconcileRefused(q) \/ ReserveDenied(q)
           \/ ReconcileUnknown(q) \/ AwaitFails(q) \/ EffectFailsApplied(q)
  BY <1>0, <1>1 DEF EnterDenied, SnapshotDenied, ReconcileRefused, ReserveDenied,
     ReconcileUnknown, AwaitFails, EffectFailsApplied, Answer, Idle, store, TypeOK,
     Reconciling, Driving
<1>2. CASE AttemptFails(q) \/ EnterReplay(q)
  BY <1>0, <1>2 DEF AttemptFails, EnterReplay, Answer, Idle, store, TypeOK, Reconciling, Driving
<1>3. CASE EnterOwner(q)
  BY <1>0, <1>3 DEF EnterOwner, Moves, Idle, store, TypeOK, Reconciling, Driving, Settled
<1>4. CASE AskReconcile(q)
  BY <1>0, <1>4 DEF AskReconcile, Recovers, Ambiguous, Moves, Idle, store, TypeOK,
     Reconciling, Driving, Settled
<1>5. CASE ReserveShared(q)
  <2>1. pc[q] = "snapshot" /\ ~existed[q] /\ Settled(Key_(q))
    BY <1>5 DEF ReserveShared, Ready, Recovers, Ambiguous, Settled
  <2>2. OtherPosted(q)
    BY <2>1 DEF Settling
  <2> QED
    BY <1>0, <1>5, <2>2 DEF ReserveShared, Moves, Idle, store, TypeOK, Reconciling
<1>6. CASE SnapshotServed(q) \/ Lands(q)
  BY <1>0, <1>6 DEF SnapshotServed, Lands, Idle, store, Settling
<1>7. CASE Post(q) \/ MutateAnswers(q) \/ ReconcileClaims(q)
  BY <1>0, <1>7 DEF Post, MutateAnswers, ReconcileClaims, Moves, Idle, store, TypeOK,
     Reconciling, Driving, Settling
<1> QED
  BY <1>1, <1>2, <1>3, <1>4, <1>5, <1>6, <1>7

\* What the rows and the receipts say of the past.
Past == Settling /\ RowsSound /\ ReceiptApplied

(* The steps that leave the store alone. *)
LEMMA PastQuiet ==
    ASSUME IInv, Sent, Past, [Next]_vars, NEW q \in Req,
           \/ EnterDenied(q) \/ EnterOwner(q) \/ EnterReplay(q)
           \/ SnapshotServed(q) \/ SnapshotDenied(q)
           \/ AskReconcile(q) \/ ReconcileRefused(q) \/ AttemptFails(q)
           \/ ReserveShared(q) \/ ReserveDenied(q)
           \/ Post(q) \/ Lands(q) \/ MutateAnswers(q)
           \/ ReconcileUnknown(q) \/ ReconcileClaims(q)
           \/ AwaitFails(q) \/ EffectFailsApplied(q)
    PROVE  Past'
<1>1. \A r \in Req : Posted(r) => Posted(r)'
  BY Onward DEF IInv
<1>2. Settling'
  BY <1>1, QuietSteps, QuietSettling DEF Past
<1>3. UNCHANGED <<reservations, effects, disk>>
  BY QuietSteps DEF Past
<1>4. RowsSound' /\ ReceiptApplied'
  BY <1>1, <1>3, QuietRows DEF Past
<1> QED
  BY <1>2, <1>4 DEF Past

(* The steps that write the store. *)
LEMMA PastWrites ==
    ASSUME IInv, Sent, Past, [Next]_vars, NEW q \in Req,
           \/ ReserveFresh(q) \/ ReserveFails(q)
           \/ Apply(q) \/ ApplyFails(q) \/ ApplyFailsTwice(q)
           \/ ApplyReconciled(q) \/ ApplyReconciledFails(q) \/ EffectFails(q)
    PROVE  Past'
<1> DEFINE k == Key_(q)
           row == reservations[k]
<1>0. /\ TypeOK /\ k \in Key /\ row \in Reservation /\ effects[k] \in Receipt
      /\ Taken(GrantOf[q]).status = "EXECUTING"
      /\ Unsure(row).status = "AMBIGUOUS"
      /\ AppliedFresh(row).status = "APPLIED"
      /\ AppliedReconciled(row).status = "APPLIED"
  BY GrantsAssumption, RowShapes, SoundRows DEF IInv, TypeOK, Key_
<1>1. \A r \in Req : Posted(r) => Posted(r)'
  BY <1>0, Onward
<1>2. up /\ existed' = existed /\ \A r \in Req \ {q} : pc'[r] = pc[r]
  <2>1. \A r \in Req \ {q} : pc'[r] = pc[r]
    BY <1>0, StepOfOne DEF Execute
  <2>2. CASE ReserveFresh(q) \/ ReserveFails(q)
    BY <2>1, <2>2 DEF ReserveFresh, ReserveFails, Reserve, Ready
  <2>3. CASE Apply(q) \/ ApplyFails(q) \/ ApplyFailsTwice(q)
    BY <2>1, <2>3 DEF Apply, Records, ApplyFails, ApplyFailsTwice, ReadbackConfirms
  <2>4. CASE ApplyReconciled(q) \/ ApplyReconciledFails(q) \/ EffectFails(q)
    BY <2>1, <2>4 DEF ApplyReconciled, Records, ApplyReconciledFails, ReconcileConfirms,
       EffectFails
  <2> QED
    BY <2>2, <2>3, <2>4
<1>3. CASE ReserveFresh(q) \/ ReserveFails(q)
  <2>1. /\ row.status = "NONE" /\ pc'[q] \in {"post", "FAILED"}
        /\ pc[q] # "PASS"
    BY <1>0, <1>3 DEF ReserveFresh, ReserveFails, Reserve, Ready, Moves, Answer, TypeOK
  <2>2. effects[k] = "none"
    BY <1>0, <2>1 DEF Past, ReceiptApplied
  <2>3. Wrote(k, Taken(GrantOf[q]), effects[k], Taken(GrantOf[q]), effects[k])
    BY <1>0, <1>3, Writes
  <2>4. Sound(Taken(GrantOf[q]), effects[k])
    BY <1>0, <2>2, SoundRows
  <2>5. RowsSound'
    BY <1>0, <1>1, <2>3, <2>4, WroteSound DEF Past
  <2>6. ReceiptApplied'
    BY <1>0, <2>2, <2>3, WroteReceipts DEF Past
  <2>7. Settling'
    BY <1>0, <1>1, <1>2, <2>1, <2>3, WroteSettling DEF Past, Answered
  <2> QED
    BY <2>5, <2>6, <2>7 DEF Past
<1>4. CASE Apply(q) \/ ApplyFails(q) \/ ApplyFailsTwice(q)
  <2>1. pc[q] = "readback" /\ Posted(q) /\ pc'[q] \in {"PASS", "FAILED"}
    BY <1>0, <1>4 DEF Apply, Records, ApplyFails, ApplyFailsTwice, ReadbackConfirms, Answer,
       TypeOK, Posted
  <2>2. TwoPosted(k) \/ Sound(AppliedFresh(row), "fresh")
    <3>1. row.status = "EXECUTING" \/ OtherPosted(q)
      BY <2>1 DEF Past, Settling, Driving
    <3>2. CASE OtherPosted(q)
      BY <2>1, <3>2 DEF OtherPosted, TwoPosted
    <3>3. CASE row.status = "EXECUTING"
      <4>1. TwoPosted(k) \/ row.recovery # "RECONCILE"
        BY <1>0, <3>3 DEF Past, RowsSound, Sound
      <4> QED
        BY <1>0, <4>1, SoundRows
    <3> QED
      BY <3>1, <3>2, <3>3
  <2>3. Sound(Unsure(row), "none")
    BY <1>0, SoundRows
  <2>4. PICK new, written \in {AppliedFresh(row), Unsure(row)},
             receipt, kept \in {"fresh", "none"} :
           /\ Wrote(k, new, receipt, written, kept)
           /\ receipt = "fresh" <=> new = AppliedFresh(row)
           /\ kept = "fresh" <=> written = AppliedFresh(row)
           /\ \/ pc'[q] = "FAILED"
              \/ pc'[q] = "PASS" /\ receipt = "fresh" /\ disk'.effects[k] = "fresh"
    <3>0. AppliedFresh(row) # Unsure(row)
      BY <1>0
    <3>1. CASE Apply(q)
      <4>1. Wrote(k, AppliedFresh(row), "fresh", AppliedFresh(row), "fresh")
        BY <1>0, <3>1, Writes
      <4>2. pc'[q] = "PASS" /\ disk'.effects[k] = "fresh"
        BY <1>0, <3>1 DEF Apply, Records, PersistOk, Written, Answer, TypeOK
      <4> QED
        BY <3>0, <4>1, <4>2
    <3>2. CASE ApplyFails(q) \/ ApplyFailsTwice(q)
      <4>1. \/ Wrote(k, Unsure(row), "none", Unsure(row), "none")
            \/ Wrote(k, Unsure(row), "none", AppliedFresh(row), "fresh")
        BY <1>0, <3>2, Writes
      <4>2. pc'[q] = "FAILED"
        BY <1>0, <3>2 DEF ApplyFails, ApplyFailsTwice, Answer, TypeOK
      <4> QED
        BY <3>0, <4>1, <4>2
    <3> QED
      BY <1>4, <3>1, <3>2
  <2>5. RowsSound'
    <3>1. TwoPosted(k) \/ (Sound(new, receipt) /\ Sound(written, kept))
      BY <2>2, <2>3, <2>4
    <3> QED
      BY <1>0, <1>1, <2>4, <3>1, WroteSound DEF Past
  <2>6. ReceiptApplied'
    BY <1>0, <2>4, WroteReceipts DEF Past
  <2>7. Settling'
    <3>1. new.status \in {"AMBIGUOUS", "APPLIED"} /\ pc'[q] \in Answered
      BY <1>0, <2>1, <2>4 DEF Answered
    <3> QED
      BY <1>0, <1>1, <1>2, <2>1, <2>4, <3>1, WroteSettling DEF Past
  <2> QED
    BY <2>5, <2>6, <2>7 DEF Past
<1>5. CASE ApplyReconciled(q) \/ ApplyReconciledFails(q)
  <2>1. pc[q] \in Reconciling /\ pc[q] # "PASS"
    BY <1>5 DEF ApplyReconciled, ApplyReconciledFails, ReconcileConfirms, Reconciling
  <2>2. Settled(k)
    BY <2>1 DEF Past, Settling
  <2>3. Sound(Unsure(row), "none") /\ Sound(AppliedReconciled(row), "reconciled")
    BY <1>0, SoundRows
  <2>4. PICK new \in {AppliedReconciled(row), Unsure(row)}, receipt \in {"reconciled", "none"} :
           /\ Wrote(k, new, receipt, AppliedReconciled(row), "reconciled")
           /\ receipt = "reconciled" <=> new = AppliedReconciled(row)
           /\ \/ pc'[q] = "FAILED"
              \/ pc'[q] = "PASS" /\ receipt = "reconciled" /\ disk'.effects[k] = "reconciled"
    <3>0. AppliedReconciled(row) # Unsure(row)
      BY <1>0
    <3>1. CASE ApplyReconciled(q)
      <4>1. Wrote(k, AppliedReconciled(row), "reconciled", AppliedReconciled(row), "reconciled")
        BY <1>0, <3>1, Writes
      <4>2. pc'[q] = "PASS" /\ disk'.effects[k] = "reconciled"
        BY <1>0, <3>1 DEF ApplyReconciled, Records, PersistOk, Written, Answer, TypeOK
      <4> QED
        BY <3>0, <4>1, <4>2
    <3>2. CASE ApplyReconciledFails(q)
      <4>1. Wrote(k, Unsure(row), "none", AppliedReconciled(row), "reconciled")
        BY <1>0, <3>2, Writes
      <4>2. pc'[q] = "FAILED"
        BY <1>0, <3>2 DEF ApplyReconciledFails, Answer, TypeOK
      <4> QED
        BY <3>0, <4>1, <4>2
    <3> QED
      BY <1>5, <3>1, <3>2
  <2>5. RowsSound'
    <3>1. Sound(new, receipt) /\ Sound(AppliedReconciled(row), "reconciled")
      BY <2>3, <2>4
    <3> QED
      BY <1>0, <1>1, <2>4, <3>1, WroteSound DEF Past
  <2>6. ReceiptApplied'
    BY <1>0, <2>4, WroteReceipts DEF Past
  <2>7. Settling'
    <3>1. new.status \in {"AMBIGUOUS", "APPLIED"} /\ pc'[q] \in Answered
      BY <1>0, <2>4 DEF Answered
    <3> QED
      BY <1>0, <1>1, <1>2, <2>2, <2>4, <3>1, WroteSettling DEF Past
  <2> QED
    BY <2>5, <2>6, <2>7 DEF Past
<1>6. CASE EffectFails(q)
  <2>1. /\ pc[q] \in {"mutate", "readback"} /\ effects[k] = "none"
        /\ pc'[q] = "FAILED" /\ pc[q] # "PASS"
    BY <1>0, <1>6 DEF EffectFails, Answer, TypeOK
  <2>2. Posted(q)
    BY <2>1 DEF Sent
  <2>3. Wrote(k, Unsure(row), effects[k], Unsure(row), effects[k])
    BY <1>0, <1>6, Writes
  <2>4. Sound(Unsure(row), effects[k])
    BY <1>0, <2>1, SoundRows
  <2>5. RowsSound'
    BY <1>0, <1>1, <2>3, <2>4, WroteSound DEF Past
  <2>6. ReceiptApplied'
    BY <1>0, <2>1, <2>3, WroteReceipts DEF Past
  <2>7. Settling'
    BY <1>0, <1>1, <1>2, <2>1, <2>2, <2>3, WroteSettling DEF Past, Answered
  <2> QED
    BY <2>5, <2>6, <2>7 DEF Past
<1> QED
  BY <1>3, <1>4, <1>5, <1>6

(* The rest of the system: controls, crash and restart. *)
LEMMA PastOutside ==
    ASSUME IInv, Sent, Past, [Next]_vars,
           \/ UNCHANGED vars \/ Crash \/ Restart
           \/ \E k \in Key : Stop(k) \/ Revoke(k) \/ Evict(k)
           \/ \E g \in Grant : Close(g)
    PROVE  Past'
<1>0. /\ TypeOK /\ NoUndurableReceipt
      /\ \A r \in Req : pc[r] \in Waiting \cup {"post"} => up
      /\ \A r \in Req : Key_(r) \in Key
  BY GrantsAssumption DEF IInv, Phases, Key_
<1>1. \A r \in Req : Posted(r) => Posted(r)'
  BY <1>0, Onward
<1>2. CASE \/ UNCHANGED vars
           \/ \E k \in Key : Stop(k) \/ Revoke(k) \/ Evict(k)
           \/ \E g \in Grant : Close(g)
  <2>1. UNCHANGED <<up, reservations, effects, disk, pc, existed>>
    BY <1>2 DEF vars, store, Stop, Revoke, Evict, Close, Idle
  <2>2. Settling'
    <3>1. \A r \in Req : OtherPosted(r) => OtherPosted(r)'
      BY <1>1, StayPosted
    <3> QED
      BY <2>1, <3>1 DEF Past, Settling, Settled, Key_
  <2>3. RowsSound' /\ ReceiptApplied'
    BY <1>1, <2>1, QuietRows DEF Past
  <2> QED
    BY <2>2, <2>3 DEF Past
<1>3. CASE Crash
  <2>1. /\ ~up' /\ disk' = disk
        /\ \A k \in Key : reservations'[k] = None /\ effects'[k] = "none"
        /\ \A r \in Req : pc'[r] \notin Waiting \cup {"post"}
        /\ \A r \in Req : pc'[r] = "PASS" => pc[r] = "PASS"
    BY <1>3 DEF Crash, TypeOK, Waiting, Reconciling
  <2>2. Settling'
    BY <2>1 DEF Settling, Waiting, Reconciling, Driving
  <2>3. RowsSound'
    <3>1. \A k \in Key : TwoPosted(k) => TwoPosted(k)'
      BY <1>1, StayPosted
    <3>2. Sound(None, "none")
      BY SoundRows, NoneShape
    <3>3. ASSUME NEW k \in Key
          PROVE  (Sound(reservations[k], effects[k]))'
      BY <2>1, <3>2 DEF Sound
    <3>4. ASSUME NEW k \in Key
          PROVE  TwoPosted(k) \/ (Sound(disk.reservations[k], disk.effects[k]))'
      BY <2>1 DEF Past, RowsSound, Sound
    <3> QED
      BY <3>1, <3>3, <3>4 DEF RowsSound
  <2>4. ReceiptApplied'
    BY <2>1 DEF Past, ReceiptApplied
  <2> QED
    BY <2>2, <2>3, <2>4 DEF Past
<1>4. CASE Restart
  <2>1. /\ pc' = pc /\ up' /\ ~up
        /\ \A k \in Key : /\ reservations'[k] = Recovered(disk.reservations[k])
                          /\ effects'[k] = disk.effects[k]
                          /\ disk'.reservations[k] = Recovered(disk.reservations[k])
                          /\ disk'.effects[k] = disk.effects[k]
    BY <1>4 DEF Restart, PersistOk, Written
  <2>2. Settling'
    BY <1>0, <2>1 DEF Settling, Waiting, Reconciling, Driving
  <2>3. RowsSound'
    <3>1. \A k \in Key : TwoPosted(k) => TwoPosted(k)'
      BY <1>1, StayPosted
    <3>2. ASSUME NEW k \in Key, ~TwoPosted(k)
          PROVE  Sound(Recovered(disk.reservations[k]), disk.effects[k])
      <4>1. Sound(disk.reservations[k], disk.effects[k])
        BY <3>2 DEF Past, RowsSound
      <4>2. CASE disk.reservations[k].status = "EXECUTING"
        <5>1. disk.effects[k] = "none" /\ disk.reservations[k] \in Reservation
          BY <1>0, <4>1, <4>2 DEF Sound, TypeOK, Store
        <5> QED
          BY <4>2, <5>1, SoundRows DEF Recovered
      <4>3. CASE disk.reservations[k].status # "EXECUTING"
        BY <4>1, <4>3 DEF Recovered
      <4> QED
        BY <4>2, <4>3
    <3> QED
      BY <2>1, <3>1, <3>2 DEF RowsSound, Sound
  <2>4. ReceiptApplied'
    <3>1. \A k \in Key : disk.reservations[k].status = "APPLIED"
                            => Recovered(disk.reservations[k]).status = "APPLIED"
      BY DEF Recovered
    <3> QED
      BY <2>1, <3>1 DEF Past, ReceiptApplied
  <2> QED
    BY <2>2, <2>3, <2>4 DEF Past
<1> QED
  BY <1>2, <1>3, <1>4

(* What the rows say of the past holds in every reachable state. *)
LEMMA PastHolds == Spec => [](Sent /\ Past)
<1>1. Init => Sent /\ Past
  <2> SUFFICES ASSUME Init PROVE Sent /\ Past
    OBVIOUS
  <2>1. /\ \A k \in Key : /\ reservations[k] = None /\ disk.reservations[k] = None
                          /\ effects[k] = "none" /\ disk.effects[k] = "none"
        /\ \A r \in Req : pc[r] = "idle"
    BY DEF Init
  <2>2. Sent /\ Settling
    BY <2>1 DEF Sent, Settling, Reconciling, Driving
  <2>3. RowsSound /\ ReceiptApplied
    BY <2>1, SoundRows, NoneShape DEF RowsSound, ReceiptApplied
  <2> QED
    BY <2>2, <2>3 DEF Past
<1>2. IInv /\ Sent /\ Past /\ [Next]_vars => Sent' /\ Past'
  <2>1. IInv => TypeOK
    BY DEF IInv
  <2> QED
    BY <2>1, SentStep, PastQuiet, PastWrites, PastOutside DEF Next, Execute
<1> QED
  BY <1>1, <1>2, Inductive, PTL DEF Spec

(* What the gate writes, the next start accepts, whatever storage failed,   *)
(* unless two requests came to share a reservation.                         *)
THEOREM StoreAlwaysLoads == Spec => []StoreLoads
<1>1. IInv /\ Past => StoreLoads
  <2> SUFFICES ASSUME IInv, Past, NEW k \in Key, ~Shared(k)
               PROVE  RowLoads(disk, k)
    BY DEF StoreLoads
  <2>1. Sound(disk.reservations[k], disk.effects[k])
    BY DEF Past, RowsSound, TwoPosted, Shared
  <2>2. disk.reservations[k].grant \in Grant /\ KindOf[disk.reservations[k].grant] = "owner"
          => disk.reservations[k].grant \in disk.consumed
    BY DEF IInv, Leased
  <2> QED
    BY <2>1, <2>2 DEF RowLoads, Sound
<1> QED
  BY <1>1, Inductive, PastHolds, PTL

(* A step keeps the receipt of an answered PASS, or is that of a second      *)
(* request of the key that fails to write its own.                           *)
LEMMA PassStep ==
    ASSUME IInv, Past, [Next]_vars, NEW r \in Req, pc'[r] = "PASS",
           pc[r] = "PASS" => ReceiptStands(Key_(r)),
           ~(\E q \in Req \ {r} : Key_(q) = Key_(r) /\ FailsToRecord(q))
    PROVE  ReceiptStands(Key_(r))'
<1> DEFINE k == Key_(r)
<1>0. TypeOK /\ NoUndurableReceipt /\ k \in Key /\ \A q \in Req : Key_(q) \in Key
  BY GrantsAssumption DEF IInv, Key_
<1>s. SUFFICES disk'.effects[k] # "none" /\ (up' => effects'[k] # "none")
  BY DEF ReceiptStands, Key_
<1>1. ASSUME NEW q \in Req,
             \/ EnterDenied(q) \/ EnterOwner(q) \/ EnterReplay(q)
             \/ SnapshotServed(q) \/ SnapshotDenied(q)
             \/ AskReconcile(q) \/ ReconcileRefused(q) \/ AttemptFails(q)
             \/ ReserveShared(q) \/ ReserveDenied(q)
             \/ Post(q) \/ Lands(q) \/ MutateAnswers(q)
             \/ ReconcileUnknown(q) \/ ReconcileClaims(q)
             \/ AwaitFails(q) \/ EffectFailsApplied(q)
      PROVE  disk'.effects[k] # "none" /\ (up' => effects'[k] # "none")
  <2>1. /\ UNCHANGED <<up, reservations, effects, disk>>
        /\ \A p \in Req \ {q} : pc'[p] = pc[p]
        /\ pc'[q] = "PASS" => pc[q] = "PASS" \/ effects[Key_(q)] # "none"
    BY <1>1, QuietSteps DEF Past
  <2>2. CASE pc[r] = "PASS"
    BY <2>1, <2>2 DEF ReceiptStands
  <2>3. CASE pc[r] # "PASS"
    <3>1. effects[k] # "none"
      BY <2>1, <2>3
    <3> QED
      BY <1>0, <2>1, <3>1 DEF NoUndurableReceipt
  <2> QED
    BY <2>2, <2>3
<1>2. ASSUME NEW q \in Req, q # r, up, pc'[r] = pc[r],
             NEW row, NEW receipt, NEW written, NEW kept,
             Wrote(Key_(q), row, receipt, written, kept),
             k = Key_(q) => receipt # "none" /\ kept # "none"
      PROVE  disk'.effects[k] # "none" /\ (up' => effects'[k] # "none")
  <2>1. disk.effects[k] # "none" /\ effects[k] # "none"
    BY <1>2 DEF ReceiptStands
  <2> QED
    BY <1>0, <1>2, <2>1 DEF Wrote
<1>3. ASSUME NEW q \in Req, Apply(q) \/ ApplyReconciled(q)
      PROVE  disk'.effects[k] # "none" /\ (up' => effects'[k] # "none")
  <2>1. /\ up /\ disk'.effects = effects'
        /\ \E how \in {"fresh", "reconciled"} :
              effects' = [effects EXCEPT ![Key_(q)] = how]
    BY <1>3 DEF Apply, ApplyReconciled, ReadbackConfirms, ReconcileConfirms, Records,
       PersistOk, Written
  <2>2. CASE Key_(q) = k
    BY <1>0, <2>1, <2>2 DEF TypeOK
  <2>3. CASE Key_(q) # k
    <3>1. q # r /\ pc[r] = "PASS"
      BY <1>0, <1>3, <2>3, StepOfOne DEF Execute
    <3>2. effects[k] # "none"
      BY <2>1, <3>1 DEF ReceiptStands
    <3> QED
      BY <1>0, <2>1, <2>3, <3>2 DEF TypeOK
  <2> QED
    BY <2>2, <2>3
<1>4. ASSUME NEW q \in Req, ReserveFresh(q) \/ ReserveFails(q) \/ EffectFails(q)
      PROVE  disk'.effects[k] # "none" /\ (up' => effects'[k] # "none")
  <2>1. /\ up /\ q # r /\ pc'[r] = pc[r]
    <3>1. up /\ pc'[q] \in {"post", "FAILED"}
      BY <1>0, <1>4 DEF ReserveFresh, ReserveFails, EffectFails, Reserve, Ready, Moves,
         Answer, TypeOK
    <3> QED
      BY <1>0, <1>4, <3>1, StepOfOne DEF Execute
  <2>2. \E row, written : Wrote(Key_(q), row, effects[Key_(q)], written, effects[Key_(q)])
    BY <1>0, <1>4, Writes
  <2>3. effects[k] # "none"
    BY <2>1 DEF ReceiptStands
  <2> QED
    BY <1>2, <2>1, <2>2, <2>3
<1>5. ASSUME NEW q \in Req, ApplyFails(q) \/ ApplyFailsTwice(q) \/ ApplyReconciledFails(q)
      PROVE  disk'.effects[k] # "none" /\ (up' => effects'[k] # "none")
  <2>1. up /\ q # r /\ pc'[r] = pc[r]
    <3>1. up /\ pc'[q] = "FAILED"
      BY <1>0, <1>5 DEF ApplyFails, ApplyFailsTwice, ApplyReconciledFails,
         ReadbackConfirms, ReconcileConfirms, Answer, TypeOK
    <3> QED
      BY <1>0, <1>5, <3>1, StepOfOne DEF Execute
  <2>2. Key_(q) # k
    BY <1>5, <2>1 DEF FailsToRecord
  <2>3. \E row, receipt, written, kept : Wrote(Key_(q), row, receipt, written, kept)
    BY <1>0, <1>5, Writes
  <2> QED
    BY <1>2, <2>1, <2>2, <2>3
<1>6. CASE \/ UNCHANGED vars
           \/ \E j \in Key : Stop(j) \/ Revoke(j) \/ Evict(j)
           \/ \E g \in Grant : Close(g)
  BY <1>6 DEF vars, store, Stop, Revoke, Evict, Close, Idle, ReceiptStands
<1>7. CASE Crash
  <2>1. ~up' /\ disk' = disk /\ (pc'[r] = "PASS" => pc[r] = "PASS")
    BY <1>0, <1>7 DEF Crash, TypeOK
  <2> QED
    BY <2>1 DEF ReceiptStands
<1>8. CASE Restart
  BY <1>0, <1>8 DEF Restart, PersistOk, Written, ReceiptStands
<1> QED
  BY <1>1, <1>3, <1>4, <1>5, <1>6, <1>7, <1>8 DEF Next, Execute

(* The receipt of an answered PASS stands through every step but the one in  *)
(* which a second request of the key confirms the effect and fails to write  *)
(* its own receipt.                                                          *)
THEOREM PassStaysDurable == Spec => PassIsDurable
<1>1. IInv /\ Past /\ [Next]_vars =>
        [\A r \in Req : pc'[r] = "PASS" /\ (pc[r] = "PASS" => ReceiptStands(Key_(r))) =>
            \/ ReceiptStands(Key_(r))'
            \/ \E q \in Req \ {r} : Key_(q) = Key_(r) /\ FailsToRecord(q)]_vars
  BY PassStep
<1> QED
  BY <1>1, Inductive, PastHolds, PTL DEF Spec, PassIsDurable

\* With storage that never fails, what is EXECUTING has its driver.
Driven == MaxFaults = 0 => ExecutingIsDriven

(* A driver goes on until its reservation is no longer EXECUTING. *)
LEMMA DrivenStep == IInv /\ Past /\ Driven /\ [Next]_vars => Driven'
<1> SUFFICES ASSUME IInv, Past, ExecutingIsDriven, [Next]_vars, MaxFaults = 0,
                    NEW k \in Key, reservations'[k].status = "EXECUTING"
             PROVE  \E r \in Req : Key_(r) = k /\ pc'[r] \in Driving
  BY DEF Driven, ExecutingIsDriven, Key_
<1>0. TypeOK /\ reservations[k] \in Reservation /\ faults = 0
  BY DEF IInv, TypeOK
<1>1. ASSUME NEW q \in Req,
             \/ EnterDenied(q) \/ EnterOwner(q) \/ EnterReplay(q)
             \/ SnapshotServed(q) \/ SnapshotDenied(q)
             \/ AskReconcile(q) \/ ReconcileRefused(q) \/ AttemptFails(q)
             \/ ReserveShared(q) \/ ReserveDenied(q)
             \/ Post(q) \/ Lands(q) \/ MutateAnswers(q)
             \/ ReconcileUnknown(q) \/ ReconcileClaims(q)
             \/ AwaitFails(q) \/ EffectFailsApplied(q)
      PROVE  \E r \in Req : Key_(r) = k /\ pc'[r] \in Driving
  <2>1. /\ reservations' = reservations
        /\ \A r \in Req \ {q} : pc'[r] = pc[r]
    BY <1>1, QuietSteps DEF Past
  <2>2. PICK r \in Req : Key_(r) = k /\ pc[r] \in Driving
    BY <2>1 DEF ExecutingIsDriven
  <2>3. CASE r # q
    BY <2>1, <2>2, <2>3
  <2>4. CASE r = q
    <3>1. effects[k] = "none"
      BY <2>1 DEF Past, ReceiptApplied
    <3>2. CASE Post(q) \/ Lands(q) \/ MutateAnswers(q)
      BY <1>0, <2>2, <2>4, <3>2 DEF Post, Lands, MutateAnswers, Moves, TypeOK, Driving
    <3>3. CASE \/ EnterDenied(q) \/ EnterOwner(q) \/ EnterReplay(q)
               \/ SnapshotServed(q) \/ SnapshotDenied(q)
               \/ AskReconcile(q) \/ ReconcileRefused(q) \/ AttemptFails(q)
               \/ ReserveShared(q) \/ ReserveDenied(q)
      BY <2>2, <2>4, <3>3 DEF EnterDenied, EnterOwner, EnterReplay, SnapshotServed,
         SnapshotDenied, AskReconcile, ReconcileRefused, AttemptFails, ReserveShared,
         ReserveDenied, Ready, Driving
    <3>4. CASE ReconcileUnknown(q) \/ ReconcileClaims(q) \/ AwaitFails(q) \/ EffectFailsApplied(q)
      BY <2>2, <2>4, <3>1, <3>4 DEF ReconcileUnknown, ReconcileClaims, AwaitFails,
         EffectFailsApplied, Driving, Reconciling
    <3> QED
      BY <1>1, <3>2, <3>3, <3>4
  <2> QED
    BY <2>3, <2>4
<1>2. ASSUME NEW q \in Req,
             \/ ReserveFresh(q) \/ Apply(q) \/ ApplyReconciled(q) \/ EffectFails(q)
      PROVE  \E r \in Req : Key_(r) = k /\ pc'[r] \in Driving
  <2>1. \A r \in Req \ {q} : pc'[r] = pc[r]
    BY <1>0, <1>2, StepOfOne DEF Execute
  <2>2. CASE Key_(q) = k
    <3>1. CASE ReserveFresh(q)
      BY <1>0, <2>2, <3>1 DEF ReserveFresh, Moves, TypeOK, Driving
    <3>2. CASE Apply(q) \/ ApplyReconciled(q) \/ EffectFails(q)
      BY <1>0, <2>2, <3>2, RowShapes DEF Apply, ApplyReconciled, Records, EffectFails, TypeOK
    <3> QED
      BY <1>2, <3>1, <3>2
  <2>3. CASE Key_(q) # k
    <3>1. reservations'[k] = reservations[k]
      BY <1>0, <1>2, <2>3 DEF ReserveFresh, Reserve, Apply, ApplyReconciled, Records,
         EffectFails, TypeOK
    <3> QED
      BY <2>1, <2>3, <3>1 DEF ExecutingIsDriven
  <2> QED
    BY <2>2, <2>3
<1>3. ASSUME NEW q \in Req,
             \/ ReserveFails(q) \/ ApplyFails(q) \/ ApplyFailsTwice(q) \/ ApplyReconciledFails(q)
      PROVE  FALSE
  BY <1>0, <1>3 DEF ReserveFails, ApplyFails, ApplyFailsTwice, ApplyReconciledFails,
     PersistThrows
<1>4. CASE \/ UNCHANGED vars
           \/ \E j \in Key : Stop(j) \/ Revoke(j) \/ Evict(j)
           \/ \E g \in Grant : Close(g)
  BY <1>4 DEF vars, store, Stop, Revoke, Evict, Close, Idle, ExecutingIsDriven
<1>5. CASE Crash
  BY <1>5, NoneShape DEF Crash
<1>6. CASE Restart
  BY <1>0, <1>6, RowShapes DEF Restart, TypeOK, Store
<1> QED
  BY <1>1, <1>2, <1>3, <1>4, <1>5, <1>6 DEF Next, Execute

(* While nothing fails to be written, no reservation is EXECUTING without a *)
(* request that drives it, through crashes and restarts.                    *)
THEOREM NoneStuck == ASSUME MaxFaults = 0 PROVE Spec => []ExecutingIsDriven
<1>1. Init => Driven
  BY NoneShape DEF Init, Driven, ExecutingIsDriven
<1>2. Driven => ExecutingIsDriven
  BY DEF Driven
<1>3. IInv /\ Past /\ Driven /\ [Next]_vars => Driven'
  BY DrivenStep
<1> QED
  BY <1>1, <1>2, <1>3, Inductive, PastHolds, PTL DEF Spec

-----------------------------------------------------------------------------
(* The abstract dispatch *)

\* A reservation is filed under the operation its authority is for.
Filed ==
    \A k \in Key :
        /\ reservations[k].grant \in Grant => KeyOf[reservations[k].grant] = k
        /\ disk.reservations[k].grant \in Grant => KeyOf[disk.reservations[k].grant] = k

Storing(q) ==
    \/ ReserveFresh(q) \/ ReserveFails(q) \/ Apply(q) \/ ApplyFails(q) \/ ApplyFailsTwice(q)
    \/ ApplyReconciled(q) \/ ApplyReconciledFails(q) \/ EffectFails(q)

Quiet(q) ==
    \/ EnterDenied(q) \/ EnterOwner(q) \/ SnapshotServed(q) \/ SnapshotDenied(q)
    \/ AskReconcile(q) \/ ReconcileRefused(q) \/ AttemptFails(q) \/ ReserveDenied(q)
    \/ MutateAnswers(q) \/ ReconcileUnknown(q) \/ ReconcileClaims(q)
    \/ AwaitFails(q) \/ EffectFailsApplied(q)

(* A request that writes the store rewrites its own key's row, for whom it is *)
(* already, or for its own authority when the key is free.                    *)
LEMMA Keeps ==
    ASSUME TypeOK, NEW q \in Req, Storing(q)
    PROVE  /\ up /\ up'
           /\ \E row, receipt, written, kept :
                /\ Wrote(Key_(q), row, receipt, written, kept)
                /\ row.grant = written.grant
                /\ \/ row.grant = reservations[Key_(q)].grant
                   \/ row.grant = GrantOf[q] /\ reservations[Key_(q)].status = "NONE"
<1> DEFINE k == Key_(q)
           row == reservations[k]
<1>0. k \in Key /\ row \in Reservation /\ GrantOf[q] \in Grant
  BY GrantsAssumption DEF Key_, TypeOK
<1>1. up /\ up'
  BY DEF Storing, ReserveFresh, ReserveFails, Reserve, Ready, Apply, ApplyFails,
     ApplyFailsTwice, ReadbackConfirms, Records, ApplyReconciled, ApplyReconciledFails,
     ReconcileConfirms, EffectFails
<1>2. /\ Unsure(row).grant = row.grant /\ AppliedFresh(row).grant = row.grant
      /\ AppliedReconciled(row).grant = row.grant /\ Taken(GrantOf[q]).grant = GrantOf[q]
  BY <1>0, RowShapes, TakenShape
<1>3. ReserveFresh(q) \/ ReserveFails(q) => row.status = "NONE"
  BY DEF ReserveFresh, ReserveFails, Reserve
<1> HIDE DEF k
<1>4. k = Key_(q)
  BY DEF k
<1>5. /\ ReserveFresh(q) \/ ReserveFails(q) =>
           Wrote(k, Taken(GrantOf[q]), effects[k], Taken(GrantOf[q]), effects[k])
      /\ Apply(q) => Wrote(k, AppliedFresh(row), "fresh", AppliedFresh(row), "fresh")
      /\ ApplyFails(q) \/ ApplyFailsTwice(q) =>
           \/ Wrote(k, Unsure(row), "none", Unsure(row), "none")
           \/ Wrote(k, Unsure(row), "none", AppliedFresh(row), "fresh")
      /\ ApplyReconciled(q) =>
           Wrote(k, AppliedReconciled(row), "reconciled", AppliedReconciled(row), "reconciled")
      /\ ApplyReconciledFails(q) =>
           Wrote(k, Unsure(row), "none", AppliedReconciled(row), "reconciled")
      /\ EffectFails(q) => Wrote(k, Unsure(row), effects[k], Unsure(row), effects[k])
  BY <1>4, Writes
<1> QED
  BY <1>1, <1>2, <1>3, <1>4, <1>5 DEF Storing

(* The store is written by those requests and at a start alone. *)
LEMMA Leaves ==
    ASSUME TypeOK, NEW q \in Req,
           Quiet(q) \/ EnterReplay(q) \/ ReserveShared(q) \/ Post(q) \/ Lands(q)
    PROVE  UNCHANGED <<up, reservations, effects, disk, closed>>
  BY DEF Quiet, EnterDenied, EnterOwner, EnterReplay, SnapshotServed, SnapshotDenied,
     AskReconcile, ReconcileRefused, AttemptFails, ReserveShared, ReserveDenied, Post, Lands,
     MutateAnswers, ReconcileUnknown, ReconcileClaims, AwaitFails, EffectFailsApplied, Idle,
     store, control

(* What a start makes of the rows it loads. *)
LEMMA Loads ==
    ASSUME TypeOK, Restart
    PROVE  \A k \in Key : /\ reservations'[k].grant = disk.reservations[k].grant
                          /\ disk'.reservations[k].grant = disk.reservations[k].grant
                          /\ disk'.effects[k] = disk.effects[k]
<1>1. \A k \in Key : disk.reservations[k] \in Reservation
  BY DEF TypeOK, Store
<1>2. \A k \in Key : Recovered(disk.reservations[k]).grant = disk.reservations[k].grant
  BY <1>1, RowShapes
<1> QED
  BY <1>2 DEF Restart, PersistOk, Written

(* What a control, an expiry or a stutter leaves. *)
LEMMA Controls ==
    ASSUME \/ UNCHANGED vars
           \/ \E k \in Key : Stop(k) \/ Revoke(k) \/ Evict(k)
           \/ \E g \in Grant : Close(g)
    PROVE  UNCHANGED <<up, reservations, effects, disk, pc, wire>>
  BY DEF vars, Stop, Revoke, Evict, Close, Idle, store

(* No step files a reservation under another operation. *)
LEMMA FiledStep == ASSUME IInv, Filed, [Next]_vars PROVE Filed'
<1>0. TypeOK
  BY DEF IInv
<1>1. ASSUME NEW q \in Req, Storing(q) PROVE Filed'
  <2>1. PICK row, receipt, written, kept :
          /\ Wrote(Key_(q), row, receipt, written, kept)
          /\ row.grant = written.grant
          /\ \/ row.grant = reservations[Key_(q)].grant
             \/ row.grant = GrantOf[q] /\ reservations[Key_(q)].status = "NONE"
    BY <1>0, <1>1, Keeps
  <2>2. row.grant \in Grant => KeyOf[row.grant] = Key_(q)
    BY <2>1, GrantsAssumption DEF Filed, Key_
  <2> QED
    BY <2>1, <2>2 DEF Filed, Wrote
<1>2. ASSUME NEW q \in Req,
             Quiet(q) \/ EnterReplay(q) \/ ReserveShared(q) \/ Post(q) \/ Lands(q)
      PROVE  Filed'
  BY <1>0, <1>2, Leaves DEF Filed
<1>3. CASE Crash
  BY <1>3, GrantsAssumption, NoneShape DEF Crash, Filed
<1>4. CASE Restart
  BY <1>0, <1>4, Loads DEF Filed
<1>5. CASE \/ UNCHANGED vars
           \/ \E k \in Key : Stop(k) \/ Revoke(k) \/ Evict(k)
           \/ \E g \in Grant : Close(g)
  BY <1>5, Controls DEF Filed
<1> QED
  BY <1>1, <1>2, <1>3, <1>4, <1>5 DEF Next, Execute, Storing, Quiet

(* Every reservation is filed under its own operation. *)
LEMMA FiledHolds == Spec => []Filed
<1>1. Init => Filed
  BY GrantsAssumption, NoneShape DEF Init, Filed
<1>2. IInv /\ Filed /\ [Next]_vars => Filed'
  BY FiledStep
<1> QED
  BY <1>1, <1>2, Inductive, PTL DEF Spec

(* A write of the store reserves what is free, or nothing. *)
LEMMA ReservesFree ==
    ASSUME IInv, Filed, NEW q \in Req, Storing(q), NEW k \in Key,
           disk'.reservations[k].grant # disk.reservations[k].grant
    PROVE  /\ disk.reservations[k].grant = NoGrant
           /\ KeyOf[disk'.reservations[k].grant] = k
<1>0. /\ TypeOK /\ Rows(reservations) /\ Rows(disk.reservations) /\ Follows
      /\ reservations[k].grant \in Grant \cup {NoGrant}
  BY DEF IInv, TypeOK, Reservation
<1>1. PICK row, receipt, written, kept :
        /\ Wrote(Key_(q), row, receipt, written, kept)
        /\ row.grant = written.grant
        /\ \/ row.grant = reservations[Key_(q)].grant
           \/ row.grant = GrantOf[q] /\ reservations[Key_(q)].status = "NONE"
  BY <1>0, Keeps
<1>2. /\ disk.reservations[k].status = "NONE" <=> disk.reservations[k].grant = NoGrant
      /\ reservations[k].status = "NONE" <=> reservations[k].grant = NoGrant
      /\ disk.reservations[k].status # "NONE" =>
           reservations[k].grant = disk.reservations[k].grant
  BY <1>0, Keeps DEF Rows, Follows
<1>3. \/ disk'.reservations[k].grant = reservations[k].grant
      \/ /\ k = Key_(q) /\ disk'.reservations[k].grant = GrantOf[q]
         /\ reservations[k].status = "NONE"
  BY <1>1 DEF Wrote
<1>4. disk.reservations[k].grant = NoGrant
  BY <1>2, <1>3
<1>5. disk'.reservations[k].grant = reservations[k].grant => reservations[k].grant \in Grant
  BY <1>0, <1>4
<1> QED
  BY <1>3, <1>4, <1>5 DEF Filed, Key_

(* Whatever a step stores is what the promise lets be stored. *)
LEMMA StepStores ==
    ASSUME IInv, IInv', Filed, UNCHANGED wire,
           disk' = disk \/ Restart \/ \E q \in Req : Storing(q)
    PROVE  Dispatch!Stores
<1>1. Reserved' \in [Key -> Grant \cup {NoGrant}]
  BY DEF IInv, TypeOK, Store, Reservation, Reserved
<1>2. ASSUME NEW k \in Key, Reserved'[k] # Reserved[k]
      PROVE  Reserved[k] = NoGrant /\ KeyOf[Reserved'[k]] = k
  <2>1. disk'.reservations[k].grant # disk.reservations[k].grant
    BY <1>2 DEF Reserved
  <2>2. \E q \in Req : Storing(q)
    BY <2>1, Loads DEF IInv
  <2> QED
    BY <2>1, <2>2, ReservesFree DEF Reserved
<1>3. ASSUME NEW k \in Receipted' PROVE Dispatch!Landed(k)
  <2>1. KeyLanded(k)'
    BY <1>3 DEF Receipted, IInv, ReceiptMeansEffect
  <2> QED
    BY <2>1 DEF KeyLanded, Key_, Dispatch!Landed, Dispatch!Operation
<1>4. Receipted' \in SUBSET Key
  BY DEF Receipted
<1> QED
  BY <1>1, <1>2, <1>3, <1>4 DEF Dispatch!Stores

(* A request that stands at its POST, sent it or waits for it went through. *)
LEMMA ThroughHolds ==
    ASSUME NEW q \in Req
    PROVE  Dispatch!Through(q) => Holds(q)
  BY DEF Dispatch!Through, LetThrough, Holds, Posted, Driving

(* A reservation, its own or one it was handed, lets a request through. *)
LEMMA ReservingClears ==
    ASSUME IInv, IInv', Filed, NEW r \in Req, ReserveFresh(r) \/ ReserveShared(r)
    PROVE  Dispatch!Clear(r)
<1>0. /\ pc \in [Req -> {"idle", "post"} \cup Waiting \cup Answered] /\ r \in DOMAIN pc
      /\ Key_(r) \in Key /\ GrantOf[r] \in Grant
  BY GrantsAssumption DEF IInv, TypeOK, Key_
<1>1. /\ Ready(r) /\ pc' = [pc EXCEPT ![r] = "post"]
      /\ UNCHANGED <<wire, closed>>
      /\ disk' = disk \/ Storing(r)
  BY DEF ReserveFresh, ReserveShared, Reserve, Moves, Idle, store, control, Storing
<1>2. /\ pc[r] \in {"idle", "snapshot"} /\ wire[r] = "none" /\ AuthorityHolds(r)
  BY <1>1 DEF Ready, SnapshotHolds, Cleared, IInv, Phases
<1>3. Dispatch!Stores
  BY <1>1, StepStores
<1>4. ~Dispatch!Through(r) /\ GrantOf[r] \notin Ended
  BY <1>2 DEF Dispatch!Through, LetThrough, AuthorityHolds, Kind, Ended
<1>5. \A q \in Req : Holds(q)' => Reserved'[Key_(q)] = GrantOf[q]
  BY GrantsAssumption DEF IInv, Custody, Reserved, Key_
<1>6. pc'[r] = "post" /\ \A q \in Req \ {r} : pc'[q] = pc[q]
  BY <1>0, <1>1
<1>7. Holds(r)'
  BY <1>6 DEF Holds, Driving
<1>8. ASSUME NEW q \in Req, Key_(q) = Key_(r), Dispatch!Through(q)
      PROVE  GrantOf[q] = GrantOf[r] /\ KindOf[GrantOf[r]] = "owner"
  <2>1. q # r /\ Holds(q)
    BY <1>4, <1>8, ThroughHolds
  <2>2. Holds(q)'
    BY <1>1, <1>6, <2>1 DEF Holds, Posted
  <2>3. GrantOf[q] = GrantOf[r]
    BY <1>5, <1>7, <1>8, <2>2
  <2> QED
    BY <1>7, <1>8, <2>1, <2>2, <2>3 DEF IInv, OneHolder, Kind, Key_
<1>9. /\ LetThrough' = LetThrough \cup {r} /\ Ended' = Ended /\ Told' = Told
  BY <1>1, <1>2, <1>6 DEF LetThrough, Ended, Told
<1> QED
  BY <1>0, <1>1, <1>3, <1>4, <1>5, <1>7, <1>8, <1>9
     DEF Dispatch!Clear, Dispatch!Operation, Key_

(* A request answered PASS leaves its receipt on disk. *)
LEMMA AnswerTells ==
    ASSUME IInv, IInv', Filed, NEW r \in Req,
           Apply(r) \/ ApplyReconciled(r) \/ EnterReplay(r)
    PROVE  Dispatch!Tell(r)
<1>0. /\ pc \in [Req -> {"idle", "post"} \cup Waiting \cup Answered]
      /\ Key_(r) \in Key /\ effects \in [Key -> Receipt]
  BY GrantsAssumption DEF IInv, TypeOK, Key_
<1>1. /\ pc[r] \in {"idle"} \cup Waiting /\ pc' = [pc EXCEPT ![r] = "PASS"]
      /\ UNCHANGED <<wire, closed>>
      /\ disk' = disk \/ Storing(r)
  BY DEF Apply, ApplyReconciled, EnterReplay, ReadbackConfirms, ReconcileConfirms, Records,
     Answer, Idle, store, control, Storing, Waiting, Reconciling
<1>2. Dispatch!Stores
  BY <1>1, StepStores
<1>3. Key_(r) \in Receipted'
  <2>1. CASE EnterReplay(r)
    BY <1>0, <2>1 DEF EnterReplay, Idle, store, IInv, NoUndurableReceipt, Receipted
  <2>2. CASE Apply(r) \/ ApplyReconciled(r)
    BY <1>0, <2>2 DEF Apply, ApplyReconciled, Records, PersistOk, Written, Receipted
  <2> QED
    BY <2>1, <2>2
<1>4. pc'[r] = "PASS" /\ \A q \in Req \ {r} : pc'[q] = pc[q]
  BY <1>0, <1>1
<1>5. Told' = Told \cup {r}
  BY <1>4 DEF Told
<1>6. LetThrough' = LetThrough
  BY <1>1, <1>4 DEF LetThrough, Waiting, Reconciling
<1> QED
  BY <1>1, <1>2, <1>3, <1>5, <1>6 DEF Dispatch!Tell, Dispatch!Operation, Key_, Ended

(* A request that fails at a write leaves what a write may leave. *)
LEMMA FailureWrites ==
    ASSUME IInv, IInv', Filed, NEW r \in Req,
           \/ ReserveFails(r) \/ ApplyFails(r) \/ ApplyFailsTwice(r)
           \/ ApplyReconciledFails(r) \/ EffectFails(r)
    PROVE  Dispatch!Write
<1>0. pc \in [Req -> {"idle", "post"} \cup Waiting \cup Answered]
  BY DEF IInv, TypeOK
<1>1. /\ pc[r] \in {"idle"} \cup Waiting /\ pc' = [pc EXCEPT ![r] = "FAILED"]
      /\ UNCHANGED <<wire, closed>>
      /\ Storing(r)
  BY DEF ReserveFails, Reserve, Ready, ApplyFails, ApplyFailsTwice, ApplyReconciledFails,
     EffectFails, ReadbackConfirms, ReconcileConfirms, Answer, control, Storing, Waiting,
     Reconciling
<1>2. Dispatch!Stores
  BY <1>1, StepStores
<1>3. pc'[r] = "FAILED" /\ \A q \in Req \ {r} : pc'[q] = pc[q]
  BY <1>0, <1>1
<1>4. Told' = Told /\ LetThrough' = LetThrough
  BY <1>1, <1>3 DEF Told, LetThrough, Waiting, Reconciling
<1> QED
  BY <1>1, <1>2, <1>4 DEF Dispatch!Write, Ended

(* What the promise does not speak of. *)
LEMMA QuietStutters ==
    ASSUME IInv, NEW r \in Req, Quiet(r)
    PROVE  UNCHANGED Dispatch!vars
<1>0. /\ TypeOK /\ pc \in [Req -> {"idle", "post"} \cup Waiting \cup Answered]
  BY DEF IInv, TypeOK
<1>1. UNCHANGED <<disk, closed>>
  BY <1>0, Leaves
<1>2. /\ UNCHANGED wire
      /\ \/ UNCHANGED pc
         \/ /\ pc[r] \in {"idle"} \cup Waiting
            /\ \E place \in Waiting \cup {"DENIED", "FAILED", "PENDING"} :
                 pc' = [pc EXCEPT ![r] = place]
  BY DEF Quiet, EnterDenied, EnterOwner, SnapshotServed, SnapshotDenied, AskReconcile,
     ReconcileRefused, AttemptFails, ReserveDenied, MutateAnswers, ReconcileUnknown,
     ReconcileClaims, AwaitFails, EffectFailsApplied, Ready, Answer, Moves, Waiting,
     Reconciling
<1>3. LetThrough' = LetThrough /\ Told' = Told
  <2>1. CASE UNCHANGED pc
    BY <2>1 DEF LetThrough, Told
  <2>2. CASE ~UNCHANGED pc
    <3>1. /\ pc[r] \notin {"post", "PASS"} /\ pc'[r] \notin {"post", "PASS"}
          /\ \A q \in Req \ {r} : pc'[q] = pc[q]
      BY <1>0, <1>2, <2>2 DEF Waiting, Reconciling
    <3> QED
      BY <3>1 DEF LetThrough, Told
  <2> QED
    BY <2>1, <2>2
<1> QED
  BY <1>1, <1>2, <1>3 DEF Dispatch!vars, Ended, Reserved, Receipted

(* The provider's side of a request. *)
LEMMA ProviderActs ==
    ASSUME IInv, NEW r \in Req
    PROVE  /\ Post(r) => Dispatch!Send(r)
           /\ Lands(r) => Dispatch!Settle(r)
<1>0. /\ pc \in [Req -> {"idle", "post"} \cup Waiting \cup Answered]
  BY DEF IInv, TypeOK
<1>1. ASSUME Post(r) PROVE Dispatch!Send(r)
  <2>1. /\ pc[r] = "post" /\ pc' = [pc EXCEPT ![r] = "mutate"]
        /\ wire' = [wire EXCEPT ![r] = "flight"] /\ UNCHANGED <<disk, closed>>
    BY <1>1 DEF Post, Moves, Idle, control
  <2>2. LetThrough' = LetThrough \ {r} /\ Told' = Told
    BY <1>0, <2>1 DEF LetThrough, Told
  <2> QED
    BY <2>1, <2>2 DEF Dispatch!Send, LetThrough, Ended, Reserved, Receipted
<1>2. ASSUME Lands(r) PROVE Dispatch!Settle(r)
  BY <1>2 DEF Lands, Dispatch!Settle, Idle, control, LetThrough, Told, Ended, Reserved, Receipted
<1> QED
  BY <1>1, <1>2

(* A crash, a start, a control and an expiry. *)
LEMMA OutsideActs ==
    ASSUME IInv,
           \/ UNCHANGED vars \/ Crash \/ Restart
           \/ \E k \in Key : Stop(k) \/ Revoke(k) \/ Evict(k)
           \/ \E g \in Grant : Close(g)
    PROVE  [Dispatch!Next]_(Dispatch!vars)
<1>0. /\ TypeOK /\ pc \in [Req -> {"idle", "post"} \cup Waiting \cup Answered]
  BY DEF IInv, TypeOK
<1>1. CASE Crash
  <2>1. \A r \in Req : pc'[r] # "post" /\ (pc'[r] = "PASS" <=> pc[r] = "PASS")
    BY <1>0, <1>1 DEF Crash, Waiting, Reconciling
  <2>2. LetThrough' = {} /\ Told' = Told
    BY <2>1 DEF LetThrough, Told
  <2>3. UNCHANGED <<wire, disk, closed>>
    BY <1>1 DEF Crash, control
  <2>4. Dispatch!Die
    BY <2>2, <2>3 DEF Dispatch!Die, Ended, Reserved, Receipted
  <2> QED
    BY <2>4 DEF Dispatch!Next
<1>2. CASE Restart
  <2>1. UNCHANGED <<wire, pc, closed>>
    BY <1>2 DEF Restart, control
  <2>2. Reserved' = Reserved /\ Receipted' = Receipted
    BY <1>0, <1>2, Loads DEF Reserved, Receipted
  <2> QED
    BY <2>1, <2>2 DEF Dispatch!vars, LetThrough, Told, Ended
<1>3. ASSUME NEW g \in Grant, Close(g) PROVE [Dispatch!Next]_(Dispatch!vars)
  <2>1. closed' = closed \cup {g} /\ UNCHANGED <<disk, pc, wire>>
    BY <1>3 DEF Close, Idle
  <2>2. UNCHANGED <<Reserved, LetThrough, wire, Receipted, Told>>
    BY <2>1 DEF Reserved, LetThrough, Receipted, Told
  <2>3. Ended' = Ended \cup {g} \/ Ended' = Ended
    BY <2>1 DEF Ended
  <2> QED
    BY <2>2, <2>3 DEF Dispatch!Next, Dispatch!End, Dispatch!vars
<1>4. CASE UNCHANGED vars \/ \E k \in Key : Stop(k) \/ Revoke(k) \/ Evict(k)
  <2>1. UNCHANGED <<disk, pc, wire, closed>>
    BY <1>4 DEF vars, control, Stop, Revoke, Evict, Idle
  <2> QED
    BY <2>1 DEF Dispatch!vars, Ended, Reserved, LetThrough, Receipted, Told
<1> QED
  BY <1>1, <1>2, <1>3, <1>4

(* Every step is one of ReservedDispatch or none. *)
LEMMA DispatchStep ==
    ASSUME IInv, IInv', Filed, [Next]_vars
    PROVE  [Dispatch!Next]_(Dispatch!vars)
<1>1. ASSUME NEW r \in Req, Execute(r) \/ Lands(r)
      PROVE  [Dispatch!Next]_(Dispatch!vars)
  <2>1. CASE ReserveFresh(r) \/ ReserveShared(r)
    BY <2>1, ReservingClears DEF Dispatch!Next
  <2>2. CASE Apply(r) \/ ApplyReconciled(r) \/ EnterReplay(r)
    BY <2>2, AnswerTells DEF Dispatch!Next
  <2>3. CASE \/ ReserveFails(r) \/ ApplyFails(r) \/ ApplyFailsTwice(r)
             \/ ApplyReconciledFails(r) \/ EffectFails(r)
    BY <2>3, FailureWrites DEF Dispatch!Next
  <2>4. CASE Post(r) \/ Lands(r)
    BY <2>4, ProviderActs DEF Dispatch!Next
  <2>5. CASE Quiet(r)
    BY <2>5, QuietStutters
  <2> QED
    BY <1>1, <2>1, <2>2, <2>3, <2>4, <2>5 DEF Execute, Quiet
<1> QED
  BY <1>1, OutsideActs DEF Next

(* Whatever requests, deadlines, reconciliations, failing writes and crashes   *)
(* there are, what reaches the provider was durably reserved for good, under   *)
(* an authority that stood when it was let through, and PASS has its receipt.  *)
THEOREM GateKeepsDispatch == Spec => KeepsDispatch
<1>1. Init => Dispatch!Init
  <2> SUFFICES ASSUME Init PROVE Dispatch!Init
    OBVIOUS
  <2>1. /\ Ended = {} /\ LetThrough = {} /\ Told = {}
    BY DEF Init, Ended, LetThrough, Told
  <2>2. Reserved = [k \in Key |-> NoGrant] /\ Receipted = {}
    BY NoneShape DEF Init, Reserved, Receipted
  <2> QED
    BY <2>1, <2>2 DEF Init, Dispatch!Init
<1>2. IInv /\ IInv' /\ Filed /\ [Next]_vars => [Dispatch!Next]_(Dispatch!vars)
  BY DispatchStep
<1> QED
  BY <1>1, <1>2, Inductive, FiledHolds, PTL DEF Spec, KeepsDispatch, Dispatch!Spec
=============================================================================
