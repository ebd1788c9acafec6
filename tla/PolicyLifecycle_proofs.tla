---------------------- MODULE PolicyLifecycle_proofs ----------------------
(***************************************************************************)
(* What TLAPS proves of PolicyLifecycle, for any generations, sources and  *)
(* rules.  The inductive invariant IInv adds to the checked properties     *)
(* what lies between them: an entry past review carries its approval, and  *)
(* an operation that stopped after its first write has moved the fence.    *)
(***************************************************************************)
EXTENDS PolicyLifecycle, TLAPS

LEMMA NullIsNoGeneration == Null \notin Gen /\ Null \in Nat /\ Gen \subseteq Nat
BY ArtifactsAssumption DEF Null, Gen

LEMMA Initial == Init => IInv
BY ArtifactsAssumption, NullIsNoGeneration
   DEF Init, IInv, TypeOK, Reviewed, HalfDone, RecordFollowsFence, LastSafeKept, NoFence,
       Idle, Entry

\* A review step moves one entry on, and touches neither fence nor use.
LEMMA StepKeeps ==
    ASSUME IInv, NEW g \in Gen, NEW from, NEW to, Step(g, from, to),
           from \in {"NONE", "DRAFT", "VALIDATED", "SIMULATED", "APPROVED"},
           to \in {"DRAFT", "VALIDATED", "SIMULATED", "APPROVED", "STAGED"},
           base' \in [Gen -> Gen \cup {Null}],
           approval' \in [Gen -> {"none", "plain", "widening"}]
    PROVE  TypeOK' /\ HalfDone' /\ RecordFollowsFence' /\ LastSafeKept'
<1> USE NullIsNoGeneration
<1>1. /\ state \in [Gen -> Entry] /\ state[g] = from /\ running = Idle
      /\ state' = [state EXCEPT ![g] = to]
      /\ UNCHANGED <<active, lastSafe, dispatch, fence, running, expired>>
  BY DEF Step, Current, IInv, TypeOK
<1>2. \A h \in Gen : state'[h] = IF h = g THEN to ELSE state[h]
  BY <1>1
<1>3. TypeOK'
  BY <1>1, <1>2 DEF IInv, TypeOK, Entry
<1>4. HalfDone'
  BY <1>1 DEF HalfDone, Idle
<1>5. RecordFollowsFence'
  BY <1>1, <1>2 DEF IInv, TypeOK, RecordFollowsFence
<1>6. LastSafeKept'
  BY <1>1, <1>2 DEF IInv, TypeOK, LastSafeKept
<1> QED
  BY <1>3, <1>4, <1>5, <1>6

LEMMA ReviewInductive ==
    ASSUME IInv, NEW g \in Gen,
           \/ Draft(g) \/ Validate(g) \/ Simulate(g) \/ Stage(g)
           \/ \E how \in {"plain", "widening"} : Approve(g, how)
    PROVE  IInv'
<1> USE NullIsNoGeneration
<1>0. state \in [Gen -> Entry] /\ Reviewed
      /\ base \in [Gen -> Gen \cup {Null}] /\ active \in Gen \cup {Null}
      /\ approval \in [Gen -> {"none", "plain", "widening"}]
  BY DEF IInv, TypeOK
<1>1. CASE Draft(g)
  <2>1. Step(g, "NONE", "DRAFT") /\ UNCHANGED <<base, approval>>
    BY <1>1 DEF Draft
  <2>2. Reviewed'
    BY <1>0, <2>1 DEF Step, Reviewed, Widens
  <2> QED
    BY <1>0, <2>1, <2>2, StepKeeps DEF IInv
<1>2. CASE Validate(g)
  <2>1. Step(g, "DRAFT", "VALIDATED") /\ base' = [base EXCEPT ![g] = active]
        /\ UNCHANGED approval
    BY <1>2 DEF Validate
  <2>2. Reviewed'
    BY <1>0, <2>1 DEF Step, Reviewed, Widens
  <2> QED
    BY <1>0, <2>1, <2>2, StepKeeps DEF IInv
<1>3. CASE Simulate(g)
  <2>1. Step(g, "VALIDATED", "SIMULATED") /\ UNCHANGED <<base, approval>>
    BY <1>3 DEF Simulate
  <2>2. Reviewed'
    BY <1>0, <2>1 DEF Step, Reviewed, Widens
  <2> QED
    BY <1>0, <2>1, <2>2, StepKeeps DEF IInv
<1>4. CASE Stage(g)
  <2>1. Step(g, "APPROVED", "STAGED") /\ UNCHANGED <<base, approval>>
    BY <1>4 DEF Stage
  <2>2. Reviewed'
    BY <1>0, <2>1 DEF Step, Reviewed, Widens
  <2> QED
    BY <1>0, <2>1, <2>2, StepKeeps DEF IInv
<1>5. ASSUME NEW how \in {"plain", "widening"}, Approve(g, how) PROVE IInv'
  <2>1. Step(g, "SIMULATED", "APPROVED") /\ approval' = [approval EXCEPT ![g] = how]
        /\ UNCHANGED base /\ (Widens(base[g], g) => how = "widening")
    BY <1>5 DEF Approve
  <2>2. Reviewed'
    BY <1>0, <2>1 DEF Step, Reviewed, Widens
  <2> QED
    BY <1>0, <2>1, <2>2, StepKeeps DEF IInv
<1> QED
  BY <1>1, <1>2, <1>3, <1>4, <1>5

-----------------------------------------------------------------------------
\* The fence moves to the staged generation; the record does not move yet.
LEMMA ActivateFenceInductive ==
    ASSUME IInv, NEW g \in Gen, ActivateFence(g)
    PROVE  IInv'
<1> USE NullIsNoGeneration
<1>1. /\ TypeOK /\ Reviewed /\ RecordFollowsFence /\ LastSafeKept
      /\ state[g] = "STAGED" /\ g > fence.active
      /\ fence' = FenceActivated(g) /\ running' = [op |-> "activate", gen |-> g]
      /\ UNCHANGED <<state, base, approval, active, lastSafe, dispatch, expired>>
  BY DEF IInv, ActivateFence, FenceAdmits, record
<1>2. fence'.active = g /\ fence'.status = "ACTIVE" /\ fence.active \in Gen \cup {Null}
  BY <1>1 DEF FenceActivated, TypeOK
<1>3. fence' \in [active : Gen \cup {Null}, safe : Gen \cup {Null},
                  status : {"NONE", "ACTIVE", "FROZEN"}, retired : SUBSET Source]
  <2>1. fence.active # Null => SourceOf[fence.active] \in Source
    BY <1>2, ArtifactsAssumption
  <2> QED
    BY <1>1, <1>2, <2>1 DEF FenceActivated, TypeOK
<1>4. TypeOK'
  BY <1>1, <1>3 DEF TypeOK
<1>5. Reviewed' /\ LastSafeKept'
  BY <1>1 DEF Reviewed, Widens, LastSafeKept
<1>6. HalfDone'
  BY <1>1, <1>2 DEF HalfDone
<1>7. RecordFollowsFence'
  <2>1. fence.active \in Nat /\ g \in Nat
    BY <1>2
  <2>2. \A h \in Gen : h <= fence.active => h <= g
    <3> TAKE h \in Gen
    <3>1. h \in Nat
      OBVIOUS
    <3> QED
      BY <1>1, <2>1, <3>1
  <2> QED
    BY <1>1, <1>2, <2>2 DEF RecordFollowsFence
<1> QED
  BY <1>4, <1>5, <1>6, <1>7 DEF IInv

LEMMA ActivateRecordInductive ==
    ASSUME IInv, ActivateRecord
    PROVE  IInv'
<1> USE NullIsNoGeneration
<1> DEFINE g == running.gen
<1>1. /\ TypeOK /\ Reviewed /\ RecordFollowsFence /\ LastSafeKept
      /\ g \in Gen /\ state[g] = "STAGED" /\ fence.active = g /\ active # g
  BY DEF IInv, HalfDone, ActivateRecord, TypeOK
<1>2. /\ state' = [h \in Gen |-> IF h = g THEN "ACTIVE"
                                 ELSE IF h = active THEN "SUPERSEDED" ELSE state[h]]
      /\ active' = g
      /\ lastSafe' = IF active = Null THEN g ELSE active
      /\ dispatch' = "ACTIVE" /\ running' = Idle
      /\ UNCHANGED <<base, approval, fence, expired>>
  BY DEF ActivateRecord
<1>3. \A h \in Gen : state'[h] = IF h = g THEN "ACTIVE"
                                 ELSE IF h = active THEN "SUPERSEDED" ELSE state[h]
  BY <1>2
<1>4. TypeOK'
  BY <1>1, <1>2, <1>3 DEF TypeOK, Entry, Idle
<1>5. Reviewed'
  BY <1>1, <1>2, <1>3 DEF TypeOK, Reviewed, Widens
<1>6. HalfDone'
  BY <1>2 DEF HalfDone, Idle
<1>7. RecordFollowsFence'
  BY <1>1, <1>2, <1>3 DEF TypeOK, RecordFollowsFence
<1>8. LastSafeKept'
  BY <1>1, <1>2, <1>3 DEF TypeOK, LastSafeKept
<1> QED
  BY <1>4, <1>5, <1>6, <1>7, <1>8 DEF IInv

\* An operation that ends without writing the record leaves it behind the
\* fence: HalfDone says by how much.
LEMMA UnrecordedInductive ==
    ASSUME IInv, ActivateUnrecorded \/ Abandon
    PROVE  IInv'
<1> USE NullIsNoGeneration
<1>1. /\ TypeOK /\ Reviewed /\ RecordFollowsFence /\ LastSafeKept /\ HalfDone
      /\ running' = Idle /\ (fence' = fence \/ fence' = FenceFrozen)
      /\ running.op = "activate" \/ running # Idle
      /\ UNCHANGED <<state, base, approval, active, lastSafe, dispatch, expired>>
  BY DEF IInv, ActivateUnrecorded, Abandon, record
<1>2. fence'.active = fence.active
  BY <1>1 DEF FenceFrozen, TypeOK
<1>3. TypeOK'
  BY <1>1 DEF TypeOK, FenceFrozen, Idle
<1>4. Reviewed' /\ LastSafeKept' /\ HalfDone'
  BY <1>1 DEF Reviewed, Widens, LastSafeKept, HalfDone, Idle
<1>5. RecordFollowsFence'
  BY <1>1, <1>2 DEF RecordFollowsFence, HalfDone
<1> QED
  BY <1>3, <1>4, <1>5 DEF IInv

-----------------------------------------------------------------------------
\* Retirement and the revocation of an inactive entry.
LEMMA TakenOutInductive ==
    ASSUME IInv, NEW g \in Gen, Retire(g) \/ RevokeInactive(g)
    PROVE  IInv'
<1> USE NullIsNoGeneration
<1>1. PICK to \in {"RETIRED", "REVOKED"} :
         /\ state' = [state EXCEPT ![g] = to]
         /\ to = "RETIRED" => lastSafe # g /\ state[g] = "SUPERSEDED"
         /\ state[g] \in {"STAGED", "SUPERSEDED"}
         /\ running = Idle
         /\ UNCHANGED <<base, approval, active, lastSafe, dispatch, fence, running, expired>>
  BY DEF Retire, RevokeInactive
<1>2. TypeOK /\ Reviewed /\ RecordFollowsFence /\ LastSafeKept
  BY DEF IInv
<1>3. \A h \in Gen : state'[h] = IF h = g THEN to ELSE state[h]
  BY <1>1, <1>2 DEF TypeOK
<1>4. TypeOK'
  BY <1>1, <1>2, <1>3 DEF TypeOK, Entry
<1>5. Reviewed'
  BY <1>1, <1>2, <1>3 DEF Reviewed, Widens
<1>6. HalfDone'
  BY <1>1 DEF HalfDone, Idle
<1>7. RecordFollowsFence'
  BY <1>1, <1>2, <1>3 DEF TypeOK, RecordFollowsFence
<1>8. LastSafeKept'
  BY <1>1, <1>2, <1>3 DEF TypeOK, LastSafeKept
<1> QED
  BY <1>4, <1>5, <1>6, <1>7, <1>8 DEF IInv

LEMMA FreezeInductive ==
    ASSUME IInv, NEW g \in Gen, NEW op \in {"revoke", "diverge"}, Freeze(op, g)
    PROVE  IInv'
<1> USE NullIsNoGeneration
<1>1. /\ TypeOK /\ Reviewed /\ RecordFollowsFence /\ LastSafeKept
      /\ running = Idle /\ active = g /\ fence' = FenceFrozen
      /\ running' = [op |-> op, gen |-> g]
      /\ UNCHANGED <<state, base, approval, active, lastSafe, dispatch, expired>>
  BY DEF IInv, Freeze, record
<1>2. fence'.active = fence.active /\ fence'.status = "FROZEN"
  BY <1>1 DEF FenceFrozen, TypeOK
<1>3. TypeOK'
  BY <1>1 DEF TypeOK, FenceFrozen
<1>4. Reviewed' /\ LastSafeKept'
  BY <1>1 DEF Reviewed, Widens, LastSafeKept
<1>5. HalfDone'
  BY <1>1, <1>2 DEF HalfDone
<1>6. RecordFollowsFence'
  BY <1>1, <1>2 DEF RecordFollowsFence, Idle
<1> QED
  BY <1>3, <1>4, <1>5, <1>6 DEF IInv

LEMMA RevokeRecordInductive ==
    ASSUME IInv, RevokeRecord
    PROVE  IInv'
<1> USE NullIsNoGeneration
<1> DEFINE g == running.gen
<1>1. /\ TypeOK /\ Reviewed /\ RecordFollowsFence /\ LastSafeKept
      /\ g \in Gen /\ active = g
      /\ state' = [state EXCEPT ![g] = "REVOKED"]
      /\ active' = Null
      /\ lastSafe' = IF lastSafe = g THEN Null ELSE lastSafe
      /\ dispatch' = "FROZEN" /\ running' = Idle
      /\ UNCHANGED <<base, approval, fence, expired>>
  BY DEF IInv, HalfDone, RevokeRecord
<1>2. \A h \in Gen : state'[h] = IF h = g THEN "REVOKED" ELSE state[h]
  BY <1>1 DEF TypeOK
<1>3. TypeOK'
  BY <1>1, <1>2 DEF TypeOK, Entry, Idle
<1>4. Reviewed'
  <2>1. \A h \in Gen : state'[h] \in {"APPROVED", "STAGED", "ACTIVE", "SUPERSEDED"} =>
           state'[h] = state[h]
    BY <1>2
  <2>2. base' = base /\ approval' = approval
    BY <1>1
  <2> QED
    BY <1>1, <2>1, <2>2 DEF Reviewed, Widens
<1>5. HalfDone'
  BY <1>1 DEF HalfDone, Idle
<1>6. RecordFollowsFence'
  BY <1>1, <1>2 DEF TypeOK, RecordFollowsFence
<1>7. LastSafeKept'
  BY <1>1, <1>2 DEF TypeOK, LastSafeKept
<1> QED
  BY <1>3, <1>4, <1>5, <1>6, <1>7 DEF IInv

\* The divergence is recorded, the rollout confirmed, or something expires:
\* entries and fence stay as they are.
LEMMA OthersInductive ==
    ASSUME IInv, DivergeRecord \/ (\E g \in Gen : ConfirmRollout(g) \/ Expire(g))
    PROVE  IInv'
<1> USE NullIsNoGeneration
<1>1. /\ TypeOK /\ Reviewed /\ HalfDone /\ RecordFollowsFence /\ LastSafeKept
  BY DEF IInv
<1>2. CASE DivergeRecord
  BY <1>1, <1>2 DEF DivergeRecord, IInv, TypeOK, Reviewed, Widens, HalfDone,
                    RecordFollowsFence, LastSafeKept, Idle
<1>3. ASSUME NEW g \in Gen, ConfirmRollout(g) PROVE IInv'
  BY <1>1, <1>3 DEF ConfirmRollout, IInv, TypeOK, Reviewed, Widens, HalfDone,
                    RecordFollowsFence, LastSafeKept, Idle
<1>4. ASSUME NEW g \in Gen, Expire(g) PROVE IInv'
  BY <1>1, <1>4 DEF Expire, record, IInv, TypeOK, Reviewed, Widens, HalfDone,
                    RecordFollowsFence, LastSafeKept, Idle
<1> QED
  BY <1>2, <1>3, <1>4

LEMMA Inductive == IInv /\ [Next]_vars => IInv'
<1> SUFFICES ASSUME IInv, [Next]_vars PROVE IInv'
  OBVIOUS
<1>1. CASE UNCHANGED vars
  BY <1>1 DEF vars, record, IInv, TypeOK, Reviewed, Widens, HalfDone, RecordFollowsFence,
              LastSafeKept
<1>2. ASSUME NEW g \in Gen,
             \/ Draft(g) \/ Validate(g) \/ Simulate(g) \/ Stage(g)
             \/ \E how \in {"plain", "widening"} : Approve(g, how)
      PROVE  IInv'
  BY <1>2, ReviewInductive
<1>3. ASSUME NEW g \in Gen, ActivateFence(g) PROVE IInv'
  BY <1>3, ActivateFenceInductive
<1>4. ASSUME NEW g \in Gen, Retire(g) \/ RevokeInactive(g) PROVE IInv'
  BY <1>4, TakenOutInductive
<1>5. ASSUME NEW g \in Gen, Freeze("revoke", g) \/ Freeze("diverge", g) PROVE IInv'
  BY <1>5, FreezeInductive
<1>6. CASE DivergeRecord \/ (\E g \in Gen : ConfirmRollout(g) \/ Expire(g))
  BY <1>6, OthersInductive
<1>7. CASE ActivateRecord
  BY <1>7, ActivateRecordInductive
<1>8. CASE ActivateUnrecorded \/ Abandon
  BY <1>8, UnrecordedInductive
<1>9. CASE RevokeRecord
  BY <1>9, RevokeRecordInductive
<1> QED
  BY <1>1, <1>2, <1>3, <1>4, <1>5, <1>6, <1>7, <1>8, <1>9 DEF Next

LEMMA Invariant == Spec => []IInv
BY Initial, Inductive, PTL DEF Spec

-----------------------------------------------------------------------------
(* The record's active generation is its one ACTIVE entry, whichever        *)
(* operation stopped between its writes.                                    *)
THEOREM TypeCorrect == Spec => []TypeOK
<1>1. IInv => TypeOK
  BY DEF IInv
<1> QED
  BY <1>1, Invariant, PTL

(* A generation in use was approved, with allowWidening when the diff that  *)
(* was reviewed widens.                                                     *)
THEOREM UseApproved == Spec => []UseIsApproved
<1>1. IInv => UseIsApproved
  BY DEF IInv, TypeOK, Reviewed, UseIsApproved, Uses
<1> QED
  BY <1>1, Invariant, PTL

(* The record never runs ahead of the fence. *)
THEOREM RecordFollows == Spec => []RecordFollowsFence
<1>1. IInv => RecordFollowsFence
  BY DEF IInv
<1> QED
  BY <1>1, Invariant, PTL

(* The generation kept as last safe is never retired. *)
THEOREM LastSafe == Spec => []LastSafeKept
<1>1. IInv => LastSafeKept
  BY DEF IInv
<1> QED
  BY <1>1, Invariant, PTL

\* A step of the fence activates a newer generation or freezes.
LEMMA FenceMoves ==
    ASSUME IInv, [Next]_vars
    PROVE  \/ fence' = fence
           \/ fence' = FenceFrozen
           \/ \E g \in Gen : FenceAdmits(g) /\ fence' = FenceActivated(g)
BY DEF Next, vars, record, Draft, Validate, Simulate, Stage, Approve, Step, ActivateFence,
       Retire, RevokeInactive, Freeze, ConfirmRollout, Expire, ActivateRecord,
       ActivateUnrecorded, RevokeRecord, DivergeRecord, Abandon

(* The fence activates ever higher generations, and is thawed only by a     *)
(* newer one.                                                               *)
THEOREM FenceRises == Spec => FenceOnlyRises
<1> USE NullIsNoGeneration
<1> DEFINE Up == /\ fence'.active >= fence.active
                 /\ fence.status = "FROZEN" /\ fence'.status = "ACTIVE" =>
                      fence'.active > fence.active
<1>1. IInv /\ [Next]_vars => [Up]_vars
  <2> SUFFICES ASSUME IInv, [Next]_vars PROVE Up
    OBVIOUS
  <2>1. fence \in [active : Gen \cup {Null}, safe : Gen \cup {Null},
                   status : {"NONE", "ACTIVE", "FROZEN"}, retired : SUBSET Source]
    BY DEF IInv, TypeOK
  <2>2. fence.active \in Nat
    BY <2>1
  <2>3. CASE fence' = fence
    BY <2>1, <2>2, <2>3
  <2>4. CASE fence' = FenceFrozen
    BY <2>1, <2>2, <2>4 DEF FenceFrozen
  <2>5. ASSUME NEW g \in Gen, FenceAdmits(g), fence' = FenceActivated(g) PROVE Up
    <3>1. fence'.active = g /\ g \in Nat
      BY <2>5 DEF FenceActivated
    <3> QED
      BY <2>2, <2>5, <3>1 DEF FenceAdmits
  <2> QED
    BY <2>3, <2>4, <2>5, FenceMoves
<1> QED
  BY <1>1, Invariant, PTL DEF Spec, FenceOnlyRises

-----------------------------------------------------------------------------
\* An entry that left use stays out, whatever else is done to it.
LEMMA OutStays ==
    ASSUME IInv, [Next]_vars, NEW g \in Gen,
           state[g] \in {"SUPERSEDED", "RETIRED", "REVOKED"}
    PROVE  state'[g] \in {"SUPERSEDED", "RETIRED", "REVOKED"}
<1> USE NullIsNoGeneration
<1>1. state \in [Gen -> Entry] /\ HalfDone /\ (\A h \in Gen : state[h] = "ACTIVE" <=> active = h)
  BY DEF IInv, TypeOK
<1>2. ASSUME NEW h \in Gen, Retire(h) \/ RevokeInactive(h)
      PROVE  state'[g] \in {"SUPERSEDED", "RETIRED", "REVOKED"}
  BY <1>1, <1>2 DEF Retire, RevokeInactive
<1>3. CASE ActivateRecord
  BY <1>1, <1>3 DEF ActivateRecord, HalfDone
<1>4. CASE RevokeRecord
  BY <1>1, <1>4 DEF RevokeRecord
<1>5. ASSUME NEW h \in Gen, NEW from, NEW to, Step(h, from, to),
             from \in {"NONE", "DRAFT", "VALIDATED", "SIMULATED", "APPROVED"}
      PROVE  state'[g] \in {"SUPERSEDED", "RETIRED", "REVOKED"}
  BY <1>1, <1>5 DEF Step
<1>6. ASSUME NEW h \in Gen,
             \/ Draft(h) \/ Validate(h) \/ Simulate(h) \/ Stage(h)
             \/ \E how \in {"plain", "widening"} : Approve(h, how)
      PROVE  state'[g] \in {"SUPERSEDED", "RETIRED", "REVOKED"}
  BY <1>5, <1>6 DEF Draft, Validate, Simulate, Stage, Approve
<1>7. ASSUME UNCHANGED state PROVE state'[g] \in {"SUPERSEDED", "RETIRED", "REVOKED"}
  BY <1>7
<1> QED
  BY <1>2, <1>3, <1>4, <1>6, <1>7 DEF Next, vars, record, ActivateFence, Freeze,
     ConfirmRollout, Expire, ActivateUnrecorded, DivergeRecord, Abandon

(* A generation that was superseded, retired or revoked is never used again. *)
THEOREM OutForever == Spec => OutOfUseForever
<1> SUFFICES ASSUME NEW g \in Gen
             PROVE  Spec => [](state[g] \in {"SUPERSEDED", "RETIRED", "REVOKED"} => []~Uses(g))
  BY DEF OutOfUseForever
<1> DEFINE Out == state[g] \in {"SUPERSEDED", "RETIRED", "REVOKED"}
<1>1. IInv /\ [Next]_vars => (Out => Out')
  BY OutStays
<1>2. IInv /\ Out => ~Uses(g)
  BY DEF IInv, TypeOK, Uses
<1> QED
  BY <1>1, <1>2, Invariant, PTL DEF Spec

Active(s) == fence.active # Null /\ SourceOf[fence.active] = s
Gone(s) == s \in fence.retired /\ ~Active(s) /\ fence.active # Null

\* A source that left the fence is among the retired ones, and stays there.
LEMMA GoneStays ==
    ASSUME IInv, [Next]_vars, NEW s \in Source
    PROVE  /\ Active(s) => Active(s)' \/ Gone(s)'
           /\ Gone(s) => Gone(s)'
<1> USE NullIsNoGeneration
<1>1. fence \in [active : Gen \cup {Null}, safe : Gen \cup {Null},
                 status : {"NONE", "ACTIVE", "FROZEN"}, retired : SUBSET Source]
  BY DEF IInv, TypeOK
<1>2. CASE fence' = fence
  BY <1>2 DEF Active, Gone
<1>3. ASSUME fence' = FenceFrozen
      PROVE  fence'.active = fence.active /\ fence'.retired = fence.retired
  BY <1>1, <1>3 DEF FenceFrozen
<1>4. ASSUME NEW g \in Gen, FenceAdmits(g), fence' = FenceActivated(g), fence.active # Null
      PROVE  /\ fence'.active = g /\ g # Null
             /\ fence'.retired = fence.retired \cup {SourceOf[fence.active]}
             /\ SourceOf[g] \notin fence.retired \cup {SourceOf[fence.active]}
  BY <1>1, <1>4 DEF FenceAdmits, FenceActivated
<1>5. CASE fence' = FenceFrozen
  BY <1>3, <1>5 DEF Active, Gone
<1>6. CASE fence.active = Null
  BY <1>6 DEF Active, Gone
<1>7. CASE fence.active # Null /\ \E g \in Gen : FenceAdmits(g) /\ fence' = FenceActivated(g)
  BY <1>4, <1>7 DEF Active, Gone
<1> QED
  BY <1>2, <1>5, <1>6, <1>7, FenceMoves

(* A source that was active and left never becomes active again, under any  *)
(* generation.                                                              *)
THEOREM NeverReturns == Spec => SourceNeverReturns
<1> SUFFICES ASSUME NEW s \in Source
             PROVE  Spec => [](fence.active # Null /\ SourceOf[fence.active] = s =>
                       [](~(fence.active # Null /\ SourceOf[fence.active] = s) =>
                            []~(fence.active # Null /\ SourceOf[fence.active] = s)))
  BY DEF SourceNeverReturns
<1>1. IInv /\ [Next]_vars => (Active(s) => Active(s)' \/ Gone(s)') /\ (Gone(s) => Gone(s)')
  BY GoneStays
<1>2. Gone(s) => ~Active(s)
  BY DEF Gone
<1>3. Spec => [](Active(s) => [](~Active(s) => []~Active(s)))
  BY <1>1, <1>2, Invariant, PTL DEF Spec
<1> QED
  BY <1>3 DEF Active

-----------------------------------------------------------------------------
\* What review and activation write of entries and approvals.
LEMMA EntriesMove ==
    ASSUME [Next]_vars
    PROVE  \/ \E g \in Gen, how \in {"plain", "widening"} : Approve(g, how)
           \/ \E g \in Gen : Validate(g)
           \/ /\ UNCHANGED <<base, approval>>
              /\ \/ UNCHANGED state
                 \/ ActivateRecord
                 \/ \E g \in Gen, to \in {"DRAFT", "SIMULATED", "STAGED", "RETIRED", "REVOKED"} :
                      /\ state' = [state EXCEPT ![g] = to]
                      /\ to = "DRAFT" => state[g] = "NONE"
                      /\ to = "SIMULATED" => state[g] = "VALIDATED"
                 \/ RevokeRecord
BY DEF Next, vars, record, Draft, Simulate, Stage, Step, ActivateFence, ActivateRecord,
       ActivateUnrecorded, Retire, RevokeInactive, Freeze, RevokeRecord, DivergeRecord,
       ConfirmRollout, Abandon, Expire

\* No entry has an approval before it is approved.
LEMMA UnreviewedInductive ==
    ASSUME IInv, Unreviewed, [Next]_vars
    PROVE  Unreviewed'
<1> USE NullIsNoGeneration DEF Unreviewed
<1>1. /\ state \in [Gen -> Entry] /\ approval \in [Gen -> {"none", "plain", "widening"}]
      /\ HalfDone
  BY DEF IInv, TypeOK
<1>2. ASSUME NEW g \in Gen, NEW how \in {"plain", "widening"}, Approve(g, how)
      PROVE  Unreviewed'
  BY <1>1, <1>2 DEF Approve, Step
<1>3. ASSUME NEW g \in Gen, Validate(g) PROVE Unreviewed'
  BY <1>1, <1>3 DEF Validate, Step
<1>4. CASE UNCHANGED <<approval, state>>
  BY <1>4
<1>5. ASSUME NEW g \in Gen, NEW to \in {"DRAFT", "SIMULATED", "STAGED", "RETIRED", "REVOKED"},
             state' = [state EXCEPT ![g] = to], UNCHANGED approval,
             to = "DRAFT" => state[g] = "NONE", to = "SIMULATED" => state[g] = "VALIDATED"
      PROVE  Unreviewed'
  BY <1>1, <1>5
<1>6. CASE ActivateRecord
  BY <1>1, <1>6 DEF ActivateRecord
<1>7. CASE RevokeRecord
  BY <1>1, <1>7 DEF RevokeRecord
<1> QED
  BY <1>2, <1>3, <1>4, <1>5, <1>6, <1>7, EntriesMove

\* ... from the first state on.
LEMMA ReviewInvariant == Spec => []Unreviewed
<1>1. Init => Unreviewed
  BY DEF Init, Unreviewed
<1> QED
  BY <1>1, UnreviewedInductive, Invariant, PTL DEF Spec

\* A review that is approved is cleared for good: no other step touches it.
LEMMA ApprovalClears ==
    ASSUME IInv, NEW g \in Gen, NEW how \in {"plain", "widening"}, Approve(g, how)
    PROVE  Cleared' = Cleared \cup {g}
<1>1. /\ approval' = [approval EXCEPT ![g] = how] /\ base' = base
      /\ Widens(base[g], g) => how = "widening"
  BY DEF Approve
<1>2. \A h \in Gen : approval'[h] = IF h = g THEN how ELSE approval[h]
  BY <1>1 DEF IInv, TypeOK
<1>3. \A h \in Gen : Widens(base[h], h)' = Widens(base[h], h)
  BY <1>1 DEF Widens
<1> QED
  BY <1>1, <1>2, <1>3 DEF Cleared

\* ... and a new validation is of an entry that has no approval yet.
LEMMA ClearedStays ==
    ASSUME IInv, Unreviewed,
           UNCHANGED <<base, approval>> \/ \E g \in Gen : Validate(g)
    PROVE  UNCHANGED Cleared
<1>1. CASE UNCHANGED <<base, approval>>
  BY <1>1 DEF Cleared, Widens
<1>2. ASSUME NEW g \in Gen, Validate(g) PROVE UNCHANGED Cleared
  <2>1. /\ approval' = approval /\ base' = [base EXCEPT ![g] = active]
        /\ approval[g] = "none"
    BY <1>2 DEF Validate, Step, Unreviewed
  <2>2. \A h \in Gen : h # g => base'[h] = base[h]
    BY <2>1 DEF IInv, TypeOK
  <2> QED
    BY <2>1, <2>2 DEF Cleared, Widens
<1> QED
  BY <1>1, <1>2

\* The steps that touch neither fence, dispatch nor active generation, and
\* leave no operation half done.
LEMMA ForceAside ==
    ASSUME UNCHANGED <<active, dispatch, fence, running>>
    PROVE  UNCHANGED <<fence.active, Turn, Spent>>
BY DEF Turn, Uses, FenceUses, Spent

(* Every step of the manager is one of PolicyInForce or none. *)
LEMMA ForceStep ==
    ASSUME IInv, Unreviewed, [Next]_vars
    PROVE  [InForce!Next]_InForce!vars
<1> USE NullIsNoGeneration
<1>1. /\ HalfDone
      /\ state \in [Gen -> Entry]
      /\ \A g \in Gen : state[g] = "ACTIVE" <=> active = g
      /\ fence \in [active : Gen \cup {Null}, safe : Gen \cup {Null},
                    status : {"NONE", "ACTIVE", "FROZEN"}, retired : SUBSET Source]
  BY DEF IInv, TypeOK
<1>2. ASSUME NEW g \in Gen, NEW how \in {"plain", "widening"}, Approve(g, how)
      PROVE  InForce!Clear(g)
  <2>1. Cleared' = Cleared \cup {g}
    BY <1>2, ApprovalClears
  <2> QED
    BY <1>2, <2>1, ForceAside DEF Approve, Step, InForce!Clear
<1>3. ASSUME UNCHANGED Cleared, UNCHANGED <<active, dispatch, fence, running>>
      PROVE  UNCHANGED InForce!vars
  BY <1>3, ForceAside DEF InForce!vars
<1>4. ASSUME NEW g \in Gen, ActivateFence(g), UNCHANGED Cleared PROVE InForce!Call(g)
  <2>1. /\ g > fence.active /\ fence'.active = g /\ g # Null
        /\ fence.active # Null => SourceOf[g] \notin fence.retired \cup {SourceOf[fence.active]}
        /\ fence'.retired = IF fence.active = Null THEN {}
                            ELSE fence.retired \cup {SourceOf[fence.active]}
        /\ running'.op = "activate"
    BY <1>4 DEF ActivateFence, FenceAdmits, FenceActivated
  <2>2. SourceOf[g] \notin Spent /\ Spent' = Spent \cup {SourceOf[g]} /\ Turn' = "called"
    BY <2>1 DEF Spent, Turn
  <2> QED
    BY <1>4, <2>1, <2>2 DEF InForce!Call
<1>5. ASSUME ActivateRecord, UNCHANGED Cleared PROVE InForce!Enforce
  <2>1. /\ running.op = "activate" /\ fence.active = running.gen /\ fence.status = "ACTIVE"
        /\ state[running.gen] = "STAGED" /\ running.gen \in Gen
        /\ dispatch' = "ACTIVE" /\ active' = running.gen /\ fence' = fence /\ running' = Idle
    BY <1>1, <1>5 DEF ActivateRecord, HalfDone
  <2>2. Turn = "called" /\ Turn' = "inForce" /\ Spent' = Spent
    BY <2>1 DEF Turn, Uses, FenceUses, Spent, Idle
  <2>3. fence.active \in Cleared
    BY <2>1 DEF IInv, Reviewed, Cleared
  <2> QED
    BY <1>5, <2>1, <2>2, <2>3 DEF InForce!Enforce
<1>6. ASSUME UNCHANGED Cleared, fence' = fence \/ fence' = FenceFrozen,
             running'.op # "activate", ~Uses(fence.active)'
      PROVE  [InForce!Withdraw]_InForce!vars
  <2>1. fence'.active = fence.active /\ fence'.retired = fence.retired
    BY <1>1, <1>6 DEF FenceFrozen
  <2>2. Turn' = "over" /\ Spent' = Spent
    BY <1>6, <2>1 DEF Turn, Spent
  <2> QED
    BY <1>6, <2>1, <2>2 DEF InForce!Withdraw, InForce!vars
<1>7. ASSUME NEW g \in Gen, NEW op \in {"revoke", "diverge"}, Freeze(op, g)
      PROVE  [InForce!Withdraw]_InForce!vars
  <2>1. fence' = FenceFrozen /\ running'.op # "activate" /\ UNCHANGED <<base, approval>>
    BY <1>7 DEF Freeze, record
  <2>2. ~Uses(fence.active)'
    BY <1>1, <2>1 DEF Uses, FenceUses, FenceFrozen
  <2> QED
    BY <1>6, <2>1, <2>2, ClearedStays
<1>8. ASSUME ActivateUnrecorded \/ RevokeRecord \/ DivergeRecord
      PROVE  [InForce!Withdraw]_InForce!vars
  <2>1. /\ fence' = fence \/ fence' = FenceFrozen
        /\ running'.op # "activate" /\ UNCHANGED <<base, approval>>
    BY <1>8 DEF ActivateUnrecorded, RevokeRecord, DivergeRecord, record, Idle
  <2>2. fence'.status = "FROZEN" \/ dispatch' = "FROZEN"
    BY <1>1, <1>8 DEF ActivateUnrecorded, RevokeRecord, DivergeRecord, FenceFrozen
  <2>3. ~Uses(fence.active)'
    BY <2>2 DEF Uses, FenceUses
  <2> QED
    BY <1>6, <2>1, <2>3, ClearedStays
<1>9. ASSUME Abandon PROVE [InForce!Withdraw]_InForce!vars
  <2>1. /\ running' = Idle /\ UNCHANGED <<state, base, approval, active, dispatch, fence>>
    BY <1>9 DEF Abandon, record
  <2>2. CASE running.op = "activate"
    <3>1. active # fence.active
      BY <1>1, <2>2 DEF HalfDone
    <3> QED
      BY <1>6, <2>1, <3>1, ClearedStays DEF Uses, Idle
  <2>3. CASE running.op # "activate"
    <3>1. Turn' = Turn /\ Spent' = Spent
      BY <2>1, <2>3 DEF Turn, Uses, FenceUses, Spent, Idle
    <3> QED
      BY <2>1, <3>1, ClearedStays DEF InForce!vars
  <2> QED
    BY <2>2, <2>3
<1>10. ASSUME NEW g \in Gen, Validate(g) PROVE UNCHANGED InForce!vars
  BY <1>3, <1>10, ClearedStays DEF Validate, Step
<1>11. ASSUME NEW g \in Gen,
              \/ Draft(g) \/ Simulate(g) \/ Stage(g) \/ Retire(g) \/ RevokeInactive(g)
              \/ ConfirmRollout(g) \/ Expire(g)
       PROVE  UNCHANGED InForce!vars
  <2>1. UNCHANGED <<base, approval, active, dispatch, fence, running>>
    BY <1>11 DEF Draft, Simulate, Stage, Step, Retire, RevokeInactive, ConfirmRollout, Expire,
                 record
  <2> QED
    BY <1>3, <2>1, ClearedStays
<1>12. CASE UNCHANGED vars
  BY <1>3, <1>12, ClearedStays DEF vars, record
<1>13. ASSUME NEW g \in Gen, ActivateFence(g) PROVE UNCHANGED <<base, approval>>
  BY <1>13 DEF ActivateFence, record
<1>14. ASSUME ActivateRecord PROVE UNCHANGED <<base, approval>>
  BY <1>14 DEF ActivateRecord
<1> QED
  BY <1>2, <1>4, <1>5, <1>7, <1>8, <1>9, <1>10, <1>11, <1>12, <1>13, <1>14, ClearedStays
     DEF Next, InForce!Next

(* What a use of a policy sees through both files, whichever operation      *)
(* stopped between its writes, is a generation in force: called once, in    *)
(* rising order and with a new source, in force only after its review was   *)
(* approved, and never again once it left.                                  *)
THEOREM LifecycleKeepsForce == Spec => KeepsForce
<1>1. Init => InForce!Init
  BY DEF Init, NoFence, Idle, InForce!Init, Cleared, Turn, Uses, FenceUses, Spent
<1>2. IInv /\ Unreviewed /\ [Next]_vars => [InForce!Next]_InForce!vars
  BY ForceStep
<1> QED
  BY <1>1, <1>2, Invariant, ReviewInvariant, PTL DEF Spec, KeepsForce, InForce!Spec
=============================================================================
