----------------------- MODULE RecoveryAttempts_proofs -----------------------
(* What TLAPS proves of recoveries over both ledgers, for every set of        *)
(* operations and targets and every limit.                                    *)
EXTENDS RecoveryAttempts, JournalControl_proofs

(* Counting an attempt keeps the counter well formed, protected from the     *)
(* bound on, and never lowers it.                                            *)
LEMMA CountedShape ==
  ASSUME CountersOK, NEW k \in OpKey
  PROVE  /\ Counted(k) \in Counter
         /\ Counted(k).exhausted <=> Counted(k).attempts >= MaxAttempts
         /\ ledger[k].attempts >= MaxAttempts => Counted(k).attempts >= MaxAttempts
<1>1. ledger[k] \in Counter \cup {Absent} /\ clock \in 0 .. MaxTime
  BY DEF CountersOK
<1>2. ledger[k].attempts \in 0 .. MaxAttempts + 1
  BY <1>1, AttemptsAssumption DEF Counter, Absent
<1>3. ledger[k].exhausted <=> ledger[k].attempts >= MaxAttempts
  BY DEF CountersOK
<1> DEFINE n == ledger[k].attempts + 1
<1>4. /\ Counted(k).attempts = IF n > MaxAttempts THEN MaxAttempts + 1 ELSE n
      /\ Counted(k).exhausted <=> (ledger[k].exhausted \/ n >= MaxAttempts)
  BY DEF Counted
<1>5. /\ Counted(k).exhausted <=> Counted(k).attempts >= MaxAttempts
      /\ ledger[k].attempts >= MaxAttempts => Counted(k).attempts >= MaxAttempts
      /\ Counted(k).attempts \in 1 .. MaxAttempts + 1
  BY <1>2, <1>3, <1>4, AttemptsAssumption
<1>6. Counted(k) \in Counter
  BY <1>1, <1>2, <1>5, AttemptsAssumption DEF Counted, Counter
<1> QED
  BY <1>5, <1>6

(* The shape of the counters is preserved by every step. *)
LEMMA CountersStep == CountersOK /\ [RecoveryNext]_recoveryVars => CountersOK'
<1> SUFFICES ASSUME CountersOK, [RecoveryNext]_recoveryVars PROVE CountersOK'
  OBVIOUS
<1>1. ASSUME NEW k \in OpKey, CountRead(k) PROVE reads' \in [OpKey -> 0 .. MaxReads]
  BY <1>1, AttemptsAssumption DEF CountRead, CountersOK
<1>2. CASE Tick
  BY <1>2, AttemptsAssumption DEF Tick, CountersOK
<1>3. ASSUME NEW k \in OpKey, RecordFits(k) PROVE CountersOK'
  <2>1. inside' \subseteq OpKey /\ clock' = clock
    BY <1>3 DEF RecordFits, Leaves, CountersOK
  <2>2. ledger' \in [OpKey -> Counter \cup {Absent}]
    BY <1>3, CountedShape DEF RecordFits, With, CountersOK
  <2>3. \A j \in OpKey : ledger'[j].exhausted <=> ledger'[j].attempts >= MaxAttempts
    BY <1>3, CountedShape DEF RecordFits, With, CountersOK
  <2>4. reads' \in [OpKey -> 0 .. MaxReads]
    BY <1>1, <1>3 DEF RecordFits
  <2> QED
    BY <2>1, <2>2, <2>3, <2>4 DEF CountersOK
<1>4. ASSUME NEW k \in OpKey, RecordEvicting(k) PROVE CountersOK'
  <2>1. PICK v \in OpKey : v # k /\ ledger' = [With(k) EXCEPT ![v] = Absent]
    BY <1>4 DEF RecordEvicting, Victims, Kept
  <2>2. Absent.exhausted = FALSE /\ Absent.attempts = 0
    BY DEF Absent
  <2>3. \A j \in OpKey : ledger'[j] = IF j = v THEN Absent
                                      ELSE IF j = k THEN Counted(k) ELSE ledger[j]
    BY <2>1 DEF With, CountersOK
  <2>4. ledger' \in [OpKey -> Counter \cup {Absent}]
    BY <2>1, CountedShape DEF With, CountersOK
  <2>5. \A j \in OpKey : ledger'[j].exhausted <=> ledger'[j].attempts >= MaxAttempts
    BY <2>2, <2>3, CountedShape, AttemptsAssumption DEF CountersOK
  <2>6. inside' \subseteq OpKey /\ clock' = clock
    BY <1>4 DEF RecordEvicting, Leaves, CountersOK
  <2>7. reads' \in [OpKey -> 0 .. MaxReads]
    BY <1>1, <1>4 DEF RecordEvicting
  <2> QED
    BY <2>4, <2>5, <2>6, <2>7 DEF CountersOK
<1>5. ASSUME NEW k \in OpKey, RecordSaturated(k) PROVE CountersOK'
  BY <1>5 DEF RecordSaturated, Leaves, counters, CountersOK
<1>6. ASSUME NEW k \in OpKey, Enter(k) \/ Leave(k) PROVE CountersOK'
  BY <1>6 DEF Enter, Leave, counters, CountersOK
<1>7. CASE UNCHANGED <<inside, counters>>
  BY <1>7 DEF counters, CountersOK
<1> QED
  BY <1>2, <1>3, <1>4, <1>5, <1>6, <1>7 DEF RecoveryNext, recoveryVars

(* Counters are well formed, and protected exactly from the bound on. *)
THEOREM CountersCorrect == RecoverySpec => []CountersOK
<1>1. RecoveryInit => CountersOK
  BY AttemptsAssumption DEF RecoveryInit, CountersOK, Absent
<1> QED
  BY <1>1, CountersStep, PTL DEF RecoverySpec

(* The control ledger beside the counters is the control ledger on its own: *)
(* what is proved of that one holds here.                                   *)
THEOREM ControlsAreControls == RecoverySpec => Spec
<1>1. RecoveryInit => Init
  BY DEF RecoveryInit
<1>2. ASSUME [RecoveryNext]_recoveryVars PROVE [Next]_vars
  <2>1. ASSUME NEW k \in OpKey, \/ Enter(k) \/ Leave(k)
                                \/ RecordFits(k) \/ RecordEvicting(k) \/ RecordSaturated(k)
        PROVE  UNCHANGED vars
    BY <2>1 DEF Enter, Leave, RecordFits, RecordEvicting, RecordSaturated
  <2>2. CASE Tick
    BY <2>2 DEF Tick
  <2>3. CASE UNCHANGED recoveryVars
    BY <2>3 DEF recoveryVars
  <2> QED
    BY <1>2, <2>1, <2>2, <2>3 DEF RecoveryNext
<1> QED
  BY <1>1, <1>2, PTL DEF RecoverySpec, Spec

(* A spent budget stays spent, and no provider read follows it: neither an  *)
(* eviction nor a new window renews it.                                     *)
THEOREM SpentForever == RecoverySpec => SpentStaysSpent
<1> DEFINE Stays == \A k \in OpKey : ledger[k].attempts >= MaxAttempts =>
                      ledger'[k].attempts >= MaxAttempts /\ reads'[k] = reads[k]
<1>1. CountersOK /\ [RecoveryNext]_recoveryVars => [Stays]_recoveryVars
  <2> SUFFICES ASSUME CountersOK, RecoveryNext, NEW k \in OpKey, ledger[k].attempts >= MaxAttempts
               PROVE  ledger'[k].attempts >= MaxAttempts /\ reads'[k] = reads[k]
    OBVIOUS
  <2>1. ASSUME NEW j \in OpKey, CountRead(j) PROVE reads'[k] = reads[k]
    <3>1. ~Grants(k)
      BY AttemptsAssumption DEF Grants, CountersOK, Counter, Absent
    <3> QED
      BY <2>1, <3>1 DEF CountRead, CountersOK
  <2>2. CASE Tick
    BY <2>2 DEF Tick
  <2>3. ASSUME NEW j \in OpKey, RecordFits(j)
        PROVE  ledger'[k].attempts >= MaxAttempts /\ reads'[k] = reads[k]
    BY <2>1, <2>3, CountedShape DEF RecordFits, With, CountersOK
  <2>4. ASSUME NEW j \in OpKey, RecordEvicting(j)
        PROVE  ledger'[k].attempts >= MaxAttempts /\ reads'[k] = reads[k]
    <3>1. PICK v \in OpKey : ~ledger[v].exhausted /\ ledger' = [With(j) EXCEPT ![v] = Absent]
      BY <2>4 DEF RecordEvicting, Victims, Kept
    <3>2. v # k
      BY <3>1 DEF CountersOK
    <3>3. ledger'[k] = IF k = j THEN Counted(j) ELSE ledger[k]
      BY <3>1, <3>2 DEF With, CountersOK
    <3> QED
      BY <2>1, <2>4, <3>3, CountedShape DEF RecordEvicting
  <2>5. ASSUME NEW j \in OpKey, Enter(j) \/ Leave(j) \/ RecordSaturated(j)
        PROVE  ledger'[k].attempts >= MaxAttempts /\ reads'[k] = reads[k]
    BY <2>5 DEF Enter, Leave, RecordSaturated, counters
  <2>6. CASE UNCHANGED <<inside, counters>>
    BY <2>6 DEF counters
  <2> QED
    BY <2>2, <2>3, <2>4, <2>5, <2>6 DEF RecoveryNext
<1> QED
  BY <1>1, CountersCorrect, PTL DEF RecoverySpec, SpentStaysSpent

(* assertEffectControl keeps a revoked operation out for good, whatever is   *)
(* pruned or replaced: the provider is not read for it again.                *)
THEOREM RevokedIsLeftAlone == RecoverySpec => RevokedReadsNoMore
<1> DEFINE Alone == \A k \in OpKey : Named(k) /\ k \notin inside =>
                       k \notin inside' /\ reads'[k] = reads[k]
<1>1. CountersOK /\ ControlWindowNeverEnds /\ [RecoveryNext]_recoveryVars => [Alone]_recoveryVars
  <2> SUFFICES ASSUME CountersOK, ControlWindowNeverEnds, RecoveryNext,
                      NEW k \in OpKey, Named(k), k \notin inside
               PROVE  k \notin inside' /\ reads'[k] = reads[k]
    OBVIOUS
  <2>1. ~Admitted(k)
    BY AttemptsAssumption DEF Named, ControlWindowNeverEnds, Admitted
  <2>2. ASSUME NEW j \in OpKey, Enter(j) \/ Leave(j) \/ RecordSaturated(j)
        PROVE  k \notin inside' /\ reads'[k] = reads[k]
    BY <2>1, <2>2 DEF Enter, Leave, RecordSaturated, Leaves, counters
  <2>3. ASSUME NEW j \in OpKey, RecordFits(j) \/ RecordEvicting(j)
        PROVE  k \notin inside' /\ reads'[k] = reads[k]
    BY <2>3 DEF RecordFits, RecordEvicting, Leaves, CountRead, CountersOK
  <2>4. CASE Tick \/ UNCHANGED <<inside, counters>>
    BY <2>4 DEF Tick, counters
  <2> QED
    BY <2>2, <2>3, <2>4 DEF RecoveryNext
<1> QED
  BY <1>1, CountersCorrect, ControlsAreControls, WindowNeverEnds, PTL
     DEF RecoverySpec, RevokedReadsNoMore
=============================================================================
