------------------------ MODULE JournalControl_proofs ------------------------
(* What TLAPS proves of the control ledger for every set of operations and   *)
(* targets and every limit.                                                  *)
EXTENDS JournalControl, FiniteSetTheorems, TLAPS

(* Controls and their keys: a control is never None, and its key tells its   *)
(* kind and what it names.                                                   *)
LEMMA ControlShape ==
  ASSUME NEW c \in Control
  PROVE  /\ c # None
         /\ c.epoch \in Nat /\ c.epoch > 0
         /\ KeyOf(c) \in ControlKey
         /\ c.kind = "REVOKE" => KeyOf(c) = <<"REVOKE", c.op>>
         /\ c.kind = "STOP" => KeyOf(c) = <<"STOP", c.pair>>
         /\ c.kind \in {"REVOKE", "STOP"}
  BY LimitsAssumption DEF Control, None, KeyOf, ControlKey, Epoch

(* The shape of the ledger is preserved by every recording. *)
LEMMA TypeStep == TypeOK /\ [Next]_vars => TypeOK'
<1> SUFFICES ASSUME TypeOK, [Next]_vars PROVE TypeOK'
  OBVIOUS
<1>1. ASSUME NEW c \in Control, Record(c) PROVE TypeOK'
  <2>1. fences' = [fences EXCEPT ![KeyOf(c)] = c] /\ KeyOf(c) \in ControlKey
    BY <1>1, ControlShape DEF Record, Fence
  <2>2. records' \in SUBSET Control
    BY <1>1 DEF Record, Pruned, TypeOK
  <2>3. fences' \in [ControlKey -> Control \cup {None}]
    BY <2>1 DEF TypeOK
  <2>4. \A key \in Fenced' : KeyOf(fences'[key]) = key
    BY <2>1 DEF TypeOK, Fenced
  <2>5. admitted' \in SUBSET Control
    BY <1>1 DEF Record, TypeOK
  <2> QED
    BY <2>2, <2>3, <2>4, <2>5 DEF TypeOK, KeyOf
<1>2. CASE UNCHANGED vars
  BY <1>2 DEF vars, TypeOK, Fenced, KeyOf
<1> QED
  BY <1>1, <1>2 DEF Next

(* The ledger is well formed in every reachable state. *)
THEOREM TypeCorrect == Spec => []TypeOK
<1>1. Init => TypeOK
  BY DEF Init, TypeOK, Fenced
<1> QED
  BY <1>1, TypeStep, PTL DEF Spec

(* A recorded control is never dropped or lowered. *)
THEOREM FencesHold == Spec => []FenceHolds
<1>1. Init => FenceHolds
  BY DEF Init, FenceHolds
<1>2. TypeOK /\ FenceHolds /\ [Next]_vars => FenceHolds'
  <2> SUFFICES ASSUME TypeOK, FenceHolds, [Next]_vars PROVE FenceHolds'
    OBVIOUS
  <2>1. ASSUME NEW c \in Control, Record(c), NEW d \in admitted'
        PROVE  fences'[KeyOf(d)].epoch >= d.epoch
    <3>1. /\ fences' = [fences EXCEPT ![KeyOf(c)] = c] /\ KeyOf(c) \in ControlKey
          /\ c.epoch \in Nat /\ fences[KeyOf(c)].epoch < c.epoch
      BY <2>1, ControlShape DEF Record, Fence, Rises
    <3>2. CASE d = c
      BY <3>1, <3>2 DEF TypeOK
    <3>3. CASE d # c
      <4>1. d \in admitted /\ d \in Control
        BY <2>1, <3>3 DEF Record, TypeOK
      <4>2. /\ KeyOf(d) \in ControlKey /\ d.epoch \in Nat
            /\ fences[KeyOf(d)].epoch >= d.epoch
        BY <4>1, ControlShape DEF FenceHolds
      <4>3. fences[KeyOf(d)].epoch \in Nat
        BY <4>2, ControlShape DEF TypeOK, None
      <4> QED
        BY <3>1, <4>2, <4>3 DEF TypeOK
    <3> QED
      BY <3>2, <3>3
  <2>2. CASE UNCHANGED vars
    BY <2>2 DEF vars, FenceHolds, KeyOf
  <2> QED
    BY <2>1, <2>2 DEF Next, FenceHolds, KeyOf
<1> QED
  BY <1>1, <1>2, TypeCorrect, PTL DEF Spec

(* The fence of a key is the control last recorded for it. *)
LEMMA FenceRecorded == Spec => []FenceIsRecorded
<1>1. Init => FenceIsRecorded
  BY DEF Init, FenceIsRecorded, Fenced
<1>2. TypeOK /\ FenceHolds /\ FenceIsRecorded /\ [Next]_vars => FenceIsRecorded'
  <2> SUFFICES ASSUME TypeOK, FenceHolds, FenceIsRecorded, [Next]_vars
               PROVE  FenceIsRecorded'
    OBVIOUS
  <2>1. ASSUME NEW c \in Control, Record(c) PROVE FenceIsRecorded'
    <3>1. /\ fences' = [fences EXCEPT ![KeyOf(c)] = c] /\ KeyOf(c) \in ControlKey
          /\ admitted' = admitted \cup {c}
          /\ c.epoch \in Nat /\ fences[KeyOf(c)].epoch < c.epoch
      BY <2>1, ControlShape DEF Record, Fence, Rises
    <3>2. ASSUME NEW key \in Fenced' PROVE fences'[key] \in admitted'
      BY <3>1, <3>2 DEF Fenced, FenceIsRecorded, TypeOK
    <3>3. ASSUME NEW d \in admitted', fences'[KeyOf(d)].epoch = d.epoch
          PROVE  fences'[KeyOf(d)] = d
      <4>1. CASE d = c
        BY <3>1, <4>1 DEF TypeOK
      <4>2. CASE d # c
        <5>1. d \in admitted /\ d \in Control /\ KeyOf(d) \in ControlKey /\ d.epoch \in Nat
          BY <3>1, <4>2, ControlShape DEF TypeOK
        <5>2. fences[KeyOf(d)].epoch >= d.epoch /\ fences[KeyOf(d)].epoch \in Nat
          BY <5>1, ControlShape DEF FenceHolds, TypeOK, None
        <5>3. CASE KeyOf(d) = KeyOf(c)
          <6>1. fences'[KeyOf(d)] = c
            BY <3>1, <5>1, <5>3 DEF TypeOK
          <6> QED
            BY <3>1, <3>3, <5>1, <5>2, <5>3, <6>1
        <5>4. CASE KeyOf(d) # KeyOf(c)
          BY <3>1, <3>3, <5>1, <5>4 DEF FenceIsRecorded, TypeOK
        <5> QED
          BY <5>3, <5>4
      <4> QED
        BY <4>1, <4>2
    <3> QED
      BY <3>2, <3>3 DEF FenceIsRecorded, KeyOf
  <2>2. CASE UNCHANGED vars
    BY <2>2 DEF vars, FenceIsRecorded, Fenced, KeyOf
  <2> QED
    BY <2>1, <2>2 DEF Next
<1> QED
  BY <1>1, <1>2, TypeCorrect, FencesHold, PTL DEF Spec

(* A recorded STOP denies every new effect of its source and target, and a   *)
(* recorded REVOKE all of its operation, and its source and target until the *)
(* operation is revoked again, whatever is recorded later.                   *)
THEOREM WindowNeverEnds == Spec => []ControlWindowNeverEnds
<1>1. TypeOK /\ FenceHolds /\ FenceIsRecorded => ControlWindowNeverEnds
  <2> SUFFICES ASSUME TypeOK, FenceHolds, FenceIsRecorded, NEW c \in admitted
               PROVE  /\ c.kind = "STOP" => \A op \in OpKey : Denies(op, c.pair)
                      /\ c.kind = "REVOKE" =>
                           /\ \A pair \in Pair : Revoked(c.op, pair)
                           /\ Replaced(c) \/ \A op \in OpKey : Revoked(op, c.pair)
    BY DEF ControlWindowNeverEnds
  <2> DEFINE fence == fences[KeyOf(c)]
  <2>1. c \in Control /\ KeyOf(c) \in ControlKey /\ c.epoch > 0 /\ c.epoch \in Nat
    BY ControlShape DEF TypeOK
  <2>2. fence.epoch >= c.epoch
    BY DEF FenceHolds
  <2>3. fence # None /\ fence \in Control
    BY <2>1, <2>2 DEF TypeOK, None
  <2>4. fence \in Binding /\ KeyOf(fence) = KeyOf(c)
    BY <2>1, <2>3 DEF TypeOK, Fenced, Binding
  <2>5. /\ fence.kind = c.kind
        /\ c.kind = "STOP" => fence.pair = c.pair
        /\ c.kind = "REVOKE" => fence.op = c.op
    BY <2>1, <2>3, <2>4, ControlShape
  <2>6. ASSUME c.kind = "REVOKE", NEW op \in OpKey
        PROVE  Replaced(c) \/ Revoked(op, c.pair)
    <3>1. CASE fence.epoch = c.epoch
      <4>1. fence = c
        BY <3>1 DEF FenceIsRecorded
      <4> QED
        BY <2>4, <2>6, <4>1 DEF Revoked
    <3>2. CASE fence.epoch # c.epoch
      <4>1. fence.epoch > c.epoch
        BY <2>1, <2>2, <2>3, <3>2, ControlShape
      <4>2. fence \in admitted
        BY <2>1, <2>3 DEF FenceIsRecorded, Fenced
      <4> QED
        BY <2>5, <2>6, <4>1, <4>2 DEF Replaced
    <3> QED
      BY <3>1, <3>2
  <2> QED
    BY <2>4, <2>5, <2>6 DEF Denies, Revoked
<1> QED
  BY <1>1, TypeCorrect, FencesHold, FenceRecorded, PTL

(* The ledger implements the denials it promises: every record raises one    *)
(* key's epoch, within the limit, and touches no other.                      *)
THEOREM LedgerKeepsPromise == Spec => PromiseKept
<1>1. Init => Promise!Init
  BY DEF Init, Promise!Init, Level, None
<1>2. TypeOK /\ [Next]_vars => [Promise!Next]_Level
  <2> SUFFICES ASSUME TypeOK, [Next]_vars PROVE [Promise!Next]_Level
    OBVIOUS
  <2>1. ASSUME NEW c \in Control, Record(c) PROVE Promise!Raise(KeyOf(c), c.epoch)
    <3>1. /\ fences' = [fences EXCEPT ![KeyOf(c)] = c] /\ KeyOf(c) \in ControlKey
          /\ c.epoch > fences[KeyOf(c)].epoch /\ HasRoom(c)
      <4>1. fences[KeyOf(c)].epoch \in Nat /\ c.epoch \in Nat /\ KeyOf(c) \in ControlKey
        BY ControlShape DEF TypeOK, None
      <4> QED
        BY <2>1, <4>1 DEF Record, Fence, Rises
    <3>2. Promise!Denied = Fenced
      BY ControlShape DEF Promise!Denied, Fenced, Level, TypeOK, None
    <3>3. Level' = [Level EXCEPT ![KeyOf(c)] = c.epoch]
      BY <3>1 DEF Level, TypeOK
    <3>4. Level[KeyOf(c)] = fences[KeyOf(c)].epoch
      BY <3>1 DEF Level
    <3> QED
      BY <3>1, <3>2, <3>3, <3>4 DEF Promise!Raise, HasRoom, Promise!Cardinality, Cardinality
  <2>2. CASE UNCHANGED vars
    BY <2>2 DEF vars, Level
  <2>3. ASSUME NEW c \in Control PROVE KeyOf(c) \in ControlKey /\ c.epoch \in Epoch
    BY ControlShape DEF Control
  <2> QED
    BY <2>1, <2>2, <2>3 DEF Next, Promise!Next
<1> QED
  BY <1>1, <1>2, TypeCorrect, PTL DEF Spec, PromiseKept, Promise!Spec

(* Detail records and fences keep to their limits. *)
THEOREM LedgerBounded == Spec => []Bounded
<1> DEFINE Sizes == IsFiniteSet(records) /\ IsFiniteSet(Fenced) /\ Bounded
<1>1. Init => Sizes
  <2> SUFFICES ASSUME Init PROVE Sizes
    OBVIOUS
  <2>1. records = {} /\ Fenced = {}
    BY DEF Init, Fenced
  <2> QED
    BY <2>1, FS_EmptySet, LimitsAssumption DEF Bounded
<1>2. TypeOK /\ Sizes /\ [Next]_vars => Sizes'
  <2> SUFFICES ASSUME TypeOK, Sizes, [Next]_vars PROVE Sizes'
    OBVIOUS
  <2>1. ASSUME NEW c \in Control, Record(c) PROVE Sizes'
    <3>1. /\ fences' = [fences EXCEPT ![KeyOf(c)] = c] /\ KeyOf(c) \in ControlKey /\ c # None
      BY <2>1, ControlShape DEF Record, Fence
    <3>2. Fenced' = Fenced \cup {KeyOf(c)}
      BY <3>1 DEF Fenced, TypeOK
    <3>3. IsFiniteSet(Fenced') /\ Cardinality(Fenced') <= FenceLimit
      <4>1. CASE KeyOf(c) \in Fenced
        <5>1. Fenced' = Fenced
          BY <3>2, <4>1
        <5> QED
          BY <5>1 DEF Bounded
      <4>2. CASE KeyOf(c) \notin Fenced /\ Cardinality(Fenced) < FenceLimit
        <5>1. Cardinality(Fenced) \in Nat
          BY FS_CardinalityType
        <5>2. /\ IsFiniteSet(Fenced \cup {KeyOf(c)})
              /\ Cardinality(Fenced \cup {KeyOf(c)}) = Cardinality(Fenced) + 1
          BY <4>2, FS_AddElement
        <5> QED
          BY <3>2, <4>2, <5>1, <5>2, LimitsAssumption
      <4> QED
        BY <2>1, <4>1, <4>2 DEF Record, HasRoom
    <3>4. IsFiniteSet(records') /\ Cardinality(records') <= RecordLimit
      <4> DEFINE all == records \cup {c}
      <4>1. /\ IsFiniteSet(all) /\ Cardinality(all) \in Nat
            /\ Cardinality(all) <= RecordLimit + 1
        <5>1. IsFiniteSet(records) /\ Cardinality(records) \in Nat
          BY FS_CardinalityType
        <5>2. /\ IsFiniteSet(all)
              /\ Cardinality(all) \in {Cardinality(records), Cardinality(records) + 1}
          BY <5>1, FS_AddElement
        <5> QED
          BY <5>1, <5>2, LimitsAssumption DEF Bounded
      <4>2. CASE records' = all /\ Cardinality(all) <= RecordLimit
        BY <4>1, <4>2
      <4>3. ASSUME NEW old \in all, records' = all \ {old}
            PROVE  IsFiniteSet(records') /\ Cardinality(records') <= RecordLimit
        <5>1. /\ IsFiniteSet(all \ {old})
              /\ Cardinality(all \ {old}) = Cardinality(all) - 1
          BY <4>1, FS_RemoveElement
        <5> QED
          BY <4>1, <4>3, <5>1, LimitsAssumption
      <4> QED
        BY <2>1, <4>2, <4>3 DEF Record, Pruned
    <3> QED
      BY <3>3, <3>4 DEF Bounded
  <2>2. CASE UNCHANGED vars
    BY <2>2 DEF vars, Fenced, Bounded
  <2> QED
    BY <2>1, <2>2 DEF Next
<1>3. Sizes => Bounded
  OBVIOUS
<1> QED
  BY <1>1, <1>2, <1>3, TypeCorrect, PTL DEF Spec
=============================================================================
