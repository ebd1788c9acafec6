--------------------------- MODULE JournalControl ---------------------------
(***************************************************************************)
(* The STOP/REVOKE ledger of demo/runtime/local-journal-owner.mjs and what *)
(* the gate's assertEffectControl reads from it.                           *)
(*                                                                         *)
(* Recording a control is one synchronous read-modify-rename.  The ledger  *)
(* keeps a few detailed records and one fence per control key.  Issue      *)
(* times only order records of one epoch: which of them is pruned first    *)
(* is left open.                                                           *)
(***************************************************************************)
EXTENDS Naturals, FiniteSets

CONSTANTS
    OpKey,          \* operation keys
    Pair,           \* source/target identities
    MaxEpoch,       \* bound: stop epochs
    RecordLimit,    \* LOCAL_JOURNAL_CONTROL_LIMIT
    FenceLimit,     \* LOCAL_JOURNAL_CONTROL_FENCE_LIMIT
    NoOp

ASSUME NoOpAssumption == NoOp \notin OpKey

ASSUME LimitsAssumption ==
    /\ MaxEpoch \in Nat
    /\ RecordLimit \in Nat \ {0}
    /\ FenceLimit \in Nat \ {0}

VARIABLES
    records,        \* the bounded detail records
    fences,         \* per control key, the control that holds it, or None
    admitted        \* every control recorded so far

vars == <<records, fences, admitted>>

Epoch == 1 .. MaxEpoch
Control == [kind : {"REVOKE"}, op : OpKey, pair : Pair, epoch : Epoch]
           \cup [kind : {"STOP"}, op : {NoOp}, pair : Pair, epoch : Epoch]
None == [kind |-> "NONE", op |-> NoOp, pair |-> NoOp, epoch |-> 0]

ControlKey == ({"REVOKE"} \X OpKey) \cup ({"STOP"} \X Pair)

\* A REVOKE is known by its operation, a STOP by its source and target.
KeyOf(c) == IF c.kind = "REVOKE" THEN <<"REVOKE", c.op>> ELSE <<"STOP", c.pair>>

-----------------------------------------------------------------------------
Fenced == {key \in ControlKey : fences[key] # None}

\* Slip: only a REVOKE's epoch is compared with the retained one.
RisesForRevoke(c) ==
    c.kind = "REVOKE" =>
        /\ fences[KeyOf(c)].epoch < c.epoch
        /\ \A old \in records : KeyOf(old) = KeyOf(c) => old.epoch < c.epoch

\* The retained epoch of the key, in its fence and records, is below the new one.
Rises(c) ==
    /\ fences[KeyOf(c)].epoch < c.epoch
    /\ \A old \in records : KeyOf(old) = KeyOf(c) => old.epoch < c.epoch

HasRoom(c) == KeyOf(c) \in Fenced \/ Cardinality(Fenced) < FenceLimit

\* What pruning may keep: all, or all but one of the lowest epoch.
Pruned(all) ==
    IF Cardinality(all) <= RecordLimit THEN {all}
    ELSE {all \ {old} : old \in {c \in all : \A d \in all : c.epoch <= d.epoch}}

\* Slip: only records, and no fence, hold a REVOKE.
FenceStopsOnly(c) ==
    fences' = IF c.kind = "STOP" THEN [fences EXCEPT ![KeyOf(c)] = c] ELSE fences

Fence(c) == fences' = [fences EXCEPT ![KeyOf(c)] = c]

Record(c) ==
    /\ Rises(c)
    /\ HasRoom(c)
    /\ records' \in Pruned(records \cup {c})
    /\ Fence(c)
    /\ admitted' = admitted \cup {c}

Init ==
    /\ records = {}
    /\ fences = [key \in ControlKey |-> None]
    /\ admitted = {}

Next == \E c \in Control : Record(c)

Spec == Init /\ [][Next]_vars

-----------------------------------------------------------------------------
(* assertEffectControl: what the gate reads *)

Binding == records \cup {fences[key] : key \in Fenced}

Revoked(op, pair) ==
    \E c \in Binding : c.kind = "REVOKE" /\ (c.op = op \/ c.pair = pair)

Saturated == Cardinality(Fenced) >= FenceLimit

\* A new effect is denied; recovery of a durable AMBIGUOUS one only by REVOKE.
Denies(op, pair) ==
    \/ Revoked(op, pair)
    \/ Saturated
    \/ \E c \in Binding : c.kind = "STOP" /\ c.pair = pair

-----------------------------------------------------------------------------
(* Properties *)

\* The ledger is well formed: a fence is filed under its own key.
TypeOK ==
    /\ records \in SUBSET Control
    /\ fences \in [ControlKey -> Control \cup {None}]
    /\ admitted \in SUBSET Control
    /\ \A key \in Fenced : KeyOf(fences[key]) = key

\* A control recorded for a key is never dropped or lowered by others.
FenceHolds == \A c \in admitted : fences[KeyOf(c)].epoch >= c.epoch

\* A key's fence is a recorded control, and of its epoch the only one.
FenceIsRecorded ==
    /\ \A key \in Fenced : fences[key] \in admitted
    /\ \A c \in admitted : fences[KeyOf(c)].epoch = c.epoch => fences[KeyOf(c)] = c

\* A later REVOKE of the same operation took over the fence.
Replaced(c) ==
    \E d \in admitted : d.kind = "REVOKE" /\ d.op = c.op /\ d.epoch > c.epoch

\* A recorded STOP denies every new effect of its source and target, and a
\* recorded REVOKE every effect and recovery of its operation, and of its
\* source and target too until the operation is revoked for another pair,
\* however many unrelated controls are recorded later.
ControlWindowNeverEnds ==
    \A c \in admitted :
        /\ c.kind = "STOP" => \A op \in OpKey : Denies(op, c.pair)
        /\ c.kind = "REVOKE" =>
              /\ \A pair \in Pair : Revoked(c.op, pair)
              /\ Replaced(c) \/ \A op \in OpKey : Revoked(op, c.pair)

\* Detail and fence maps keep to their bounds.
Bounded == Cardinality(records) <= RecordLimit /\ Cardinality(Fenced) <= FenceLimit

\* The ledger implements the denials it promises.
Level == [key \in ControlKey |-> fences[key].epoch]
Promise == INSTANCE DenialLedger WITH Limit <- FenceLimit, level <- Level
PromiseKept == Promise!Spec
=============================================================================
