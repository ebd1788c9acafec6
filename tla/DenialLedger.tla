---------------------------- MODULE DenialLedger ----------------------------
(***************************************************************************)
(* What the control ledger of the local journal promises the gate          *)
(* (demo/runtime/local-journal-owner.mjs, comments of pruneControlRecords  *)
(* and of LOCAL_JOURNAL_CONTROL_FENCE_LIMIT): a denied control key stays   *)
(* denied, its epoch only rises, and a ledger without room for another key *)
(* refuses it instead of dropping one.                                     *)
(***************************************************************************)
EXTENDS Naturals, FiniteSets

CONSTANTS ControlKey, Limit, Epoch

VARIABLE level      \* the epoch each key is denied at; 0: not denied

Denied == {key \in ControlKey : level[key] > 0}

Init == level = [key \in ControlKey |-> 0]

Raise(key, epoch) ==
    /\ epoch > level[key]
    /\ key \in Denied \/ Cardinality(Denied) < Limit
    /\ level' = [level EXCEPT ![key] = epoch]

Next == \E key \in ControlKey, epoch \in Epoch : Raise(key, epoch)

Spec == Init /\ [][Next]_level
=============================================================================
