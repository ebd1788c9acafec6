-------------------------- MODULE MCRecoveryAttempts -------------------------
(* Instances of both ledgers: two operations, each on its own pair, that have *)
(* to share one counter, and controls that overflow records and fences.       *)
EXTENDS RecoveryAttempts

CONSTANTS o1, o2, s1, s2

Pairs == [k \in {o1, o2} |-> IF k = o1 THEN s1 ELSE s2]
=============================================================================
