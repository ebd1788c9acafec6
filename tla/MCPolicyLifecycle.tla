------------------------- MODULE MCPolicyLifecycle -------------------------
(* Instances of the policy lifecycle. *)
EXTENDS PolicyLifecycle

CONSTANTS narrow, wide, rA, rB

TwoSources == {narrow, wide}
BothRequests == {rA, rB}
AllowsMore == [s \in TwoSources |-> IF s = wide THEN BothRequests ELSE {rA}]

\* 1 and 3 share the narrow source; 2 is wide.
NarrowWideNarrow == [g \in 1 .. 3 |-> IF g = 2 THEN wide ELSE narrow]
=============================================================================
