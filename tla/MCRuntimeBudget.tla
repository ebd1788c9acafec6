--------------------------- MODULE MCRuntimeBudget ---------------------------
(* Instances of the runtime budget: two processes share one ledger. *)
EXTENDS RuntimeBudget

CONSTANTS p1, p2, c1, c2, c3, c4, oA, oB, dA, dB

MCProc == {p1, p2}
MCOp == {oA, oB}

\* c1 and c2 are equal calls in one process, c3 retries them in the other, where
\* c4 is another operation.
RetryCall == {c1, c2, c3, c4}
RetryOp == [c \in Call |-> IF c = c4 THEN oB ELSE oA]
RetryProc == [c \in Call |-> IF c \in {c1, c2} THEN p1 ELSE p2]
RetryDigest == [c \in Call |-> IF c = c4 THEN dB ELSE dA]

\* c1 and c2 are equal, c3 asks for their operation with another request; the
\* other process only activates.
JoinCall == {c1, c2, c3}
JoinOp == [c \in Call |-> oA]
JoinProc == [c \in Call |-> p1]
JoinDigest == [c \in Call |-> IF c = c3 THEN dB ELSE dA]
=============================================================================
