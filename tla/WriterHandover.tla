--------------------------- MODULE WriterHandover ---------------------------
(***************************************************************************)
(* What the writer scope cut-over promises the owner of the data           *)
(* (docs/architecture/pan473-writer-scope-cutover-v1.md, "Native state     *)
(* transition"): one side at a time may write, the right to write moves    *)
(* from the source over nobody to the target and never back, and the       *)
(* target starts from everything the source had accepted.                  *)
(***************************************************************************)
EXTENDS Naturals

VARIABLES
    writer,     \* who may write
    history,    \* batches the source accepted
    start,      \* batches the target started from
    work        \* events the target accepted

vars == <<writer, history, start, work>>

Init == writer = "SOURCE" /\ history = 0 /\ start = 0 /\ work = 0

SourceWrites ==
    /\ writer = "SOURCE"
    /\ history' = history + 1
    /\ UNCHANGED <<writer, start, work>>

Close ==
    /\ writer = "SOURCE"
    /\ writer' = "NONE"
    /\ UNCHANGED <<history, start, work>>

Open ==
    /\ writer = "NONE"
    /\ writer' = "TARGET"
    /\ start' = history
    /\ UNCHANGED <<history, work>>

TargetWrites ==
    /\ writer = "TARGET"
    /\ work' = work + 1
    /\ UNCHANGED <<writer, history, start>>

Next == SourceWrites \/ Close \/ Open \/ TargetWrites

Spec == Init /\ [][Next]_vars
=============================================================================
