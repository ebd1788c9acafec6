--------------------------- MODULE MeteredAccount ---------------------------
(***************************************************************************)
(* What the runtime budget promises the owner who pays for it              *)
(* (docs/architecture/pan529-runtime-budget-v1.md): an operation is        *)
(* admitted while its whole hold fits what is left, runs at most once,     *)
(* consumes only after that and at most its hold, and is closed, once,     *)
(* at what it consumed.  Until then the owner is charged the whole hold.   *)
(***************************************************************************)
EXTENDS Integers, Functions

CONSTANTS
    Op,         \* operations
    Units,      \* units held for each
    Limit       \* units the owner allows in all

VARIABLES
    phase,      \* of each operation: "none", "open" or "closed"
    charged,    \* units each is charged with
    ran,        \* operations that were run
    consumed    \* units each consumed

vars == <<phase, charged, ran, consumed>>

Admitted == {o \in Op : phase[o] # "none"}
Committed == SumFunctionOnSet(charged, Admitted)

Init ==
    /\ phase = [o \in Op |-> "none"]
    /\ charged = [o \in Op |-> 0]
    /\ ran = {}
    /\ consumed = [o \in Op |-> 0]

Admit(o) ==
    /\ phase[o] = "none"
    /\ Committed + Units <= Limit
    /\ phase' = [phase EXCEPT ![o] = "open"]
    /\ charged' = [charged EXCEPT ![o] = Units]
    /\ UNCHANGED <<ran, consumed>>

Run(o) ==
    /\ phase[o] = "open" /\ o \notin ran
    /\ ran' = ran \cup {o}
    /\ UNCHANGED <<phase, charged, consumed>>

\* Several at once when one process that ran them dies.
Consume ==
    /\ consumed' \in [Op -> 0 .. Units]
    /\ \A o \in Op : consumed'[o] # consumed[o] =>
         o \in ran /\ phase[o] = "open" /\ consumed[o] = 0
    /\ UNCHANGED <<phase, charged, ran>>

Close(o) ==
    /\ phase[o] = "open"
    /\ phase' = [phase EXCEPT ![o] = "closed"]
    /\ charged' = [charged EXCEPT ![o] = consumed[o]]
    /\ UNCHANGED <<ran, consumed>>

Next ==
    \/ \E o \in Op : Admit(o) \/ Run(o) \/ Close(o)
    \/ Consume

Spec == Init /\ [][Next]_vars
=============================================================================
