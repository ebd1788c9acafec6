---------------------------- MODULE PolicyInForce ----------------------------
(***************************************************************************)
(* What the owner of a policy is promised about the generation in force    *)
(* (docs/development/admin-ai-aas-002-policy-generation-fence-pdca.md and  *)
(* admin-ai-aas-017-signed-policy-lifecycle-pdca.md): generations take     *)
(* their turn once, in rising order, each with a source that had none      *)
(* before; one comes into force only in its turn and after its review was  *)
(* approved; and what leaves force waits for a newer one.                  *)
(***************************************************************************)
EXTENDS Naturals

CONSTANTS
    Gen,        \* policy generations
    Null,       \* no generation: below every other
    SourceOf    \* the source of each

VARIABLES
    cleared,    \* generations whose review was approved
    turn,       \* the generation that took its turn last
    phase,      \* what became of it: "called", "inForce" or "over"
    spent       \* sources that had a turn

vars == <<cleared, turn, phase, spent>>

Init == cleared = {} /\ turn = Null /\ phase = "over" /\ spent = {}

Clear(g) ==
    /\ cleared' = cleared \cup {g}
    /\ UNCHANGED <<turn, phase, spent>>

\* Whatever was in force is so no longer.
Call(g) ==
    /\ g > turn
    /\ SourceOf[g] \notin spent
    /\ turn' = g
    /\ phase' = "called"
    /\ spent' = spent \cup {SourceOf[g]}
    /\ UNCHANGED cleared

Enforce ==
    /\ phase = "called"
    /\ turn \in cleared
    /\ phase' = "inForce"
    /\ UNCHANGED <<cleared, turn, spent>>

Withdraw ==
    /\ phase # "over"
    /\ phase' = "over"
    /\ UNCHANGED <<cleared, turn, spent>>

Next == (\E g \in Gen : Clear(g) \/ Call(g)) \/ Enforce \/ Withdraw

Spec == Init /\ [][Next]_vars
=============================================================================
