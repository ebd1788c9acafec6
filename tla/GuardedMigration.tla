-------------------------- MODULE GuardedMigration --------------------------
(***************************************************************************)
(* What the native update promises its controller                          *)
(* (docs/architecture/pan463-native-update-v1.md, "Admission and effect    *)
(* boundary"): each journal root has one attempt, which begins under a     *)
(* grant that stands, with no control against it, and stays bound to it; a *)
(* COMMIT is sent only while that grant stands, the target has its fence   *)
(* and no control denies the root; one COMMIT at a time is on its way, and *)
(* none once the migration is applied; PASS is told of an applied          *)
(* migration, under the grant of the root's attempt.                       *)
(***************************************************************************)
EXTENDS Naturals

CONSTANTS
    Root,       \* journal roots
    Fence,      \* the fence of each grant, in order
    MaxGrant    \* bound: grants issued

VARIABLES
    grant, live,    \* the current grant, and that it stands
    fence,          \* the fence of the target
    denied,         \* roots a control denies
    begun,          \* the grant each root's attempt began under; 0: none yet
    sent,           \* a COMMIT is on its way
    applied,        \* the migration is in the target
    told            \* roots whose caller was told PASS

vars == <<grant, live, fence, denied, begun, sent, applied, told>>

Init ==
    /\ grant = 1 /\ live = TRUE
    /\ fence = Fence[1]
    /\ denied = {}
    /\ begun = [r \in Root |-> 0]
    /\ sent = FALSE /\ applied = FALSE
    /\ told = {}

\* An attempt may take effect: its grant stands, and so does the target.
Open == live /\ fence = Fence[grant] /\ ~sent /\ ~applied

Begin(r) ==
    /\ live
    /\ r \notin denied /\ begun[r] = 0
    /\ begun' = [begun EXCEPT ![r] = grant]
    /\ UNCHANGED <<grant, live, fence, denied, sent, applied, told>>

Send(r) ==
    /\ Open
    /\ r \notin denied /\ begun[r] = grant
    /\ sent' = TRUE
    /\ UNCHANGED <<grant, live, fence, denied, begun, applied, told>>

\* What was sent takes effect or comes to nothing, whoever still waits for it.
Settle ==
    /\ sent
    /\ sent' = FALSE
    /\ applied' \in BOOLEAN
    /\ UNCHANGED <<grant, live, fence, denied, begun, told>>

Tell(r) ==
    /\ applied /\ live
    /\ begun[r] = grant
    /\ told' = told \cup {r}
    /\ UNCHANGED <<grant, live, fence, denied, begun, sent, applied>>

-----------------------------------------------------------------------------
(* Controller, operator and target *)

Withdraw ==
    /\ live' = FALSE
    /\ UNCHANGED <<grant, fence, denied, begun, sent, applied, told>>

Reissue ==
    /\ grant < MaxGrant
    /\ grant' = grant + 1
    /\ live' = TRUE
    /\ UNCHANGED <<fence, denied, begun, sent, applied, told>>

Deny(r) ==
    /\ denied' = denied \cup {r}
    /\ UNCHANGED <<grant, live, fence, begun, sent, applied, told>>

MoveFence ==
    /\ ~sent
    /\ fence' \in Nat
    /\ UNCHANGED <<grant, live, denied, begun, sent, applied, told>>

Next ==
    \/ \E r \in Root : Begin(r) \/ Send(r) \/ Tell(r) \/ Deny(r)
    \/ Settle \/ Withdraw \/ Reissue \/ MoveFence

Spec == Init /\ [][Next]_vars
=============================================================================
