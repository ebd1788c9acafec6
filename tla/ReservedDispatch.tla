-------------------------- MODULE ReservedDispatch --------------------------
(***************************************************************************)
(* What the effect gate promises those whose approvals it carries out      *)
(* (docs/development/v0.2-approval-workbench-pdca.md, "Adversarial         *)
(* maturity review"): an operation is reserved, durably and for good, by   *)
(* one authority before its provider is reached; a request is let through  *)
(* to the provider once, under an authority that stands at that moment; a  *)
(* receipt is kept only of an effect that landed, and PASS is told only    *)
(* with a receipt kept.  Two requests are let through for one operation    *)
(* only when they present one lease.                                       *)
(***************************************************************************)
CONSTANTS
    Req,        \* requests
    Grant,      \* authorities
    Key,        \* operations
    Lease,      \* the authorities that are leases of an owner
    GrantOf,    \* the authority a request presents
    KeyOf,      \* the operation an authority is for
    NoGrant

VARIABLES
    ended,      \* authorities that stand no more
    custody,    \* the authority each operation is reserved by, durably
    cleared,    \* requests let through that have not reached the provider
    post,       \* what became of each request's POST
    receipts,   \* operations with a durable receipt
    told        \* requests answered PASS

vars == <<ended, custody, cleared, post, receipts, told>>

Operation(r) == KeyOf[GrantOf[r]]
Landed(k) == \E r \in Req : Operation(r) = k /\ post[r] = "landed"

Init ==
    /\ ended = {}
    /\ custody = [k \in Key |-> NoGrant]
    /\ cleared = {}
    /\ post = [r \in Req |-> "none"]
    /\ receipts = {}
    /\ told = {}

\* What any write of the store does: free operations may be reserved, each by
\* an authority of its own, and receipts come of what landed.
Stores ==
    /\ custody' \in [Key -> Grant \cup {NoGrant}]
    /\ \A k \in Key : custody'[k] # custody[k] =>
         custody[k] = NoGrant /\ KeyOf[custody'[k]] = k
    /\ receipts' \in SUBSET Key
    /\ \A k \in receipts' \ receipts : Landed(k)

Write ==
    /\ Stores
    /\ UNCHANGED <<ended, cleared, post, told>>

Through(q) == q \in cleared \/ post[q] # "none"

Clear(r) ==
    /\ Stores
    /\ ~Through(r)
    /\ GrantOf[r] \notin ended
    /\ custody'[Operation(r)] = GrantOf[r]
    /\ \A q \in Req : Operation(q) = Operation(r) /\ Through(q) =>
         GrantOf[q] = GrantOf[r] /\ GrantOf[r] \in Lease
    /\ cleared' = cleared \cup {r}
    /\ UNCHANGED <<ended, post, told>>

Send(r) ==
    /\ r \in cleared
    /\ cleared' = cleared \ {r}
    /\ post' = [post EXCEPT ![r] = "flight"]
    /\ UNCHANGED <<ended, custody, receipts, told>>

\* The provider, whoever still waits for it.
Settle(r) ==
    /\ post[r] = "flight"
    /\ \E end \in {"landed", "dropped"} : post' = [post EXCEPT ![r] = end]
    /\ UNCHANGED <<ended, custody, cleared, receipts, told>>

Tell(r) ==
    /\ Stores
    /\ Operation(r) \in receipts'
    /\ told' = told \cup {r}
    /\ UNCHANGED <<ended, cleared, post>>

\* The process dies: what it let through and did not send stays unsent.
Die ==
    /\ cleared' = {}
    /\ UNCHANGED <<ended, custody, post, receipts, told>>

End(g) ==
    /\ ended' = ended \cup {g}
    /\ UNCHANGED <<custody, cleared, post, receipts, told>>

Next ==
    \/ \E r \in Req : Clear(r) \/ Send(r) \/ Settle(r) \/ Tell(r)
    \/ \E g \in Grant : End(g)
    \/ Write
    \/ Die

Spec == Init /\ [][Next]_vars
=============================================================================
