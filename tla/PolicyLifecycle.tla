--------------------------- MODULE PolicyLifecycle ---------------------------
(***************************************************************************)
(* PolicyLifecycleManager of demo/management/policy-lifecycle.mjs over     *)
(* PolicyGenerationFence of demo/runtime/policy-generation-fence.mjs: how  *)
(* a policy generation comes into use, and how it is taken out of use.     *)
(*                                                                         *)
(* Each of the two keeps a signed file replaced by rename.  An operation   *)
(* of the manager is synchronous and writes the fence before its own       *)
(* record, so it may stop between the two: the record's write throws, the  *)
(* operation id turns out to be a replay, or the process dies.  Every use  *)
(* of a policy reads both files.                                           *)
(***************************************************************************)
EXTENDS Naturals

CONSTANTS
    MaxGen,         \* bound: policy generations
    Source,         \* policy sources, by digest
    SourceOf,       \* the source of a generation's artifact
    Request,        \* request kinds a policy may allow
    Allows          \* the request kinds a source allows

Gen == 1 .. MaxGen
Null == 0

ASSUME ArtifactsAssumption ==
    /\ MaxGen \in Nat
    /\ SourceOf \in [Gen -> Source]
    /\ Allows \in [Source -> SUBSET Request]

VARIABLES
    state,          \* the entries of the record
    base,           \* per entry: activeGeneration its diff was computed against
    approval,       \* per entry: its approval, with or without allowWidening
    active,         \* activeGeneration, lastSafeGeneration, dispatch
    lastSafe,
    dispatch,
    fence,          \* the activation record of the fence
    running,        \* an operation between the fence's write and the record's
    expired         \* generations whose artifact, approval or trust has lapsed

record == <<state, base, approval, active, lastSafe, dispatch>>
vars == <<record, fence, running, expired>>

Entry == {"NONE", "DRAFT", "VALIDATED", "SIMULATED", "APPROVED", "STAGED", "ACTIVE",
          "SUPERSEDED", "RETIRED", "REVOKED"}
Idle == [op |-> "none", gen |-> Null]

NoFence == [active |-> Null, safe |-> Null, status |-> "NONE", retired |-> {}]

Init ==
    /\ state = [g \in Gen |-> "NONE"]
    /\ base = [g \in Gen |-> Null]
    /\ approval = [g \in Gen |-> "none"]
    /\ active = Null
    /\ lastSafe = Null
    /\ dispatch = "FROZEN"
    /\ fence = NoFence
    /\ running = Idle
    /\ expired = {}

-----------------------------------------------------------------------------
(* The fence *)

\* Slip: the digest is compared with the active one only.
FenceAdmitsRetired(g) ==
    /\ g > fence.active
    /\ fence.active # Null => SourceOf[g] # SourceOf[fence.active]

FenceAdmits(g) ==
    /\ g > fence.active
    /\ fence.active # Null =>
         SourceOf[g] \notin fence.retired \cup {SourceOf[fence.active]}

FenceActivated(g) ==
    [active |-> g,
     safe |-> IF fence.active = Null THEN g ELSE fence.active,
     status |-> "ACTIVE",
     retired |-> IF fence.active = Null THEN {}
                 ELSE fence.retired \cup {SourceOf[fence.active]}]

FenceFrozen == [fence EXCEPT !.status = "FROZEN"]

\* assertUseBinding of the fence, and of the manager, which asks both.
FenceUses(g) == fence.status = "ACTIVE" /\ fence.active = g
Uses(g) == dispatch = "ACTIVE" /\ active = g /\ FenceUses(g)

-----------------------------------------------------------------------------
(* Review: draft, validate, simulate, approve, stage.  Each is one write of *)
(* the record; a denial or a failing write changes nothing.                 *)

Widens(b, g) == b # Null /\ ~(Allows[SourceOf[g]] \subseteq Allows[SourceOf[b]])

Current(g) == running = Idle /\ g \notin expired

Step(g, from, to) ==
    /\ Current(g)
    /\ state[g] = from
    /\ state' = [state EXCEPT ![g] = to]
    /\ UNCHANGED <<active, lastSafe, dispatch, fence, running, expired>>

Draft(g) ==
    /\ Step(g, "NONE", "DRAFT")
    /\ \A h \in Gen : state[h] # "NONE" => h < g
    /\ UNCHANGED <<base, approval>>

Validate(g) ==
    /\ Step(g, "DRAFT", "VALIDATED")
    /\ base' = [base EXCEPT ![g] = active]
    /\ UNCHANGED approval

Simulate(g) ==
    /\ Step(g, "VALIDATED", "SIMULATED")
    /\ UNCHANGED <<base, approval>>

\* Slip: a widening diff is approved without allowWidening.
ApproveAny(g, how) ==
    /\ Step(g, "SIMULATED", "APPROVED")
    /\ how \in {"plain", "widening"}
    /\ approval' = [approval EXCEPT ![g] = how]
    /\ UNCHANGED base

Approve(g, how) ==
    /\ Step(g, "SIMULATED", "APPROVED")
    /\ how \in {"plain", "widening"}
    /\ Widens(base[g], g) => how = "widening"
    /\ approval' = [approval EXCEPT ![g] = how]
    /\ UNCHANGED base

Stage(g) ==
    /\ Step(g, "APPROVED", "STAGED")
    /\ UNCHANGED <<base, approval>>

-----------------------------------------------------------------------------
(* Activation: the fence first, then the record. *)

\* Slip: the record is written whether or not the fence was.
ActivateUnfenced(g) ==
    /\ Current(g)
    /\ state[g] = "STAGED"
    /\ running' = [op |-> "activate", gen |-> g]
    /\ UNCHANGED <<record, fence, expired>>

ActivateFence(g) ==
    /\ Current(g)
    /\ state[g] = "STAGED"
    /\ FenceAdmits(g)
    /\ fence' = FenceActivated(g)
    /\ running' = [op |-> "activate", gen |-> g]
    /\ UNCHANGED <<record, expired>>

ActivateRecord ==
    /\ running.op = "activate"
    /\ LET g == running.gen IN
       /\ state' = [h \in Gen |-> IF h = g THEN "ACTIVE"
                                  ELSE IF h = active THEN "SUPERSEDED" ELSE state[h]]
       /\ active' = g
       /\ lastSafe' = IF active = Null THEN g ELSE active
    /\ dispatch' = "ACTIVE"
    /\ running' = Idle
    /\ UNCHANGED <<base, approval, fence, expired>>

\* The record's write throws and the fence is frozen again.
ActivateUnrecorded ==
    /\ running.op = "activate"
    /\ fence' = FenceFrozen
    /\ running' = Idle
    /\ UNCHANGED <<record, expired>>

-----------------------------------------------------------------------------
(* Taking out of use *)

Retire(g) ==
    /\ running = Idle
    /\ state[g] = "SUPERSEDED"
    /\ lastSafe # g
    /\ state' = [state EXCEPT ![g] = "RETIRED"]
    /\ UNCHANGED <<base, approval, active, lastSafe, dispatch, fence, running, expired>>

\* Slip: an active generation too is revoked in the record alone.
RevokeAny(g) ==
    /\ running = Idle
    /\ state[g] \in {"ACTIVE", "STAGED", "SUPERSEDED"}
    /\ state' = [state EXCEPT ![g] = "REVOKED"]
    /\ UNCHANGED <<base, approval, active, lastSafe, dispatch, fence, running, expired>>

\* A generation that is not active is revoked in the record alone.
RevokeInactive(g) ==
    /\ running = Idle
    /\ state[g] \in {"STAGED", "SUPERSEDED"}
    /\ state' = [state EXCEPT ![g] = "REVOKED"]
    /\ UNCHANGED <<base, approval, active, lastSafe, dispatch, fence, running, expired>>

\* The active one is revoked, or the workers diverge from it: freeze first.
Freeze(op, g) ==
    /\ running = Idle
    /\ active = g
    /\ state[g] = "ACTIVE"
    /\ fence' = FenceFrozen
    /\ running' = [op |-> op, gen |-> g]
    /\ UNCHANGED <<record, expired>>

RevokeRecord ==
    /\ running.op = "revoke"
    /\ state' = [state EXCEPT ![running.gen] = "REVOKED"]
    /\ active' = Null
    /\ lastSafe' = IF lastSafe = running.gen THEN Null ELSE lastSafe
    /\ dispatch' = "FROZEN"
    /\ running' = Idle
    /\ UNCHANGED <<base, approval, fence, expired>>

DivergeRecord ==
    /\ running.op = "diverge"
    /\ dispatch' = "FROZEN"
    /\ running' = Idle
    /\ UNCHANGED <<state, base, approval, active, lastSafe, fence, expired>>

\* Every worker reports the active generation.
ConfirmRollout(g) ==
    /\ running = Idle
    /\ state[g] = "ACTIVE"
    /\ lastSafe' = g
    /\ UNCHANGED <<state, base, approval, active, dispatch, fence, running, expired>>

\* Slip: an operation that stops half way thaws the fence it froze.
AbandonThaws ==
    /\ running # Idle
    /\ fence' = [fence EXCEPT !.status = "ACTIVE"]
    /\ running' = Idle
    /\ UNCHANGED <<record, expired>>

\* The operation id is a replay, the process dies, or a write throws (the
\* freeze of a failed activation included): the record stays as it was.
Abandon ==
    /\ running # Idle
    /\ running' = Idle
    /\ UNCHANGED <<record, fence, expired>>

Expire(g) ==
    /\ running = Idle
    /\ g \notin expired
    /\ expired' = expired \cup {g}
    /\ UNCHANGED <<record, fence, running>>

Next ==
    \/ \E g \in Gen :
          \/ Draft(g) \/ Validate(g) \/ Simulate(g) \/ Stage(g)
          \/ \E how \in {"plain", "widening"} : Approve(g, how)
          \/ ActivateFence(g) \/ Retire(g) \/ RevokeInactive(g)
          \/ Freeze("revoke", g) \/ Freeze("diverge", g)
          \/ ConfirmRollout(g) \/ Expire(g)
    \/ ActivateRecord \/ ActivateUnrecorded \/ RevokeRecord \/ DivergeRecord \/ Abandon

Spec == Init /\ [][Next]_vars

-----------------------------------------------------------------------------
(* Properties *)

\* The record is what its own loader accepts: the active generation names the
\* one ACTIVE entry, the last safe one an entry.
TypeOK ==
    /\ state \in [Gen -> Entry]
    /\ base \in [Gen -> Gen \cup {Null}]
    /\ approval \in [Gen -> {"none", "plain", "widening"}]
    /\ active \in Gen \cup {Null}
    /\ lastSafe \in Gen \cup {Null}
    /\ dispatch \in {"ACTIVE", "FROZEN"}
    /\ fence \in [active : Gen \cup {Null}, safe : Gen \cup {Null},
                  status : {"NONE", "ACTIVE", "FROZEN"}, retired : SUBSET Source]
    /\ running \in [op : {"none", "activate", "revoke", "diverge"}, gen : Gen \cup {Null}]
    /\ expired \in SUBSET Gen
    /\ \A g \in Gen : state[g] = "ACTIVE" <=> active = g
    /\ lastSafe # Null => state[lastSafe] # "NONE"

\* A generation is used only when it was approved, and with allowWidening when
\* its reviewed diff widens, whatever operations stopped half way.
UseIsApproved ==
    \A g \in Gen : Uses(g) =>
        /\ state[g] = "ACTIVE"
        /\ approval[g] # "none"
        /\ Widens(base[g], g) => approval[g] = "widening"

\* The record never runs ahead of the fence: what it ever activated the fence
\* activated, and what it calls in use is not behind the fence unless the fence
\* took a generation whose activation stopped half way.
RecordFollowsFence ==
    \A g \in Gen :
        /\ state[g] \in {"ACTIVE", "SUPERSEDED", "RETIRED"} => g <= fence.active
        /\ active = g /\ fence.active # g =>
             \/ running.op = "activate"
             \/ state[fence.active] \in {"STAGED", "REVOKED"}

\* A generation taken out of use is never used again.
OutOfUseForever ==
    \A g \in Gen : [](state[g] \in {"SUPERSEDED", "RETIRED", "REVOKED"} => []~Uses(g))

\* The fence activates neither a lower generation nor a source that was active
\* before, and is thawed only by a newer generation.
FenceOnlyRises ==
    [][/\ fence'.active >= fence.active
       /\ fence.status = "FROZEN" /\ fence'.status = "ACTIVE" => fence'.active > fence.active]_vars

SourceNeverReturns ==
    \A s \in Source :
        LET On == fence.active # Null /\ SourceOf[fence.active] = s
        IN  [](On => [](~On => []~On))

\* The generation kept as last safe is never retired.
LastSafeKept == lastSafe # Null => state[lastSafe] # "RETIRED"

\* The fence and the record as one: which generation has its turn, and whether
\* it is being activated, in use, or neither.
Turn ==
    IF running.op = "activate" THEN "called"
    ELSE IF Uses(fence.active) THEN "inForce" ELSE "over"

Spent == IF fence.active = Null THEN {} ELSE fence.retired \cup {SourceOf[fence.active]}

Cleared ==
    {g \in Gen : approval[g] # "none" /\ (Widens(base[g], g) => approval[g] = "widening")}

InForce == INSTANCE PolicyInForce WITH
    cleared <- Cleared, turn <- fence.active, phase <- Turn, spent <- Spent

\* All that a use of a policy sees of the two files, through whatever stops half
\* way, is a generation in force as PolicyInForce describes it.
KeepsForce == InForce!Spec

\* What the proofs add: an entry past review carries its approval, one before
\* it none, and an operation between its two writes has written the fence.
Reviewed ==
    \A g \in Gen : state[g] \in {"APPROVED", "STAGED", "ACTIVE", "SUPERSEDED"} =>
        /\ approval[g] # "none"
        /\ Widens(base[g], g) => approval[g] = "widening"

Unreviewed ==
    \A g \in Gen : state[g] \in {"NONE", "DRAFT", "VALIDATED", "SIMULATED"} =>
        approval[g] = "none"

HalfDone ==
    /\ running.op = "activate" =>
         /\ running.gen \in Gen
         /\ state[running.gen] = "STAGED"
         /\ fence.active = running.gen /\ fence.status = "ACTIVE"
    /\ running.op \in {"revoke", "diverge"} =>
         /\ active = running.gen
         /\ running.gen \in Gen
         /\ fence.status = "FROZEN"

IInv == TypeOK /\ Reviewed /\ HalfDone /\ RecordFollowsFence /\ LastSafeKept

(* What the repository's documents say, and the code does not do *)

\* "any authority widening requires explicit widening approval"
WideningApproved ==
    [][\A g \in Gen : active' = g /\ active # g /\ Widens(active, g) =>
          approval[g] = "widening"]_vars
=============================================================================
