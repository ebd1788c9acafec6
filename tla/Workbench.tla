------------------------------ MODULE Workbench ------------------------------
(***************************************************************************)
(* The owner's decisions: demo/runtime/approval-workbench.mjs as           *)
(* demo/runtime/server.mjs hosts it, and the one thing the effect gate     *)
(* asks of an approval, that it was issued under its own profile           *)
(* generation, which the server draws anew at every start.                 *)
(*                                                                         *)
(* register and decide change nothing before they have awaited the         *)
(* snapshot of the target; what follows is one synchronous step.  Whether  *)
(* the snapshot allows them is left open: the target is changed by others. *)
(* The store is written as a whole, by rename, so a write that throws      *)
(* leaves the file alone while the change stays in memory.                 *)
(***************************************************************************)
EXTENDS Naturals

CONSTANTS
    Digest,         \* digests of the decisions that were escalated to the owner
    MaxBoot         \* bound: starts of the server

ASSUME BootAssumption == MaxBoot \in Nat \ {0}

VARIABLES
    boot,           \* this start; stands for profileGeneration
    mem,            \* state of the workbench
    disk,           \* the store file
    calls,          \* calls that await the snapshot
    answers,        \* verdicts decide has returned with PASS
    leases,         \* approvals out of the workbench, with their start
    acted           \* digests whose mutation has been sent

vars == <<boot, mem, disk, calls, answers, leases, acted>>

Verdict == {"APPROVE", "REJECT"}

\* A proposal is the start it was registered in, 0 when there is none.
Store == [proposal : [Digest -> 0 .. MaxBoot], verdict : [Digest -> Verdict \cup {"NONE"}]]

Empty == [proposal |-> [d \in Digest |-> 0], verdict |-> [d \in Digest |-> "NONE"]]

Call == [op : {"REGISTER"}, digest : Digest, verdict : {"NONE"}]
        \cup [op : {"DECIDE"}, digest : Digest, verdict : Verdict]

RegisterCall(d) == [op |-> "REGISTER", digest |-> d, verdict |-> "NONE"]
DecideCall(d, v) == [op |-> "DECIDE", digest |-> d, verdict |-> v]

Init ==
    /\ boot = 1
    /\ mem = Empty
    /\ disk = Empty
    /\ calls = {}
    /\ answers = [d \in Digest |-> {}]
    /\ leases = {}
    /\ acted = {}

-----------------------------------------------------------------------------
(* register *)

\* Registrations of one digest are alike: there may be another one under way.
Returns(d) == calls' \in {calls, calls \ {RegisterCall(d)}}

RegisterStart(d) ==
    /\ calls' = calls \cup {RegisterCall(d)}
    /\ UNCHANGED <<boot, mem, disk, answers, leases, acted>>

\* The target exists or cannot be read, or a prior proposal is returned or,
\* being of another start, in conflict.
RegisterReturns(d) ==
    /\ RegisterCall(d) \in calls /\ Returns(d)
    /\ UNCHANGED <<boot, mem, disk, answers, leases, acted>>

\* persist writes the state of the workbench, or throws.
Persist == disk' \in {mem', disk}

Register(d) ==
    /\ RegisterCall(d) \in calls /\ Returns(d)
    /\ mem.proposal[d] = 0
    /\ mem' = [mem EXCEPT !.proposal[d] = boot]
    /\ Persist
    /\ UNCHANGED <<boot, answers, leases, acted>>

-----------------------------------------------------------------------------
(* decide and readDecision *)

Pending(d) == \E c \in calls : c.op = "DECIDE" /\ c.digest = d

\* Slip: nothing keeps a second decision out while the first one awaits.
DecidableAgain(d) == mem.verdict[d] = "NONE" /\ mem.proposal[d] = boot

Decidable(d) == mem.verdict[d] = "NONE" /\ ~Pending(d) /\ mem.proposal[d] = boot

DecideStart(d, v) ==
    /\ Decidable(d)
    /\ calls' = calls \cup {DecideCall(d, v)}
    /\ UNCHANGED <<boot, mem, disk, answers, leases, acted>>

\* APPROVAL_SNAPSHOT_STALE_DENIED, or the read fails.
DecideDenied(d, v) ==
    /\ DecideCall(d, v) \in calls
    /\ calls' = calls \ {DecideCall(d, v)}
    /\ UNCHANGED <<boot, mem, disk, answers, leases, acted>>

Decided(d, v) ==
    /\ DecideCall(d, v) \in calls
    /\ calls' = calls \ {DecideCall(d, v)}
    /\ mem' = [mem EXCEPT !.verdict[d] = v]

\* The lease an approval carries gets out with it.
Issued(d, v) == IF v = "APPROVE" THEN leases \cup {<<boot, d>>} ELSE leases

\* PASS; the answer is heard, or lost on its way.
Decide(d, v) ==
    /\ Decided(d, v)
    /\ disk' = mem'
    /\ \/ UNCHANGED <<answers, leases>>
       \/ answers' = [answers EXCEPT ![d] = @ \cup {v}] /\ leases' = Issued(d, v)
    /\ UNCHANGED <<boot, acted>>

\* persist throws: no answer, and the verdict stays in memory.
DecideFails(d, v) ==
    /\ Decided(d, v)
    /\ UNCHANGED <<boot, disk, answers, leases, acted>>

\* readDecision answers from memory, with the lease.
Read(d) ==
    /\ mem.verdict[d] # "NONE"
    /\ leases' = Issued(d, mem.verdict[d])
    /\ UNCHANGED <<boot, mem, disk, calls, answers, acted>>

-----------------------------------------------------------------------------
(* The gate and the host *)

\* Slip: the gate takes a lease of any start.
LeaseOfAnyBoot(d) == \E b \in 1 .. MaxBoot : <<b, d>> \in leases

LeaseIsCurrent(d) == <<boot, d>> \in leases

\* execute has found the lease valid and the snapshot unchanged; one lease
\* sends one mutation.
Act(d) ==
    /\ LeaseIsCurrent(d)
    /\ d \notin acted
    /\ acted' = acted \cup {d}
    /\ UNCHANGED <<boot, mem, disk, calls, answers, leases>>

\* The process is killed and started again.
Restart ==
    /\ boot < MaxBoot
    /\ boot' = boot + 1
    /\ mem' = disk
    /\ calls' = {}
    /\ UNCHANGED <<disk, answers, leases, acted>>

Next ==
    \/ Restart
    \/ \E d \in Digest :
          \/ RegisterStart(d) \/ RegisterReturns(d) \/ Register(d)
          \/ Read(d) \/ Act(d)
          \/ \E v \in Verdict :
                DecideStart(d, v) \/ DecideDenied(d, v) \/ Decide(d, v) \/ DecideFails(d, v)

Spec == Init /\ [][Next]_vars

-----------------------------------------------------------------------------
(* Properties *)

\* The state of the workbench and its host is well formed.
TypeOK ==
    /\ boot \in 1 .. MaxBoot
    /\ mem \in Store
    /\ disk \in Store
    /\ calls \in SUBSET Call
    /\ answers \in [Digest -> SUBSET Verdict]
    /\ leases \in SUBSET ((1 .. MaxBoot) \X Digest)
    /\ acted \in SUBSET Digest

\* A verdict the owner was answered is the one in the file and the one every
\* later reader sees, through concurrent decisions, writes that throw and
\* restarts: a proposal is terminal after the first choice.
VerdictIsFinal ==
    \A d \in Digest : \A v \in answers[d] : mem.verdict[d] = v /\ disk.verdict[d] = v

\* What was rejected does not act any more, though an approval that never
\* reached the file may have been read in an earlier start.
RejectedNeverActs ==
    [][\A d \in Digest : "REJECT" \in answers[d] /\ d \notin acted => d \notin acted']_vars

\* One decision of a digest is under way, and only while it has none.
OneDecision ==
    \A c, e \in calls : c.op = "DECIDE" /\ e.op = "DECIDE" /\ c.digest = e.digest =>
        c = e /\ mem.verdict[c.digest] = "NONE"

\* The leases of this start are of approvals in memory; the others are older.
LeasesApproved ==
    \A l \in leases : l[1] <= boot /\ (l[1] = boot => mem.verdict[l[2]] = "APPROVE")

\* A verdict never stands without its proposal: normalizeStore would refuse
\* the file, and the server would not start.
StoreLoads == \A d \in Digest : disk.verdict[d] # "NONE" => disk.proposal[d] # 0

\* It does not in memory either, nor does a decision that is under way.
Founded ==
    /\ StoreLoads
    /\ \A d \in Digest : mem.verdict[d] # "NONE" \/ Pending(d) => mem.proposal[d] # 0

\* What the proofs carry from step to step.
IInv == TypeOK /\ OneDecision /\ LeasesApproved /\ VerdictIsFinal
=============================================================================
