-------------------------- MODULE RecoveryAttempts --------------------------
(***************************************************************************)
(* Who may read the provider to recover a held operation: the attempt      *)
(* ledger of demo/runtime/local-journal-owner.mjs beside the control       *)
(* ledger, and DemoMutationGate, which asks the second on entry, waits for *)
(* the snapshot of the target, and counts in the first before it reads.    *)
(*                                                                         *)
(* Both ledgers lie in one journal directory, and each recording is one    *)
(* synchronous read-modify-rename.  Attempts are bounded in number and by  *)
(* operation; a full ledger evicts by protection, then age.                *)
(***************************************************************************)
EXTENDS JournalControl

CONSTANTS
    PairOf,         \* the source and target of each operation
    MaxAttempts,    \* maxReconcileAttempts of the gate
    Limit,          \* LOCAL_JOURNAL_ATTEMPT_LIMIT
    MaxTime,        \* bound: the clock
    MaxReads        \* bound: provider reads of one operation

ASSUME AttemptsAssumption ==
    /\ PairOf \in [OpKey -> Pair]
    /\ MaxAttempts \in Nat \ {0}
    /\ Limit \in Nat \ {0}
    /\ MaxTime \in Nat
    /\ MaxReads \in Nat

VARIABLES
    inside,         \* operations with a recovery that passed its control check
    ledger,         \* the counter of each operation, or Absent
    clock,
    reads           \* provider reads granted to each operation, ever

counters == <<ledger, clock, reads>>
recoveryVars == <<vars, inside, counters>>

Absent == [attempts |-> 0, last |-> 0, exhausted |-> FALSE]
Counter == [attempts : 1 .. MaxAttempts + 1, last : 0 .. MaxTime, exhausted : BOOLEAN]

Kept == {k \in OpKey : ledger[k] # Absent}

\* Slip: a counter is protected once a call was refused, not at the bound.
CountedLate(k) ==
    LET n == ledger[k].attempts + 1
    IN  [attempts |-> IF n > MaxAttempts THEN MaxAttempts + 1 ELSE n,
         last |-> clock,
         exhausted |-> ledger[k].exhausted \/ n > MaxAttempts]

\* The counter after one more attempt; past the bound only that it is past it
\* matters.
Counted(k) ==
    LET n == ledger[k].attempts + 1
    IN  [attempts |-> IF n > MaxAttempts THEN MaxAttempts + 1 ELSE n,
         last |-> clock,
         exhausted |-> ledger[k].exhausted \/ n >= MaxAttempts]

\* a sorts before b, or ties with it: unprotected first, then the older.
Before(a, b) ==
    \/ ~a.exhausted /\ b.exhausted
    \/ a.exhausted = b.exhausted /\ a.last <= b.last

With(k) == [ledger EXCEPT ![k] = Counted(k)]

Fits(k) == k \in Kept \/ Cardinality(Kept) < Limit

\* Those that may be dropped for k: equal times are ordered by key, left open.
Victims(k) ==
    {v \in Kept \cup {k} : \A w \in Kept \cup {k} : Before(With(k)[v], With(k)[w])}

\* The gate reads the provider when the count returned is within its bound.
Grants(k) == ledger[k].attempts < MaxAttempts

\* A write that throws after its rename has counted an attempt that reads nothing.
CountRead(k) ==
    \/ UNCHANGED reads
    \/ /\ Grants(k)
       /\ reads[k] < MaxReads
       /\ reads' = [reads EXCEPT ![k] = @ + 1]

\* One call of the operation ends, or there is another one inside.
Leaves(k) == inside' \in {inside, inside \ {k}}

\* Slip: only the source and target of a REVOKE are looked at on entry.
AdmittedByPair(k) ==
    \A c \in Binding : c.kind = "REVOKE" => c.pair # PairOf[k]

\* assertEffectControl, for a reservation that may be reconciled.
Admitted(k) == ~Revoked(k, PairOf[k])

Enter(k) ==
    /\ Admitted(k)
    /\ inside' = inside \cup {k}
    /\ UNCHANGED <<vars, counters>>

\* The snapshot or the lease says no, or the process is killed.
Leave(k) ==
    /\ k \in inside
    /\ inside' = inside \ {k}
    /\ UNCHANGED <<vars, counters>>

RecordFits(k) ==
    /\ k \in inside /\ Leaves(k)
    /\ Fits(k)
    /\ ledger' = With(k)
    /\ CountRead(k)
    /\ UNCHANGED <<vars, clock>>

\* One other counter is dropped, unless it is protected.
RecordEvicting(k) ==
    /\ k \in inside /\ Leaves(k)
    /\ ~Fits(k)
    /\ \E v \in Victims(k) \ {k} :
          /\ ~ledger[v].exhausted
          /\ ledger' = [With(k) EXCEPT ![v] = Absent]
    /\ CountRead(k)
    /\ UNCHANGED <<vars, clock>>

\* Dropping k itself or a protected counter throws
\* JOURNAL_ATTEMPT_RETENTION_SATURATED_DENIED; nothing is written or read.
RecordSaturated(k) ==
    /\ k \in inside /\ Leaves(k)
    /\ ~Fits(k)
    /\ \E v \in Victims(k) : v = k \/ ledger[v].exhausted
    /\ UNCHANGED <<vars, counters>>

Tick ==
    /\ clock < MaxTime
    /\ clock' = clock + 1
    /\ UNCHANGED <<vars, inside, ledger, reads>>

RecoveryInit ==
    /\ Init
    /\ inside = {}
    /\ ledger = [k \in OpKey |-> Absent]
    /\ clock = 0
    /\ reads = [k \in OpKey |-> 0]

RecoveryNext ==
    \/ Next /\ UNCHANGED <<inside, counters>>
    \/ Tick
    \/ \E k \in OpKey : \/ Enter(k) \/ Leave(k)
                        \/ RecordFits(k) \/ RecordEvicting(k) \/ RecordSaturated(k)

RecoverySpec == RecoveryInit /\ [][RecoveryNext]_recoveryVars

-----------------------------------------------------------------------------
(* Properties *)

\* Counters are well formed, and are protected exactly from the bound on.
CountersOK ==
    /\ inside \subseteq OpKey
    /\ ledger \in [OpKey -> Counter \cup {Absent}]
    /\ clock \in 0 .. MaxTime
    /\ reads \in [OpKey -> 0 .. MaxReads]
    /\ \A k \in OpKey : ledger[k].exhausted <=> ledger[k].attempts >= MaxAttempts

\* A budget that is spent stays spent: no churn of other operations drops or
\* renews a counter at its bound, and no provider read follows it.
SpentStaysSpent ==
    [][\A k \in OpKey : ledger[k].attempts >= MaxAttempts =>
          ledger'[k].attempts >= MaxAttempts /\ reads'[k] = reads[k]]_recoveryVars

Named(k) == \E c \in admitted : c.kind = "REVOKE" /\ c.op = k

\* Once an operation is revoked no further recovery of it gets inside, and
\* without one the provider is not read for it: through every later control,
\* pruned record and replaced fence.
RevokedReadsNoMore ==
    [][\A k \in OpKey : Named(k) /\ k \notin inside =>
          k \notin inside' /\ reads'[k] = reads[k]]_recoveryVars
=============================================================================
