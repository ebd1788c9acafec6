---------------------------- MODULE RuntimeBudget ----------------------------
(***************************************************************************)
(* The native runtime budget: demo/runtime/atomic-resource-budget.mjs (a   *)
(* SQLite ledger every process opens) driven by the controller of          *)
(* src/pan529/native-budget-controller.mjs (one per process).              *)
(*                                                                         *)
(* A transaction of the ledger (BEGIN IMMEDIATE .. COMMIT) is one step.    *)
(* Controllers of several processes interleave between transactions, a     *)
(* process may be killed at any time, and the provider may answer, fail or *)
(* never be asked.  A call is one invocation of client.invoke; a retry is  *)
(* another call with the same operation.                                   *)
(***************************************************************************)
EXTENDS Integers, FiniteSets, Functions

CONSTANTS
    Proc,           \* processes, each with one controller over the one ledger
    Call,           \* invocations of client.invoke, each made at most once
    Op,             \* operation identifiers of model calls
    Selection,      \* the operation identifier of the template selection
    CallOp,         \* the operation, process and request digest of a call
    CallProc,
    CallDigest,
    PlanId,         \* operation identifiers of template plans
    ModelHold,      \* modelReservationUnits, held per model call
    ModelLimit,     \* limits.modelUnits
    RuntimeLimit,   \* limits.runtimeUnits
    MaxRequests,    \* resourceClass.maxRequests
    NoCall

ASSUME SetsAssumption ==
    /\ Selection \notin Op
    /\ NoCall \notin Call
    /\ CallOp \in [Call -> Op]
    /\ CallProc \in [Call -> Proc]
    /\ NoCall \notin Proc \cup {CallDigest[c] : c \in Call}

ASSUME LimitsAssumption ==
    /\ ModelHold \in Nat \ {0}
    /\ ModelLimit \in Nat \ {0}
    /\ RuntimeLimit \in Nat \ {0}
    /\ MaxRequests \in Nat \ {0}

Row == Op \cup {Selection}
Digests == {CallDigest[c] : c \in Call}

VARIABLES
    ledger,     \* the reservations table: one record per operation
    pc,         \* where each call stands in invoke/perform
    answer,     \* the observation each finished call returned, or NoCall
    inFlight,   \* per process: the call that leads each operation, or NoCall
    reserved,   \* per process: the broker's request count
    plans,      \* per process: plans the controller keeps
    owner,      \* per process: where owner.activate stands
    dispatched, \* calls that reached the provider
    spent       \* units the provider actually consumed, per call

vars == <<ledger, pc, answer, inFlight, reserved, plans, owner, dispatched, spent>>

Absent == [state |-> "ABSENT", digest |-> NoCall, used |-> 0, result |-> NoCall]

RowRecord == [state : {"ABSENT", "RESERVED", "UNKNOWN_USAGE", "SETTLED"},
              digest : Digests \cup {NoCall},
              used : 0 .. ModelHold,
              result : Call \cup {NoCall}]

PcState == {"idle", "reserve", "fence", "broker", "provider", "settle", "joined",
            "answered", "quarantined", "denied", "error", "lost"}
Finished == {"answered", "quarantined", "denied", "error", "lost"}
OwnerState == {"idle", "reserve", "fence", "settle"}

-----------------------------------------------------------------------------
(* The ledger *)

\* Units a row counts against the limits: what it consumed once settled, its
\* whole hold before that.  Every row holds one runtime unit and consumes it.
ModelCharge(row) ==
    IF ledger[row].state = "ABSENT" \/ row = Selection THEN 0
    ELSE IF ledger[row].state = "SETTLED" THEN ledger[row].used
    ELSE ModelHold

Present == {row \in Row : ledger[row].state # "ABSENT"}
ModelCommitted == SumFunctionOnSet([row \in Row |-> ModelCharge(row)], Present)
RuntimeCommitted == Cardinality(Present)

Hold(digest) ==
    [state |-> "RESERVED", digest |-> digest, used |-> 0, result |-> NoCall]

Marked(row) == [row EXCEPT !.state = "UNKNOWN_USAGE"]

\* Slip: the settlement keeps the row's default of zero consumed units.
SettledWithoutUsage(row, units, observation) ==
    [row EXCEPT !.state = "SETTLED", !.result = observation]

SettledWith(row, units, observation) ==
    [row EXCEPT !.state = "SETTLED", !.used = units, !.result = observation]

\* Slip: a reservation is admitted while anything at all remains.
FitsIfAnyRemains(modelUnits) ==
    /\ ModelCommitted < ModelLimit
    /\ RuntimeCommitted + 1 <= RuntimeLimit

Fits(modelUnits) ==
    /\ ModelCommitted + modelUnits <= ModelLimit
    /\ RuntimeCommitted + 1 <= RuntimeLimit

Selected == ledger[Selection].state = "SETTLED"

-----------------------------------------------------------------------------
Init ==
    /\ ledger = [row \in Row |-> Absent]
    /\ pc = [c \in Call |-> "idle"]
    /\ answer = [c \in Call |-> NoCall]
    /\ inFlight = [p \in Proc |-> [o \in Op |-> NoCall]]
    /\ reserved = [p \in Proc |-> 0]
    /\ plans = [p \in Proc |-> {}]
    /\ owner = [p \in Proc |-> "idle"]
    /\ dispatched = {}
    /\ spent = [c \in Call |-> 0]

\* A synchronous stretch of JavaScript is under way in process p: nothing else
\* of p runs until it ends, while other processes do.
InSync(p) ==
    \/ owner[p] \in {"reserve", "fence", "settle"}
    \/ \E c \in Call : CallProc[c] = p /\ pc[c] = "fence"

\* The promise a leader and the calls that joined it share is settled: all of
\* them end alike and the operation leaves inFlight.
Party(c) ==
    {c} \cup {d \in Call : /\ pc[d] = "joined"
                          /\ CallProc[d] = CallProc[c]
                          /\ CallOp[d] = CallOp[c]}

\* Slip: the entry is not deleted and the callers that joined are not told.
FinishLeaderOnly(c, how, result) ==
    /\ pc' = [pc EXCEPT ![c] = how]
    /\ answer' = [answer EXCEPT ![c] = result]
    /\ UNCHANGED inFlight

Finish(c, how, result) ==
    /\ pc' = [d \in Call |-> IF d \in Party(c) THEN how ELSE pc[d]]
    /\ answer' = [d \in Call |-> IF d \in Party(c) THEN result ELSE answer[d]]
    /\ inFlight' = [inFlight EXCEPT ![CallProc[c]][CallOp[c]] = NoCall]

-----------------------------------------------------------------------------
(* Template selection, owner only *)

\* client.plan: bounded, kept for the life of the controller.
Plan(p, id) ==
    /\ ~InSync(p)
    /\ id \notin plans[p]
    /\ Cardinality(plans[p]) < MaxRequests
    /\ plans' = [plans EXCEPT ![p] = @ \cup {id}]
    /\ UNCHANGED <<ledger, pc, answer, inFlight, reserved, owner, dispatched, spent>>

Activate(p) ==
    /\ ~InSync(p)
    /\ owner[p] = "idle"
    /\ plans[p] # {}
    /\ owner' = [owner EXCEPT ![p] = "reserve"]
    /\ UNCHANGED <<ledger, pc, answer, inFlight, reserved, plans, dispatched, spent>>

ActivateReserve(p) ==
    /\ owner[p] = "reserve"
    /\ \/ /\ Selected
          /\ owner' = [owner EXCEPT ![p] = "idle"]
          /\ UNCHANGED ledger
       \/ /\ ledger[Selection].state \in {"RESERVED", "UNKNOWN_USAGE"}
          /\ owner' = [owner EXCEPT ![p] = "fence"]
          /\ UNCHANGED ledger
       \/ /\ ledger[Selection].state = "ABSENT"
          /\ Fits(0)
          /\ ledger' = [ledger EXCEPT ![Selection] = Hold(NoCall)]
          /\ owner' = [owner EXCEPT ![p] = "fence"]
       \/ /\ ledger[Selection].state = "ABSENT"
          /\ ~Fits(0)
          /\ owner' = [owner EXCEPT ![p] = "idle"]
          /\ UNCHANGED ledger
    /\ UNCHANGED <<pc, answer, inFlight, reserved, plans, dispatched, spent>>

\* markUnknownUsage: only the caller that moves the row out of RESERVED goes on.
ActivateFence(p) ==
    /\ owner[p] = "fence"
    /\ IF ledger[Selection].state = "RESERVED"
         THEN /\ ledger' = [ledger EXCEPT ![Selection] = Marked(@)]
              /\ owner' = [owner EXCEPT ![p] = "settle"]
         ELSE /\ owner' = [owner EXCEPT ![p] = "idle"]
              /\ UNCHANGED ledger
    /\ UNCHANGED <<pc, answer, inFlight, reserved, plans, dispatched, spent>>

ActivateSettle(p) ==
    /\ owner[p] = "settle"
    /\ ledger' = [ledger EXCEPT ![Selection] = SettledWith(@, 0, NoCall)]
    /\ owner' = [owner EXCEPT ![p] = "idle"]
    /\ UNCHANGED <<pc, answer, inFlight, reserved, plans, dispatched, spent>>

\* A transaction that cannot get the writer lock within busy_timeout throws.
ActivateBusy(p) ==
    /\ owner[p] \in {"reserve", "fence", "settle"}
    /\ owner' = [owner EXCEPT ![p] = "idle"]
    /\ UNCHANGED <<ledger, pc, answer, inFlight, reserved, plans, dispatched, spent>>

-----------------------------------------------------------------------------
(* Model calls *)

\* client.invoke, up to its first await: denied before the template is selected;
\* a second call for an operation in flight in the process joins the first.
Leader(c) == inFlight[CallProc[c]][CallOp[c]]

InvokeDenied(c) ==
    /\ pc[c] = "idle" /\ ~InSync(CallProc[c])
    /\ ~Selected \/ (Leader(c) # NoCall /\ CallDigest[Leader(c)] # CallDigest[c])
    /\ pc' = [pc EXCEPT ![c] = "denied"]
    /\ UNCHANGED <<ledger, answer, inFlight, reserved, plans, owner, dispatched, spent>>

InvokeJoins(c) ==
    /\ pc[c] = "idle" /\ ~InSync(CallProc[c])
    /\ Selected /\ Leader(c) # NoCall /\ CallDigest[Leader(c)] = CallDigest[c]
    /\ pc' = [pc EXCEPT ![c] = "joined"]
    /\ UNCHANGED <<ledger, answer, inFlight, reserved, plans, owner, dispatched, spent>>

InvokeLeads(c) ==
    /\ pc[c] = "idle" /\ ~InSync(CallProc[c])
    /\ Selected /\ Leader(c) = NoCall
    /\ pc' = [pc EXCEPT ![c] = "reserve"]
    /\ inFlight' = [inFlight EXCEPT ![CallProc[c]][CallOp[c]] = c]
    /\ UNCHANGED <<ledger, answer, reserved, plans, owner, dispatched, spent>>

\* store.reserve: an existing row is refused, answered or replayed; a new one
\* must fit both limits.
Exists(row) == row.state # "ABSENT"

ReserveDenied(c) ==
    LET row == ledger[CallOp[c]] IN
    /\ pc[c] = "reserve" /\ ~InSync(CallProc[c])
    /\ IF Exists(row) THEN row.digest # CallDigest[c] ELSE ~Fits(ModelHold)
    /\ Finish(c, "denied", NoCall)
    /\ UNCHANGED <<ledger, reserved, plans, owner, dispatched, spent>>

\* Slip: the replay answers with an observation of its own.
ReserveAnsweredAnew(c) ==
    LET row == ledger[CallOp[c]] IN
    /\ pc[c] = "reserve" /\ ~InSync(CallProc[c])
    /\ row.state = "SETTLED" /\ row.digest = CallDigest[c]
    /\ Finish(c, "answered", c)
    /\ UNCHANGED <<ledger, reserved, plans, owner, dispatched, spent>>

ReserveAnswered(c) ==
    LET row == ledger[CallOp[c]] IN
    /\ pc[c] = "reserve" /\ ~InSync(CallProc[c])
    /\ row.state = "SETTLED" /\ row.digest = CallDigest[c]
    /\ Finish(c, "answered", row.result)
    /\ UNCHANGED <<ledger, reserved, plans, owner, dispatched, spent>>

ReserveResumed(c) ==
    LET row == ledger[CallOp[c]] IN
    /\ pc[c] = "reserve" /\ ~InSync(CallProc[c])
    /\ row.state \in {"RESERVED", "UNKNOWN_USAGE"} /\ row.digest = CallDigest[c]
    /\ pc' = [pc EXCEPT ![c] = "fence"]
    /\ UNCHANGED <<ledger, answer, inFlight, reserved, plans, owner, dispatched, spent>>

ReserveHeld(c) ==
    /\ pc[c] = "reserve" /\ ~InSync(CallProc[c])
    /\ ~Exists(ledger[CallOp[c]]) /\ Fits(ModelHold)
    /\ ledger' = [ledger EXCEPT ![CallOp[c]] = Hold(CallDigest[c])]
    /\ pc' = [pc EXCEPT ![c] = "fence"]
    /\ UNCHANGED <<answer, inFlight, reserved, plans, owner, dispatched, spent>>

\* store.markUnknownUsage: dispatch is granted to the caller that moves the row
\* out of RESERVED; everyone else is answered QUARANTINE.
\* Slip: an UNKNOWN_USAGE row left by another attempt is granted again.
FenceRegrants(c) ==
    /\ pc[c] = "fence"
    /\ ledger[CallOp[c]].state \in {"RESERVED", "UNKNOWN_USAGE"}
    /\ ledger' = [ledger EXCEPT ![CallOp[c]] = Marked(@)]
    /\ pc' = [pc EXCEPT ![c] = "broker"]
    /\ UNCHANGED <<answer, inFlight, reserved, plans, owner, dispatched, spent>>

FenceGranted(c) ==
    /\ pc[c] = "fence"
    /\ ledger[CallOp[c]].state = "RESERVED"
    /\ ledger' = [ledger EXCEPT ![CallOp[c]] = Marked(@)]
    /\ pc' = [pc EXCEPT ![c] = "broker"]
    /\ UNCHANGED <<answer, inFlight, reserved, plans, owner, dispatched, spent>>

FenceRefused(c) ==
    /\ pc[c] = "fence"
    /\ ledger[CallOp[c]].state # "RESERVED"
    /\ Finish(c, "quarantined", NoCall)
    /\ UNCHANGED <<ledger, reserved, plans, owner, dispatched, spent>>

\* broker.invoke: throttled before any dispatch, or the provider is called.
BrokerThrottles(c) ==
    /\ pc[c] = "broker"
    /\ ~InSync(CallProc[c])
    /\ reserved[CallProc[c]] >= MaxRequests
    /\ pc' = [pc EXCEPT ![c] = "settle"]
    /\ UNCHANGED <<ledger, answer, inFlight, reserved, plans, owner, dispatched, spent>>

BrokerDispatches(c) ==
    /\ pc[c] = "broker"
    /\ ~InSync(CallProc[c])
    /\ reserved[CallProc[c]] < MaxRequests
    /\ reserved' = [reserved EXCEPT ![CallProc[c]] = @ + 1]
    /\ dispatched' = dispatched \cup {c}
    /\ pc' = [pc EXCEPT ![c] = "provider"]
    /\ UNCHANGED <<ledger, answer, inFlight, plans, owner, spent>>

\* The provider keeps to the token ceilings of the request, and an answer the
\* guard lets through reports what it consumed.
ProviderAnswers(c) ==
    /\ pc[c] = "provider"
    /\ ~InSync(CallProc[c])
    /\ \E units \in 0 .. ModelHold : spent' = [spent EXCEPT ![c] = units]
    /\ pc' = [pc EXCEPT ![c] = "settle"]
    /\ UNCHANGED <<ledger, answer, inFlight, reserved, plans, owner, dispatched>>

\* A failure, a timeout or an answer the guard refuses: the provider may have
\* consumed units, the call ends in QUARANTINE and nothing is settled.
ProviderFails(c) ==
    /\ pc[c] = "provider"
    /\ ~InSync(CallProc[c])
    /\ \E units \in 0 .. ModelHold : spent' = [spent EXCEPT ![c] = units]
    /\ Finish(c, "quarantined", NoCall)
    /\ UNCHANGED <<ledger, reserved, plans, owner, dispatched>>

\* Slip: the settlement charges the hold, whatever the receipt says was used.
SettleAtHold(c) ==
    LET row == ledger[CallOp[c]]
        bound == /\ row.state = "UNKNOWN_USAGE"
                 /\ row.digest = CallDigest[c]
                 /\ spent[c] <= ModelHold
    IN  /\ pc[c] = "settle"
        /\ ~InSync(CallProc[c])
        /\ bound
        /\ ledger' = [ledger EXCEPT ![CallOp[c]] = SettledWith(@, ModelHold, c)]
        /\ Finish(c, "answered", c)
        /\ UNCHANGED <<reserved, plans, owner, dispatched, spent>>

\* store.settle with the usage the guarded observation proves: what the provider
\* reported, zero when the broker never called it.
Settle(c) ==
    LET row == ledger[CallOp[c]]
        bound == /\ row.state = "UNKNOWN_USAGE"
                 /\ row.digest = CallDigest[c]
                 /\ spent[c] <= ModelHold
    IN  /\ pc[c] = "settle"
        /\ ~InSync(CallProc[c])
        /\ bound
        /\ ledger' = [ledger EXCEPT ![CallOp[c]] = SettledWith(@, spent[c], c)]
        /\ Finish(c, "answered", c)
        /\ UNCHANGED <<reserved, plans, owner, dispatched, spent>>

\* The ledger stays locked past busy_timeout: the transaction throws.
Busy(c) ==
    /\ \/ pc[c] = "fence"
       \/ pc[c] \in {"reserve", "settle"} /\ ~InSync(CallProc[c])
    /\ Finish(c, "error", NoCall)
    /\ UNCHANGED <<ledger, reserved, plans, owner, dispatched, spent>>

\* A provider call whose caller died may still consume its units.
StrayUsage(calls) ==
    \E units \in [{c \in calls : pc[c] = "provider"} -> 0 .. ModelHold] :
        spent' = [c \in Call |-> IF c \in DOMAIN units THEN units[c] ELSE spent[c]]

Started(p) == {c \in Call : CallProc[c] = p /\ pc[c] \notin Finished \cup {"idle"}}

\* Slip: the successor clears the holds it finds open.
KillReleasesHolds(p) ==
    /\ pc' = [c \in Call |-> IF c \in Started(p) THEN "lost" ELSE pc[c]]
    /\ inFlight' = [inFlight EXCEPT ![p] = [o \in Op |-> NoCall]]
    /\ reserved' = [reserved EXCEPT ![p] = 0]
    /\ plans' = [plans EXCEPT ![p] = {}]
    /\ owner' = [owner EXCEPT ![p] = "idle"]
    /\ StrayUsage(Started(p))
    /\ ledger' = [row \in Row |-> IF ledger[row].state = "UNKNOWN_USAGE"
                                  THEN Absent ELSE ledger[row]]
    /\ UNCHANGED <<answer, dispatched>>

\* The process dies and its successor opens the ledger: calls, plans and the
\* broker's counts are gone, the ledger stays.
Kill(p) ==
    LET mine == Started(p) IN
    /\ pc' = [c \in Call |-> IF c \in mine THEN "lost" ELSE pc[c]]
    /\ inFlight' = [inFlight EXCEPT ![p] = [o \in Op |-> NoCall]]
    /\ reserved' = [reserved EXCEPT ![p] = 0]
    /\ plans' = [plans EXCEPT ![p] = {}]
    /\ owner' = [owner EXCEPT ![p] = "idle"]
    /\ StrayUsage(mine)
    /\ UNCHANGED <<ledger, answer, dispatched>>

-----------------------------------------------------------------------------
OwnerNext(p) ==
    \/ \E id \in PlanId : Plan(p, id)
    \/ Activate(p) \/ ActivateReserve(p) \/ ActivateFence(p) \/ ActivateSettle(p)
    \/ ActivateBusy(p)

CallNext(c) ==
    \/ InvokeDenied(c) \/ InvokeJoins(c) \/ InvokeLeads(c)
    \/ ReserveDenied(c) \/ ReserveAnswered(c) \/ ReserveResumed(c) \/ ReserveHeld(c)
    \/ FenceGranted(c) \/ FenceRefused(c) \/ BrokerThrottles(c) \/ BrokerDispatches(c)
    \/ ProviderAnswers(c) \/ ProviderFails(c) \/ Settle(c) \/ Busy(c)

Next ==
    \/ \E p \in Proc : OwnerNext(p) \/ Kill(p)
    \/ \E c \in Call : CallNext(c)

Spec == Init /\ [][Next]_vars

\* A started call keeps running while its process lives: the event loop serves
\* its ready tasks in order, so one that is ready again and again runs (SF); the
\* ledger's wait is bounded, and the provider honours the abort signal.
CallAdvances(c) ==
    \/ ReserveDenied(c) \/ ReserveAnswered(c) \/ ReserveResumed(c) \/ ReserveHeld(c)
    \/ FenceGranted(c) \/ FenceRefused(c) \/ BrokerThrottles(c) \/ BrokerDispatches(c)
    \/ ProviderAnswers(c) \/ ProviderFails(c) \/ Settle(c) \/ Busy(c)

OwnerAdvances(p) ==
    ActivateReserve(p) \/ ActivateFence(p) \/ ActivateSettle(p) \/ ActivateBusy(p)

Fairness ==
    /\ \A c \in Call : SF_vars(CallAdvances(c))
    /\ \A p \in Proc : WF_vars(OwnerAdvances(p))

FairSpec == Spec /\ Fairness

-----------------------------------------------------------------------------
(* Properties *)

\* Shape of the state, and of a row: what it may hold in each of its states.
TypeOK ==
    /\ ledger \in [Row -> RowRecord]
    /\ pc \in [Call -> PcState]
    /\ answer \in [Call -> Call \cup {NoCall}]
    /\ inFlight \in [Proc -> [Op -> Call \cup {NoCall}]]
    /\ reserved \in [Proc -> 0 .. MaxRequests]
    /\ plans \in [Proc -> SUBSET PlanId]
    /\ owner \in [Proc -> OwnerState]
    /\ dispatched \subseteq Call
    /\ spent \in [Call -> 0 .. ModelHold]

\* The ledger never promises more than the owner's limits, whatever processes
\* reserve, settle or die in between (snapshot, RESOURCE_BUDGET_EXHAUSTED_DENIED).
WithinLimits ==
    /\ ModelCommitted <= ModelLimit
    /\ RuntimeCommitted <= RuntimeLimit

\* Units the provider really consumed for an operation, in calls that were
\* answered, failed or died.
Consumed(o) == SumFunctionOnSet(spent, {c \in dispatched : CallOp[c] = o})

\* What was consumed for an operation is covered by what the ledger charges.
SpentIsCharged == \A o \in Op : Consumed(o) <= ModelCharge(o)

\* An operation reaches the provider at most once, across calls, retries,
\* processes and restarts (the UNKNOWN_USAGE fence precedes dispatch).
DispatchedOnce ==
    \A c, d \in dispatched : CallOp[c] = CallOp[d] => c = d

\* Nothing reaches the provider before the template selection is settled.
DispatchedAfterSelection == dispatched # {} => Selected

\* Every caller that is answered for an operation gets one and the same
\* persisted observation, and only callers with the digest that was reserved.
AnswersAgree ==
    \A c \in Call : pc[c] = "answered" =>
        /\ ledger[CallOp[c]].state = "SETTLED"
        /\ answer[c] = ledger[CallOp[c]].result
        /\ ledger[CallOp[c]].digest = CallDigest[c]

\* A row never goes back, and a hold of unknown usage ends only in the
\* settlement by a call that dispatched it or saw it throttled: no restart, no
\* retry and no other caller releases it.
HoldsOnlySettle ==
    [][\A o \in Op :
        /\ ledger[o].state = "SETTLED" => ledger'[o] = ledger[o]
        /\ ledger[o].state = "UNKNOWN_USAGE" /\ ledger'[o] # ledger[o] =>
             /\ ledger'[o].state = "SETTLED"
             /\ pc[ledger'[o].result] = "settle" /\ CallOp[ledger'[o].result] = o
             /\ (\E c \in dispatched : CallOp[c] = o) => ledger'[o].result \in dispatched
        /\ ledger[o].state = "RESERVED" => ledger'[o].state # "ABSENT"]_vars

\* The owner's view of the ledger: a row is open until it is settled.
Phase(o) ==
    IF ledger[o].state = "ABSENT" THEN "none"
    ELSE IF ledger[o].state = "SETTLED" THEN "closed"
    ELSE "open"

Account == INSTANCE MeteredAccount WITH
    Op <- Op, Units <- ModelHold, Limit <- ModelLimit,
    phase <- [o \in Op |-> Phase(o)],
    charged <- [o \in Op |-> ModelCharge(o)],
    ran <- {CallOp[c] : c \in dispatched},
    consumed <- [o \in Op |-> Consumed(o)]

\* To the owner, processes that reserve, retry, join, die and start again over
\* one ledger are one account: every step is a step of MeteredAccount or none.
KeepsAccount == Account!Spec

\* Every call that starts ends, whatever the other processes do.
CallsEnd == \A c \in Call : pc[c] # "idle" ~> pc[c] \in Finished

\* Strengthening of DispatchedOnce and AnswersAgree that every step preserves:
\* one granted caller per operation, holding an UNKNOWN_USAGE row of its own
\* digest, and one leader per operation and process, whom the joined follow.
Granted == {"broker", "provider", "settle"}
Leading == Granted \cup {"reserve", "fence"}

Custody ==
    /\ \A c \in Call : pc[c] \in Granted =>
         /\ ledger[CallOp[c]].state = "UNKNOWN_USAGE"
         /\ ledger[CallOp[c]].digest = CallDigest[c]
    /\ \A c, d \in Call :
         pc[c] \in Granted /\ pc[d] \in Granted /\ CallOp[c] = CallOp[d] => c = d
    /\ \A c \in Call : pc[c] = "fence" =>
         /\ ledger[CallOp[c]].state # "ABSENT"
         /\ ledger[CallOp[c]].digest = CallDigest[c]
    /\ \A d \in dispatched :
         /\ ledger[CallOp[d]].state \in {"UNKNOWN_USAGE", "SETTLED"}
         /\ \A c \in Call : CallOp[c] = CallOp[d] =>
              pc[c] # "broker" /\ (pc[c] \in Granted => c = d)

Leadership ==
    /\ \A c \in Call : pc[c] \in Leading => inFlight[CallProc[c]][CallOp[c]] = c
    /\ \A d \in Call : pc[d] = "joined" =>
         LET leader == inFlight[CallProc[d]][CallOp[d]]
         IN  leader \in Call /\ CallDigest[leader] = CallDigest[d]

IInv == TypeOK /\ Custody /\ Leadership /\ DispatchedOnce /\ AnswersAgree

=============================================================================
