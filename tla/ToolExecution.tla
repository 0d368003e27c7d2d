--------------------------- MODULE ToolExecution ---------------------------
(***************************************************************************)
(* The Tool calls of one model turn: the batch coordinator that schedules  *)
(* them, the durable coordinator that takes each one from REQUESTED to its *)
(* answer, the approvals and the Tool-call budget ledger it goes through,  *)
(* the SQLite transactions it commits, and the Run that parks on an        *)
(* approval or an unconfirmed effect and drives the batch again. Every     *)
(* await is a step of its own; a crash may come between any two.           *)
(***************************************************************************)
EXTENDS Integers, FiniteSets, FiniteSetsExt

CONSTANTS
    N,              \* calls in the batch
    Batches,        \* the kinds the calls of a batch may be of
    Policy,         \* the decisions admission may take on each call
    Key,            \* approvalKey: calls an approval for the Run covers
    Windowed,       \* parallelism is allowed for the turn
    MaxConcurrency, \* parallelism.maxConcurrency
    Limits,         \* what may be left of run.limits.maxToolCalls
    MaxCrashes      \* bound: crashes of the process

Calls == 1 .. N

\* What the model asked for: arguments that are no object, a call the preparer
\* rejects, or a prepared call by its executionMode and scheduling class.
Kinds == {"MODEL_REJECTED", "UNPREPARED", "PARALLEL_SAFE", "READ_ONLY", "MAY_MUTATE"}

Decisions == {"ALLOW", "REQUIRE_APPROVAL", "DENY"}

ASSUME CallsAssumption   == N \in Nat \ {0}
ASSUME BatchesAssumption == Batches \subseteq [Calls -> Kinds]
ASSUME PolicyAssumption  == Policy \in [Calls -> SUBSET Decisions]
ASSUME WindowsAssumption == Windowed \in BOOLEAN /\ MaxConcurrency \in Nat \ {0}
ASSUME BoundsAssumption  == Limits \subseteq Nat /\ MaxCrashes \in Nat

VARIABLES
    kind,           \* the calls the model made
    limit,          \* the Tool calls left to the Run
    \* SQLite.
    invocation,     \* tool_invocations.status, NONE without a row
    answer,         \* what the call's observation says
    approval,       \* approval_requests.status with its granted scope
    ledger,         \* run_budget_entries.state of the call
    run,            \* the Run, as far as the turn goes
    \* The batch, in memory.
    phase,          \* what the driver is doing
    next,           \* executeCallsWithWindows: index
    window,         \* the calls being executed
    barrier,        \* BatchBarrier
    item,           \* ToolBatchItemOutcome of each call
    result,         \* ToolBatchOutcome
    \* DurableToolExecutionCoordinator.execute, one per call of the window.
    pc,             \* the await it is at, or its outcome
    accounted,      \* the budget snapshot it read
    verdict,        \* the answer it is about to settle
    \* Around it.
    aborted,        \* cancelled or out of time
    effects,        \* how often the handler was entered
    crashes         \* so far, for MaxCrashes

durable == <<invocation, answer, approval, ledger>>
batch   == <<next, window, barrier, item>>
worker  == <<pc, accounted, verdict>>
vars == <<kind, limit, invocation, answer, approval, ledger, run, phase, next, window, barrier,
          item, result, pc, accounted, verdict, aborted, effects, crashes>>

Terminal == {"COMPLETED", "FAILED"}
Refusals == {"DENIED", "APPROVAL_REJECTED", "BUDGET_EXCEEDED"}
Answers  == {"OK", "ERROR", "OUTCOME_UNKNOWN"} \cup Refusals
Granted  == {"APPROVED_ONCE", "APPROVED_RUN"}
Refused  == {"REJECTED", "EXPIRED", "CANCELLED"}
Closed   == {"SETTLED", "STOPPED"}

\* How execute() ends: with an outcome, with an abort, or with an error.
Outcomes == {"DONE", "WAITING_APPROVAL", "WAITING_RECONCILIATION", "OVER_BUDGET"}
Ended    == Outcomes \cup {"ABORTED", "THROWN"}
Awaits   == {"find", "create", "lookup", "admit", "ask", "snapshot", "reserve", "start",
             "execute", "handler", "reconcile", "settle"}

\* Calls that reach the preparer, and those it may run beside or after a failure.
Dispatchable(c) == kind[c] # "MODEL_REJECTED"
Independent(c)  == kind[c] \in {"PARALLEL_SAFE", "READ_ONLY"}

Idle == [c \in Calls |-> "idle"]
NoItems == [c \in Calls |-> "NONE"]

Init ==
    /\ kind \in Batches
    /\ limit \in Limits
    /\ invocation = [c \in Calls |-> "NONE"]
    /\ answer = [c \in Calls |-> "NONE"]
    /\ approval = [c \in Calls |-> "NONE"]
    /\ ledger = [c \in Calls |-> "NONE"]
    /\ run = "RUNNING" /\ phase = "idle" /\ next = 1 /\ window = {} /\ barrier = "NONE"
    /\ item = NoItems /\ result = "NONE"
    /\ pc = Idle
    /\ accounted = [c \in Calls |-> 0]
    /\ verdict = [c \in Calls |-> "NONE"]
    /\ aborted = FALSE
    /\ effects = [c \in Calls |-> 0]
    /\ crashes = 0
-----------------------------------------------------------------------------
(***************************************************************************)
(* The ledger and the approvals.                                           *)
(***************************************************************************)
\* Tool calls consumed or reserved; a released entry counts for nothing.
Accounted ==
    Cardinality({c \in Calls : ledger[c] \in {"RESERVED", "IN_FLIGHT", "SETTLED", "CONSERVATIVE"}})

\* Mutated forms follow: each is a bug that breaks the property PROJECT.json
\* names for it, and none is used.
\* A terminal row leaves a reservation that was never started as it is.
SettledEntryKeepsReservation(entry, a) ==
    IF entry = "IN_FLIGHT" THEN "SETTLED" ELSE entry

\* The ledger entry of a call whose terminal row says a.
SettledEntry(entry, a) ==
    CASE entry = "IN_FLIGHT" -> IF a = "OUTCOME_UNKNOWN" THEN "CONSERVATIVE" ELSE "SETTLED"
      [] entry = "RESERVED"  -> "RELEASED"
      [] OTHER               -> entry

\* An approval for the Run, of this very call or of one with the same key.
RunGrant(c) == \E d \in Calls : Key[d] = Key[c] /\ approval[d] = "APPROVED_RUN"

\* Pending approvals of a Run that ends.
CancelPending ==
    approval' = [c \in Calls |-> IF approval[c] = "PENDING" THEN "CANCELLED" ELSE approval[c]]
-----------------------------------------------------------------------------
(***************************************************************************)
(* DurableToolExecutionCoordinator.                                        *)
(***************************************************************************)
Goto(c, at) == pc' = [pc EXCEPT ![c] = at]

\* The Run's status is re-read in the transaction that writes an invocation.
Commit(c, status) ==
    /\ run = "RUNNING"
    /\ invocation' = [invocation EXCEPT ![c] = status]

UnchangedButWorker ==
    UNCHANGED <<kind, limit, run, phase, batch, result, aborted, crashes>>

\* A RUNNING row is executed again.
FindReexecutes(c) ==
    /\ pc[c] = "find" /\ ~aborted
    /\ Goto(c, CASE invocation[c] = "NONE"             -> "create"
                 [] invocation[c] = "REQUESTED"        -> "admit"
                 [] invocation[c] = "WAITING_APPROVAL" -> "lookup"
                 [] invocation[c] = "RUNNING"          -> "execute"
                 [] OTHER                              -> "DONE")
    /\ UNCHANGED <<durable, accounted, verdict, effects>>
    /\ UnchangedButWorker

\* A failed row is admitted again.
FindRetriesFailed(c) ==
    /\ pc[c] = "find" /\ ~aborted
    /\ Goto(c, CASE invocation[c] = "NONE"                  -> "create"
                 [] invocation[c] \in {"REQUESTED", "FAILED"} -> "admit"
                 [] invocation[c] = "WAITING_APPROVAL"      -> "lookup"
                 [] invocation[c] = "RUNNING"               -> "reconcile"
                 [] OTHER                                   -> "DONE")
    /\ UNCHANGED <<durable, accounted, verdict, effects>>
    /\ UnchangedButWorker

\* The row decides between a fresh call and a recovery.
Find(c) ==
    /\ pc[c] = "find"
    /\ ~aborted
    /\ Goto(c, CASE invocation[c] = "NONE"             -> "create"
                 [] invocation[c] = "REQUESTED"        -> "admit"
                 [] invocation[c] = "WAITING_APPROVAL" -> "lookup"
                 [] invocation[c] = "RUNNING"          -> "reconcile"
                 [] OTHER                              -> "DONE")
    /\ UNCHANGED <<durable, accounted, verdict, effects>>
    /\ UnchangedButWorker

FindAborted(c) ==
    /\ pc[c] = "find"
    /\ aborted
    /\ Goto(c, "ABORTED")
    /\ UNCHANGED <<durable, accounted, verdict, effects>>
    /\ UnchangedButWorker

Create(c) ==
    /\ pc[c] = "create"
    /\ Commit(c, "REQUESTED")
    /\ Goto(c, "admit")
    /\ UNCHANGED <<answer, approval, ledger, accounted, verdict, effects>>
    /\ UnchangedButWorker

\* Any resolution counts as an approval.
LookupTakesAnyDecision(c) ==
    /\ pc[c] = "lookup"
    /\ Goto(c, IF approval[c] = "PENDING" THEN "WAITING_APPROVAL" ELSE "admit")
    /\ UNCHANGED <<durable, accounted, verdict, effects>>
    /\ UnchangedButWorker

\* Approved, refused or still pending: the approval is read again first.
Lookup(c) ==
    /\ pc[c] = "lookup"
    /\ CASE approval[c] = "PENDING"  -> Goto(c, "WAITING_APPROVAL") /\ UNCHANGED verdict
         [] approval[c] \in Granted  -> Goto(c, "admit") /\ UNCHANGED verdict
         [] OTHER -> /\ Goto(c, "settle")
                     /\ verdict' = [verdict EXCEPT ![c] = "APPROVAL_REJECTED"]
    /\ UNCHANGED <<durable, accounted, effects>>
    /\ UnchangedButWorker

\* A recovered call is asked about again.
AdmitAsksAgain(c) ==
    /\ pc[c] = "admit"
    /\ \E decision \in Policy[c] :
         \/ /\ decision = "DENY"
            /\ Goto(c, "settle")
            /\ verdict' = [verdict EXCEPT ![c] = "DENIED"]
         \/ /\ decision = "REQUIRE_APPROVAL" /\ ~RunGrant(c)
            /\ Goto(c, "ask")
            /\ UNCHANGED verdict
         \/ /\ decision = "ALLOW" \/ (decision = "REQUIRE_APPROVAL" /\ RunGrant(c))
            /\ Goto(c, "snapshot")
            /\ UNCHANGED verdict
    /\ UNCHANGED <<durable, accounted, effects>>
    /\ UnchangedButWorker

\* Policy first, then a grant for the Run, then the budget. A recovered call
\* that admission would ask about again starts on the scope it was granted.
Admit(c) ==
    /\ pc[c] = "admit"
    /\ \E decision \in Policy[c] :
         \/ /\ decision = "DENY"
            /\ Goto(c, "settle")
            /\ verdict' = [verdict EXCEPT ![c] = "DENIED"]
         \/ /\ decision = "REQUIRE_APPROVAL" /\ ~RunGrant(c)
            /\ Goto(c, IF invocation[c] = "WAITING_APPROVAL" THEN "start" ELSE "ask")
            /\ UNCHANGED verdict
         \/ /\ decision = "ALLOW" \/ (decision = "REQUIRE_APPROVAL" /\ RunGrant(c))
            /\ Goto(c, "snapshot")
            /\ UNCHANGED verdict
    /\ UNCHANGED <<durable, accounted, effects>>
    /\ UnchangedButWorker

Ask(c) ==
    /\ pc[c] = "ask"
    /\ Commit(c, "WAITING_APPROVAL")
    /\ approval' = [approval EXCEPT ![c] = "PENDING"]
    /\ Goto(c, "WAITING_APPROVAL")
    /\ UNCHANGED <<answer, ledger, accounted, verdict, effects>>
    /\ UnchangedButWorker

ReadBudget(c) ==
    /\ pc[c] = "snapshot"
    /\ accounted' = [accounted EXCEPT ![c] = Accounted]
    /\ Goto(c, "reserve")
    /\ UNCHANGED <<durable, verdict, effects>>
    /\ UnchangedButWorker

\* The check is on the snapshot; an existing reservation is returned as it is.
Reserve(c) ==
    /\ pc[c] = "reserve"
    /\ IF accounted[c] + 1 > limit
         THEN /\ Goto(c, "settle")
              /\ verdict' = [verdict EXCEPT ![c] = "BUDGET_EXCEEDED"]
              /\ UNCHANGED ledger
         ELSE /\ Goto(c, "start")
              /\ ledger' = [ledger EXCEPT ![c] = IF @ = "NONE" THEN "RESERVED" ELSE @]
              /\ UNCHANGED verdict
    /\ UNCHANGED <<invocation, answer, approval, accounted, effects>>
    /\ UnchangedButWorker

\* The reservation is not started with the invocation.
StartLeavesReservation(c) ==
    /\ pc[c] = "start"
    /\ Commit(c, "RUNNING")
    /\ Goto(c, "execute")
    /\ UNCHANGED <<answer, approval, ledger, accounted, verdict, effects>>
    /\ UnchangedButWorker

\* RUNNING and the start of the reservation are one transaction.
Start(c) ==
    /\ pc[c] = "start"
    /\ Commit(c, "RUNNING")
    /\ ledger' = [ledger EXCEPT ![c] = IF @ = "RESERVED" THEN "IN_FLIGHT" ELSE @]
    /\ Goto(c, "execute")
    /\ UNCHANGED <<answer, approval, accounted, verdict, effects>>
    /\ UnchangedButWorker

Execute(c) ==
    /\ pc[c] = "execute"
    /\ effects' = [effects EXCEPT ![c] = @ + 1]
    /\ Goto(c, "handler")
    /\ UNCHANGED <<durable, accounted, verdict>>
    /\ UnchangedButWorker

\* The handler's result, its error, or an effect it cannot vouch for.
HandlerReturns(c) ==
    /\ pc[c] = "handler"
    /\ \E a \in {"OK", "ERROR", "OUTCOME_UNKNOWN"} : verdict' = [verdict EXCEPT ![c] = a]
    /\ Goto(c, "settle")
    /\ UNCHANGED <<durable, accounted, effects>>
    /\ UnchangedButWorker

\* A RUNNING row without a process: only its target's state can be inspected.
Reconcile(c) ==
    /\ pc[c] = "reconcile"
    /\ \/ /\ aborted
          /\ Goto(c, "ABORTED")
          /\ UNCHANGED verdict
       \/ /\ ~aborted
          /\ Goto(c, "WAITING_RECONCILIATION")
          /\ UNCHANGED verdict
       \/ /\ ~aborted
          /\ Goto(c, "settle")
          /\ verdict' = [verdict EXCEPT ![c] = "OUTCOME_UNKNOWN"]
    /\ UNCHANGED <<durable, accounted, effects>>
    /\ UnchangedButWorker

\* The terminal row, its observation and the end of its ledger entry.
Settle(c) ==
    /\ pc[c] = "settle"
    /\ Commit(c, IF verdict[c] = "OK" THEN "COMPLETED" ELSE "FAILED")
    /\ answer' = [answer EXCEPT ![c] = verdict[c]]
    /\ ledger' = [ledger EXCEPT ![c] = SettledEntry(@, verdict[c])]
    /\ Goto(c, IF verdict[c] = "BUDGET_EXCEEDED" THEN "OVER_BUDGET" ELSE "DONE")
    /\ UNCHANGED <<approval, accounted, verdict, effects>>
    /\ UnchangedButWorker

\* Any await may throw; while the signal is aborted that reads as an abort.
Throw(c) ==
    /\ pc[c] \in Awaits
    /\ Goto(c, IF aborted THEN "ABORTED" ELSE "THROWN")
    /\ UNCHANGED <<durable, accounted, verdict, effects>>
    /\ UnchangedButWorker

Worker(c) ==
    \/ Find(c) \/ FindAborted(c) \/ Create(c) \/ Lookup(c) \/ Admit(c) \/ Ask(c)
    \/ ReadBudget(c) \/ Reserve(c) \/ Start(c) \/ Execute(c) \/ HandlerReturns(c)
    \/ Reconcile(c) \/ Settle(c) \/ Throw(c)
-----------------------------------------------------------------------------
(***************************************************************************)
(* ToolBatchCoordinator. Between two windows it runs without an await:     *)
(* nothing but the clock can act between the steps of "schedule".          *)
(***************************************************************************)
UnchangedButBatch == UNCHANGED <<kind, limit, durable, accounted, verdict, aborted, effects, crashes>>

\* No preflight: each call is left to its own admission.
DriveUnchecked ==
    /\ run = "RUNNING" /\ phase = "idle" /\ ~aborted
    /\ item' = NoItems /\ barrier' = "NONE" /\ next' = 1
    /\ phase' = "schedule" /\ result' = "NONE"
    /\ UNCHANGED <<run, window, pc>>
    /\ UnchangedButBatch

\* A new batch over all the calls; the whole of it has to fit the budget.
Drive ==
    /\ run = "RUNNING" /\ phase = "idle" /\ ~aborted
    /\ item' = NoItems /\ barrier' = "NONE" /\ next' = 1
    /\ IF Accounted + Cardinality({c \in Calls : Dispatchable(c)}) > limit
         THEN phase' = "settle" /\ result' = "BUDGET_EXCEEDED"
         ELSE phase' = "schedule" /\ result' = "NONE"
    /\ UNCHANGED <<run, window, pc>>
    /\ UnchangedButBatch

\* The item of a call that is not executed, NONE when the call is to be.
NotExecuted(c) ==
    IF ~Dispatchable(c) THEN "REJECTED"
    ELSE IF barrier = "OUTCOME_UNKNOWN" THEN "SKIPPED"
    ELSE IF kind[c] = "UNPREPARED" THEN "REJECTED"
    ELSE IF barrier = "DEPENDENCY_UNPROVEN" /\ ~Independent(c) THEN "SKIPPED" ELSE "NONE"

\* The abort is noticed at the first call that would be prepared.
NoticesAbort(c) == aborted /\ Dispatchable(c) /\ barrier # "OUTCOME_UNKNOWN"

\* cancelledOutcome: what it says of the calls from the c-th on.
Withheld(items, c) ==
    [d \in Calls |-> IF d < c THEN items[d] ELSE IF Dispatchable(d) THEN "SKIPPED" ELSE "REJECTED"]

Pass ==
    /\ phase = "schedule" /\ next <= N
    /\ ~NoticesAbort(next)
    /\ NotExecuted(next) # "NONE"
    /\ item' = [item EXCEPT ![next] = NotExecuted(next)]
    /\ barrier' = IF NotExecuted(next) = "REJECTED" /\ barrier = "NONE"
                    THEN "DEPENDENCY_UNPROVEN" ELSE barrier
    /\ next' = next + 1
    /\ UNCHANGED <<run, phase, window, result, pc>>
    /\ UnchangedButBatch

StopAborted ==
    /\ phase = "schedule" /\ next <= N
    /\ NoticesAbort(next)
    /\ item' = Withheld(item, next)
    /\ result' = "CANCELLED" /\ phase' = "settle"
    /\ UNCHANGED <<run, next, window, barrier, pc>>
    /\ UnchangedButBatch

\* Consecutive parallel-safe calls share a window, any other call has its own.
MayShare(first, last) ==
    /\ Windowed /\ last < first + MaxConcurrency
    /\ \A c \in first .. last : kind[c] = "PARALLEL_SAFE"

IsWindow(first, last) ==
    /\ last > first => MayShare(first, last)
    /\ last < N => ~MayShare(first, last + 1)

OpenWindow ==
    /\ phase = "schedule" /\ next <= N
    /\ ~NoticesAbort(next)
    /\ NotExecuted(next) = "NONE"
    /\ \E last \in next .. N : IsWindow(next, last) /\ window' = next .. last
    /\ pc' = [c \in Calls |-> IF c \in window' THEN "find" ELSE "idle"]
    /\ phase' = "window"
    /\ UNCHANGED <<run, next, barrier, item, result>>
    /\ UnchangedButBatch

Complete ==
    /\ phase = "schedule" /\ next > N
    /\ result' = "COMPLETED" /\ phase' = "settle"
    /\ UNCHANGED <<run, batch, pc>>
    /\ UnchangedButBatch

Ending(outcome) == \E c \in window : pc[c] = outcome
Answered(c)     == c \in window /\ pc[c] = "DONE"

\* Only a successful call is reported.
WindowItemsOfSuccess ==
    [c \in Calls |-> IF Answered(c) /\ answer[c] = "OK" THEN "OBSERVATION"
                     ELSE IF c \in window /\ pc[c] = "ABORTED" THEN "SKIPPED" ELSE item[c]]

\* The barrier takes the code of the failure instead of its kind.
WindowBarrierByCode ==
    IF \E c \in Calls : Answered(c) /\ answer[c] = "OUTCOME_UNKNOWN" THEN "TOOL_OUTCOME_UNKNOWN"
    ELSE barrier

\* An unknown outcome is a failure like any other.
WindowBarrierOfFailure ==
    IF barrier = "NONE" /\ \E c \in Calls : Answered(c) /\ invocation[c] = "FAILED"
      THEN "DEPENDENCY_UNPROVEN" ELSE barrier

\* What the window says of each of its calls; the one parked has no item.
WindowItems ==
    [c \in Calls |-> IF Answered(c) THEN "OBSERVATION"
                     ELSE IF c \in window /\ pc[c] = "ABORTED" THEN "SKIPPED" ELSE item[c]]

WindowBarrier ==
    IF \E c \in Calls : Answered(c) /\ answer[c] = "OUTCOME_UNKNOWN" THEN "OUTCOME_UNKNOWN"
    ELSE IF barrier = "NONE" /\ \E c \in Calls : Answered(c) /\ invocation[c] = "FAILED"
           THEN "DEPENDENCY_UNPROVEN" ELSE barrier

\* A call parked on an approval is reported before an unconfirmed effect.
WindowResultAsksFirst ==
    IF Ending("ABORTED") THEN "CANCELLED"
    ELSE IF Ending("WAITING_APPROVAL") THEN "WAITING_APPROVAL"
    ELSE IF Ending("WAITING_RECONCILIATION") THEN "EFFECT_UNCONFIRMED"
    ELSE IF \A c \in window : pc[c] = "DONE" THEN "NONE" ELSE "BUDGET_EXCEEDED"

\* A parked call does not stop the batch.
WindowResultGoesOn ==
    IF Ending("ABORTED") THEN "CANCELLED"
    ELSE IF Ending("WAITING_RECONCILIATION") THEN "EFFECT_UNCONFIRMED"
    ELSE IF \A c \in window : pc[c] \in {"DONE", "WAITING_APPROVAL"} THEN "NONE"
    ELSE "BUDGET_EXCEEDED"

\* What becomes of the batch: an abort comes before an unconfirmed effect, and that
\* before a call to ask for.
WindowResult ==
    IF Ending("ABORTED") THEN "CANCELLED"
    ELSE IF Ending("WAITING_RECONCILIATION") THEN "EFFECT_UNCONFIRMED"
    ELSE IF Ending("WAITING_APPROVAL") THEN "WAITING_APPROVAL"
    ELSE IF \A c \in window : pc[c] = "DONE" THEN "NONE" ELSE "BUDGET_EXCEEDED"

\* Read only when every call of the window has ended, then in one go.
Interpret ==
    /\ phase = "window"
    /\ \A c \in window : pc[c] \in Ended
    /\ pc' = Idle /\ window' = {}
    /\ \/ /\ Ending("THROWN")
          /\ result' = "FAILED" /\ phase' = "settle"
          /\ UNCHANGED <<item, barrier, next>>
       \/ /\ ~Ending("THROWN")
          /\ barrier' = WindowBarrier
          /\ next' = next + Cardinality(window)
          /\ item' = IF Ending("ABORTED") THEN Withheld(WindowItems, next') ELSE WindowItems
          /\ result' = WindowResult
          /\ phase' = IF result' = "NONE" THEN "schedule" ELSE "settle"
    /\ UNCHANGED run
    /\ UnchangedButBatch
-----------------------------------------------------------------------------
(***************************************************************************)
(* The Run around the batch: settleToolEffect, the ways back into the      *)
(* turn, and who acts beside it.                                           *)
(***************************************************************************)
UnchangedButRun == UNCHANGED <<kind, limit, invocation, answer, ledger, batch, result, worker, effects>>

\* A cancellation or the deadline outranks what the batch came to.
SettleTurn ==
    /\ phase = "settle"
    /\ run' = CASE aborted -> "STOPPED"
                [] ~aborted /\ result = "COMPLETED"          -> "SETTLED"
                [] ~aborted /\ result = "WAITING_APPROVAL"   -> "WAITING_APPROVAL"
                [] ~aborted /\ result = "EFFECT_UNCONFIRMED" -> "WAITING_RESOURCE"
                [] OTHER -> "STOPPED"
    /\ IF aborted \/ result = "BUDGET_EXCEEDED" THEN CancelPending ELSE UNCHANGED approval
    /\ phase' = "idle"
    /\ UNCHANGED <<aborted, crashes>>
    /\ UnchangedButRun

\* The call the Run waits for: the first of the batch that is parked.
Parked == {c \in Calls : invocation[c] = "WAITING_APPROVAL"}
FirstParked(c) == c \in Parked /\ \A d \in Parked : c <= d

\* The user's answer, for this call or for the Run, and the only way back into
\* a parked turn. It is committed before the Run moves. A request past its time
\* to live expires instead, and an answer that was lost on its way is repeated;
\* one that contradicts the request, or finds it expired already, is refused.
ResolveApproval ==
    /\ run = "WAITING_APPROVAL" /\ phase = "idle" /\ ~aborted
    /\ \E c \in Calls :
         /\ FirstParked(c)
         /\ \/ /\ approval[c] = "PENDING"
               /\ \E s \in Granted \cup {"REJECTED", "EXPIRED"} :
                    approval' = [approval EXCEPT ![c] = s]
            \/ approval[c] \in Granted \cup {"REJECTED"} /\ UNCHANGED approval
    /\ phase' = "resume"
    /\ UNCHANGED <<run, aborted, crashes>>
    /\ UnchangedButRun

\* Only a granted approval resumes the Run.
ResumeGranted ==
    /\ phase = "resume"
    /\ \E c \in Calls : FirstParked(c) /\ approval[c] \in Granted
    /\ run' = "RUNNING" /\ phase' = "idle"
    /\ UNCHANGED <<approval, aborted, crashes>>
    /\ UnchangedButRun

\* Whatever the answer, the batch is driven on to settle the call.
ResumeApproval ==
    /\ phase = "resume"
    /\ run' = "RUNNING" /\ phase' = "idle"
    /\ UNCHANGED <<approval, aborted, crashes>>
    /\ UnchangedButRun

ResumeReconciliation ==
    /\ run = "WAITING_RESOURCE" /\ phase = "idle" /\ ~aborted
    /\ run' = "RUNNING"
    /\ UNCHANGED <<approval, phase, aborted, crashes>>
    /\ UnchangedButRun

\* A cancelled Run nobody is driving ends where it stands.
EndIdle ==
    /\ aborted /\ phase = "idle" /\ run \notin Closed
    /\ run' = "STOPPED"
    /\ CancelPending
    /\ UNCHANGED <<phase, aborted, crashes>>
    /\ UnchangedButRun

Driver ==
    \/ Drive \/ Pass \/ StopAborted \/ OpenWindow \/ Complete \/ Interpret
    \/ SettleTurn \/ ResumeApproval \/ EndIdle

Abort ==
    /\ ~aborted /\ run \notin Closed
    /\ aborted' = TRUE
    /\ UNCHANGED <<approval, run, phase, crashes>>
    /\ UnchangedButRun

\* Whoever reads a request past its time to live expires it.
Expire(c) ==
    /\ approval[c] = "PENDING"
    /\ approval' = [approval EXCEPT ![c] = "EXPIRED"]
    /\ UNCHANGED <<run, phase, aborted, crashes>>
    /\ UnchangedButRun

\* The process dies with all its memory. Recovery of the Run first writes off
\* every reservation that was in flight.
Crash ==
    /\ crashes < MaxCrashes /\ run \notin Closed
    /\ crashes' = crashes + 1
    /\ phase' = "idle" /\ next' = 1 /\ window' = {} /\ barrier' = "NONE"
    /\ item' = NoItems /\ result' = "NONE"
    /\ pc' = Idle
    /\ ledger' = [c \in Calls |-> IF ledger[c] = "IN_FLIGHT" THEN "CONSERVATIVE" ELSE ledger[c]]
    /\ UNCHANGED <<kind, limit, invocation, answer, approval, run, accounted, verdict, aborted,
                   effects>>

Next ==
    \/ \E c \in Calls : Worker(c) \/ Expire(c)
    \/ Driver
    \/ ResolveApproval \/ ResumeReconciliation \/ Abort \/ Crash

\* Handlers return, and the process goes on running: a turn that was interrupted
\* RUNNING is driven again. Nobody has to answer a request, nor to read it late.
Fairness == WF_vars(Driver) /\ \A c \in Calls : WF_vars(Worker(c))

Spec == Init /\ [][Next]_vars /\ Fairness
-----------------------------------------------------------------------------
(***************************************************************************)
(* Properties.                                                             *)
(***************************************************************************)
TypeOK ==
    /\ kind \in [Calls -> Kinds] /\ limit \in Nat
    /\ invocation \in [Calls -> {"NONE", "REQUESTED", "WAITING_APPROVAL", "RUNNING"} \cup Terminal]
    /\ answer \in [Calls -> Answers \cup {"NONE"}]
    /\ approval \in [Calls -> {"NONE", "PENDING"} \cup Granted \cup Refused]
    /\ ledger \in [Calls -> {"NONE", "RESERVED", "IN_FLIGHT", "SETTLED", "CONSERVATIVE", "RELEASED"}]
    /\ run \in {"RUNNING", "WAITING_APPROVAL", "WAITING_RESOURCE"} \cup Closed
    /\ phase \in {"idle", "schedule", "window", "settle", "resume"}
    /\ next \in Nat \ {0}
    /\ window \subseteq Calls
    /\ barrier \in {"NONE", "DEPENDENCY_UNPROVEN", "OUTCOME_UNKNOWN"}
    /\ item \in [Calls -> {"NONE", "OBSERVATION", "REJECTED", "SKIPPED"}]
    /\ result \in {"NONE", "COMPLETED", "WAITING_APPROVAL", "EFFECT_UNCONFIRMED",
                   "BUDGET_EXCEEDED", "CANCELLED", "FAILED"}
    /\ pc \in [Calls -> Awaits \cup Ended \cup {"idle"}]
    /\ accounted \in [Calls -> Nat]
    /\ verdict \in [Calls -> Answers \cup {"NONE"}]
    /\ aborted \in BOOLEAN
    /\ effects \in [Calls -> Nat]
    /\ crashes \in Nat

\* However often the turn crashes, parks and is driven again, the handler of a
\* call is entered at most once (recoverSnapshot never re-executes a RUNNING row).
HandlerRunsAtMostOnce == \A c \in Calls : effects[c] <= 1

\* A call whose own approval is pending, rejected, expired or cancelled never
\* ran, and never will: the decision cannot overtake or follow the effect.
UnapprovedNeverRan ==
    \A c \in Calls : approval[c] \in Refused \cup {"PENDING"} => effects[c] = 0

\* A call is asked for at most once and the answer stands: no resumption, recovery or
\* end of the Run reopens, changes or withdraws what was decided or has expired.
DecisionsStand ==
    [][\A c \in Calls : approval[c] \in Granted \cup Refused => approval'[c] = approval[c]]_vars

\* A call that ran was counted against the Run's Tool calls, before and after
\* any crash; except one started on an approval for this call only.
StartedIsAccounted ==
    \A c \in Calls :
        effects[c] > 0 /\ approval[c] # "APPROVED_ONCE"
          => ledger[c] \in {"IN_FLIGHT", "SETTLED", "CONSERVATIVE"}

\* The calls of a window check the budget on snapshots that a sibling may have
\* outdated; even so no call of a batch that fitted as a whole is refused, nor
\* any counted beyond the limit.
PreflightSuffices ==
    (\A c \in Calls : answer[c] # "BUDGET_EXCEEDED") /\ Accounted <= limit

\* A settled turn holds no reservation that could be counted for ever.
SettledTurnReleases ==
    run = "SETTLED" => \A c \in Calls : ledger[c] \notin {"RESERVED", "IN_FLIGHT"}

\* A settled turn answers every call of the model: with the durable observation
\* of a finished invocation, or by saying of a call without one that nothing ran.
SettledTurnAnswersAll ==
    run = "SETTLED" => \A c \in Calls :
        IF item[c] = "OBSERVATION"
          THEN answer[c] # "NONE" /\ invocation[c] \in Terminal
          ELSE item[c] # "NONE" /\ invocation[c] = "NONE" /\ effects[c] = 0

\* What RunLifecycle takes from a Tool batch (ToolsFinish): one that completes leaves
\* no question open, one that waits has asked it, and only a batch that a crash
\* interrupted comes back with an effect nobody can confirm. A Run that waits for an
\* approval has asked it for each of its parked calls, and leaves no effect
\* unconfirmed behind the question; one that waits for a confirmation has an effect
\* to confirm.
OutcomesAsAssumed ==
    /\ result = "COMPLETED" => \A c \in Calls : approval[c] # "PENDING"
    /\ result = "WAITING_APPROVAL" => \E c \in Calls : approval[c] # "NONE"
    /\ result = "EFFECT_UNCONFIRMED" => crashes > 0
    /\ run = "WAITING_APPROVAL" =>
         /\ Parked # {} /\ \A c \in Parked : approval[c] # "NONE"
         /\ \A c \in Calls : invocation[c] # "RUNNING"
    /\ run = "WAITING_RESOURCE" => \E c \in Calls : invocation[c] = "RUNNING"

\* A call that may change the world does not run once an earlier call of the
\* batch is known to have failed; nor does any call outside its window once the
\* outcome of an earlier one is unknown - over crashes and resumptions.
BarrierHolds ==
    \A b, c \in Calls : b < c =>
        /\ (kind[b] \in {"MODEL_REJECTED", "UNPREPARED"} \/ invocation[b] = "FAILED")
             /\ kind[c] = "MAY_MUTATE" => effects[c] = 0
        /\ answer[b] = "OUTCOME_UNKNOWN" /\ ~MayShare(b, c) => effects[c] = 0

\* The first call is fully decided before the second one runs, in whichever drive
\* of the batch, unless both are parallel-safe calls that a window may hold.
EffectsInOrder ==
    \A b, c \in Calls :
        b < c /\ effects[c] > 0 /\ ~MayShare(b, c) => invocation[b] \in Terminal \cup {"NONE"}

\* ToolExecution implements ToolEffects.
Effects == INSTANCE ToolEffects WITH
    began  <- {c \in Calls : effects[c] > 0},
    closed <- run \in Closed

ImplementsEffects == Effects!Spec

\* The turn is parked and nobody but the user, or an abort, can move it.
AwaitsUser == run = "WAITING_APPROVAL" /\ phase = "idle" /\ ~aborted

\* Only a missing answer leaves a turn unended: otherwise it ends, or parks on an
\* effect only the user can vouch for. No refusal, crash or failure leaves it
\* RUNNING for ever, and no answer leaves it parked, unless the process dies
\* between the answer and the Run: then it has to be given again.
TurnEnds ==
    <>[](run \in {"RUNNING", "WAITING_APPROVAL"}) => <>[]AwaitsUser
=============================================================================
