---------------------------- MODULE RunLifecycle ----------------------------
(***************************************************************************)
(* One NATURAL_V1 Run (without output-recovery policy) as RunController    *)
(* executes it: a single driver that holds the Run's lock and reads a      *)
(* possibly stale snapshot, the SQLite ledger it commits to, and           *)
(* everything that happens beside it: cancellation, the deadline, backoff  *)
(* timers, approvals, user corrections, managed shutdown, crashes and      *)
(* restarts.                                                               *)
(***************************************************************************)
EXTENDS Naturals

CONSTANTS
    MaxSteps,       \* run.limits.maxSteps
    MaxAttempts,    \* retry policy: attempts of one backoff episode
    MaxInputs,      \* bound: user corrections accepted over the Run's life
    BatchMax,       \* RUN_INPUT_BATCH_MAX_COUNT: corrections one handoff takes
    MaxFaults,      \* bound: crashes, failed commits, failed cleanups
    MaxDrains       \* bound: managed daemon shutdowns

ASSUME StepsAssumption    == MaxSteps \in Nat \ {0}
ASSUME AttemptsAssumption == MaxAttempts \in Nat \ {0}
ASSUME InputsAssumption   == MaxInputs \in Nat
ASSUME BatchAssumption    == BatchMax \in Nat \ {0}
ASSUME FaultsAssumption   == MaxFaults \in Nat
ASSUME DrainsAssumption   == MaxDrains \in Nat

VARIABLES
    \* The ledger: written only by the holder of the Run's lock.
    status,         \* AgentRun.status
    open,           \* an active RUNNING Step exists
    steps,          \* AgentState.usage.steps: attempts settled so far
    cont,           \* the durable continuation, NoCont when there is none
    batch,          \* the requested Tool batch: none, fresh or begun
    \* Durable facts others write while a driver runs.
    intent,         \* RunCancellationIntent
    approval,       \* status of the ApprovalRequest the batch waits for
    accepted,       \* run_input_heads.last_accepted_sequence
    stage,          \* run_inputs.stage per accepted sequence
    \* The driver: the code running under withLock.
    pc,             \* where it is; "idle" when nobody holds the lock
    verdict,        \* the termination being finalized
    turn,           \* the effect result in hand
    seenIntent,     \* the snapshot in hand has the cancellation intent
    seen,           \* ... and these many accepted inputs
    mode,           \* how the next Tool batch is entered
    origin,         \* the continuation of the decision snapshot
    abort,          \* RunExecutionScope.abortCause
    supervised,     \* RunExecutionSupervisor.active has the driver
    \* Callers that wait for the lock to terminate the Run.
    canceller,      \* RunController.cancel
    deadliner,      \* RunController.handleDeadline
    \* Timers and the process.
    deadlineArmed, retryArmed, up, draining,
    \* The clock.
    expired,        \* now >= deadlineAt
    due,            \* now >= continuation.nextAttemptAt
    \* History.
    faults, drains, \* so far, for MaxFaults and MaxDrains
    lost,           \* a driver went away and left an open Step
    purpose         \* what the last opened turn was to resume

ledger   == <<status, open, steps, cont, batch>>
local    == <<verdict, turn, seenIntent, seen, mode, origin>>
timers   == <<deadlineArmed, retryArmed>>
outside  == <<intent, accepted, canceller, deadliner, up, draining, expired>>
driver   == <<pc, local, abort, supervised, lost>>
vars     == <<ledger, approval, stage, driver, timers, outside, due, faults, drains, purpose>>

-----------------------------------------------------------------------------
(* Values *)

Terminal == {"COMPLETED", "FAILED", "CANCELLED", "TIMEOUT",
             "MAX_STEPS_REACHED", "BUDGET_EXCEEDED"}
Waiting  == {"WAITING_APPROVAL", "WAITING_RESOURCE"}
Underway == {"RUNNING"} \cup Waiting
Statuses == {"PENDING"} \cup Underway \cup Terminal

Backoff       == {"WAITING_RETRY", "WAITING_PROVIDER"}
ResumeModes   == {"START", "TOOL_RESULTS", "STEERING"}
Continuations ==
    [type: {"NONE", "WAITING_TOOL_RESULTS", "WAITING_RESOURCE", "WAITING_STEERING"}
             \cup Backoff,
     received: BOOLEAN,      \* receivedResults is present
     waiting: BOOLEAN,       \* waitingApproval is present
     policy: BOOLEAN,        \* observationPolicy is present
     mode: ResumeModes,      \* retry resume context
     attempt: 1..MaxAttempts,
     late: BOOLEAN]          \* nextAttemptAt >= deadlineAt

NoCont == [type |-> "NONE", received |-> FALSE, waiting |-> FALSE, policy |-> FALSE,
           mode |-> "START", attempt |-> 1, late |-> FALSE]
ToolsRequested == [NoCont EXCEPT !.type = "WAITING_TOOL_RESULTS", !.policy = TRUE]
Steering       == [NoCont EXCEPT !.type = "WAITING_STEERING"]

Inputs == 1..MaxInputs
Stages == {"NONE", "PENDING", "RECORDED", "ASSIGNED"}

\* The counters, the flags, and the values everything else may have.
CountsOK ==
    /\ steps \in 0..MaxSteps
    /\ accepted \in 0..MaxInputs
    /\ seen \in 0..MaxInputs
    /\ faults \in 0..MaxFaults
    /\ drains \in 0..MaxDrains

FlagsOK ==
    /\ open \in BOOLEAN
    /\ intent \in BOOLEAN
    /\ seenIntent \in BOOLEAN
    /\ supervised \in BOOLEAN
    /\ deadlineArmed \in BOOLEAN
    /\ retryArmed \in BOOLEAN
    /\ up \in BOOLEAN
    /\ draining \in BOOLEAN
    /\ expired \in BOOLEAN
    /\ due \in BOOLEAN
    /\ lost \in BOOLEAN

ValuesOK ==
    /\ status \in Statuses
    /\ cont \in Continuations
    /\ batch \in {"none", "fresh", "begun"}
    /\ approval \in {"NONE", "PENDING", "APPROVED", "REJECTED", "EXPIRED", "CANCELLED"}
    /\ stage \in [Inputs -> Stages]
    /\ pc \in {"idle", "recovering", "approved", "loop", "prepare", "calling", "settle", "commit",
               "tools", "toolSettle", "cleanup", "seal"}
    /\ verdict \in {"none", "CANCELLED", "TIMEOUT", "BUDGET_EXCEEDED"}
    /\ turn \in {"none", "FINAL_CANDIDATE", "TOOL_REQUESTS", "FATAL", "RETRYABLE",
                 "CANCELLED", "COMPLETED", "WAITING_APPROVAL", "EFFECT_UNCONFIRMED",
                 "BUDGET_EXCEEDED"}
    /\ mode \in {"EXECUTE", "RECOVER"}
    /\ origin \in Continuations
    /\ abort \in {"none", "USER_REQUESTED", "DEADLINE_EXCEEDED", "MANAGED_RESTART"}
    /\ canceller \in {"none", "requested", "waiting"}
    /\ deadliner \in {"none", "waiting"}
    /\ purpose \in ResumeModes

TypeOK == ValuesOK /\ FlagsOK /\ CountsOK

Init ==
    /\ status = "PENDING" /\ open = FALSE /\ steps = 0 /\ cont = NoCont /\ batch = "none"
    /\ intent = FALSE /\ approval = "NONE"
    /\ accepted = 0 /\ stage = [i \in Inputs |-> "NONE"]
    /\ pc = "idle" /\ verdict = "none" /\ turn = "none" /\ seenIntent = FALSE
    /\ seen = 0 /\ mode = "RECOVER" /\ origin = NoCont /\ abort = "none"
    /\ supervised = FALSE /\ canceller = "none" /\ deadliner = "none"
    /\ deadlineArmed = FALSE /\ retryArmed = FALSE /\ up = TRUE /\ draining = FALSE
    /\ expired = FALSE /\ due = FALSE
    /\ faults = 0 /\ drains = 0 /\ lost = FALSE /\ purpose = "START"

-----------------------------------------------------------------------------
(* Mutated forms of shared pieces. Each breaks the property PROJECT.json     *)
(* names for it; nothing below uses them.                                  *)

SettledTwice == steps + 1

BatchFromTheEnd(n) ==
    LET offered == {i \in Inputs : i <= n /\ stage[i] = "PENDING"}
    IN  {i \in offered : \A j \in offered : j < i + BatchMax}

ResumeModeForgetsSteering(previous) ==
    CASE previous.type = "WAITING_TOOL_RESULTS" -> "TOOL_RESULTS"
      [] previous.type = "WAITING_RETRY"        -> previous.mode
      [] OTHER                                  -> "START"

\* The deadline is armed for a Run that runs, and not for one that waits.
LoadTimersRunningOnly ==
    /\ deadlineArmed' = (status = "RUNNING" /\ ~expired)
    /\ retryArmed' = (/\ ~draining
                      /\ status = "RUNNING"
                      /\ cont.type \in Backoff
                      /\ ~cont.late)

\* Whoever aborted the driver, the Run is cancelled.
AbortCancels ==
    /\ pc' = "cleanup" /\ verdict' = IF expired /\ ~intent THEN "TIMEOUT" ELSE "CANCELLED"
    /\ UNCHANGED <<timers, turn, seenIntent, seen, mode, origin, abort, supervised, lost,
                   ledger, due>>

ConcludeKeepsContinuation(s) ==
    /\ status' = s /\ open' = FALSE /\ steps' = steps /\ due' = FALSE
    /\ pc' = "idle" /\ abort' = "none" /\ supervised' = FALSE
    /\ UNCHANGED <<cont, batch, local, lost>>

-----------------------------------------------------------------------------
(* Pieces several handlers share *)

\* steps once the open Step, if any, is settled: every attempt counts.
Settled == IF open THEN steps + 1 ELSE steps

Unassigned == \E i \in Inputs : stage[i] \in {"PENDING", "RECORDED"}

\* The FIFO prefix a snapshot with n accepted inputs offers one boundary.
\* PENDING sequences are contiguous, so distance counts them.
Batch(n) ==
    LET offered == {i \in Inputs : i <= n /\ stage[i] = "PENDING"}
    IN  {i \in offered : \A j \in offered : i < j + BatchMax}

Recorded(ids) == [i \in Inputs |-> IF i \in ids THEN "RECORDED" ELSE stage[i]]

\* Why the coordinator advances the Agent from a boundary.
TurnInput(c) ==
    CASE c.type = "WAITING_TOOL_RESULTS" -> "TOOL_RESULTS"
      [] c.type = "WAITING_STEERING"     -> "STEERING"
      [] c.type \in Backoff              -> c.mode
      [] OTHER                           -> "START"

\* The provenance a new retry checkpoint inherits from the boundary its turn
\* was decided on.
ResumeMode(previous) ==
    CASE previous.type = "WAITING_TOOL_RESULTS" -> "TOOL_RESULTS"
      [] previous.type = "WAITING_STEERING"     -> "STEERING"
      [] previous.type = "WAITING_RETRY"        -> previous.mode
      [] OTHER                                  -> "START"

\* RunController.load re-arms or disarms both timers.
LoadTimers ==
    /\ deadlineArmed' = (status \in Underway /\ ~expired)
    /\ retryArmed' = (/\ ~draining
                      /\ status = "RUNNING"
                      /\ cont.type \in Backoff
                      /\ ~cont.late)

\* The snapshot a load or a commit hands back.
Snapshot == seenIntent' = intent /\ seen' = accepted

Write(s, o, n, c, b) ==
    /\ status' = s /\ open' = o /\ steps' = n /\ cont' = c /\ batch' = b
    /\ due' = (due /\ c.type \in Backoff /\ cont.type \in Backoff)

NoWrite == UNCHANGED <<ledger, due>>

\* The lock is released, and with it the driver and its abort scope. A Step
\* left open belongs to nobody.
Release ==
    /\ pc' = "idle" /\ abort' = "none" /\ supervised' = FALSE
    /\ verdict' = "none" /\ turn' = "none" /\ seenIntent' = FALSE /\ seen' = 0
    /\ mode' = "RECOVER" /\ origin' = NoCont
    /\ lost' = (lost \/ open')

\* Round the production loop again, with a fresh snapshot.
Drive(m) ==
    /\ pc' = "loop" /\ mode' = m /\ Snapshot
    /\ verdict' = "none" /\ turn' = "none" /\ origin' = NoCont
    /\ UNCHANGED <<abort, lost>>

Goto(p) == pc' = p /\ UNCHANGED <<local, abort, lost>>

Ended == intent \/ expired

\* finalizeCancellation, finalizeTimeout and finalizeBudgetExceeded up to the
\* cleanup of the Run's resources. Each reloads first: the intent outranks the
\* deadline, the deadline outranks the budget.
Terminate(v) ==
    /\ pc' = "cleanup"
    /\ verdict' = IF intent THEN "CANCELLED" ELSE IF expired THEN "TIMEOUT" ELSE v
    /\ deadlineArmed' = (verdict' # "BUDGET_EXCEEDED" /\ status \in Underway /\ ~expired)
    /\ retryArmed' = FALSE
    /\ UNCHANGED <<turn, seenIntent, seen, mode, origin, abort, lost>>
    /\ NoWrite

\* finalizeAbortedExecution: an abort no durable authority explains throws.
FinalizeAborted ==
    \/ Ended /\ Terminate("TIMEOUT") /\ UNCHANGED supervised
    \/ ~Ended /\ LoadTimers /\ NoWrite /\ Release

\* The Run settles as s with nothing left open.
Conclude(s) == Write(s, FALSE, Settled, NoCont, "none") /\ Release

Hold  == UNCHANGED supervised
Keep  == UNCHANGED <<approval, stage, outside, faults, drains, purpose>>
Fault == faults < MaxFaults /\ faults' = faults + 1

-----------------------------------------------------------------------------
(* Mutated forms of actions *)

\* An open Step is driven on.
RecoverDrivesStep ==
    /\ pc = "recovering" /\ ~seenIntent /\ ~expired
    /\ status = "RUNNING" /\ cont.type \in {"WAITING_TOOL_RESULTS", "NONE"}
    /\ Drive("RECOVER")
    /\ UNCHANGED timers /\ NoWrite /\ Hold /\ Keep

\* A recovered batch is entered like a new one.
RecoverExecutes ==
    /\ pc = "recovering" /\ ~seenIntent /\ ~expired
    /\ status = "RUNNING" /\ ~open /\ cont.type \in {"WAITING_TOOL_RESULTS", "NONE"}
    /\ Drive("EXECUTE")
    /\ UNCHANGED timers /\ NoWrite /\ Hold /\ Keep

\* The timer is consumed and nobody drives.
ResumeBackoffReturns == NoWrite /\ Release /\ retryArmed' = FALSE

\* The step budget is asked for by nobody.
LoopAdvanceUnbounded ==
    /\ pc = "loop" /\ ~seenIntent /\ ~expired /\ status = "RUNNING"
    /\ pc' = "prepare" /\ origin' = cont
    /\ UNCHANGED <<verdict, turn, seenIntent, seen, mode, abort, lost>>
    /\ UNCHANGED timers /\ NoWrite /\ Hold /\ Keep

\* The failed turn is reported and not written.
SettleFatalUnwritten ==
    /\ pc = "settle" /\ ~Ended /\ turn = "FATAL"
    /\ LoadTimers /\ NoWrite /\ Release
    /\ Keep

\* The completion transaction trusts its plan: about corrections,
CommitIgnoresInputs ==
    /\ pc = "commit" /\ ~intent
    /\ Conclude("COMPLETED")
    /\ UNCHANGED timers /\ Keep

\* ... and about the cancellation.
CommitIgnoresIntent ==
    /\ pc = "commit" /\ ~Unassigned
    /\ Conclude("COMPLETED")
    /\ UNCHANGED timers /\ Keep

CleanupKeepsApproval ==
    /\ pc = "cleanup" /\ pc' = "seal"
    /\ UNCHANGED <<timers, approval, verdict, turn, seenIntent, seen, mode, origin, abort,
                   lost>>
    /\ UNCHANGED <<stage, outside, faults, drains, purpose>> /\ NoWrite /\ Hold

AcceptInputAfterIntent ==
    /\ up /\ status \in Underway /\ ~expired
    /\ accepted < MaxInputs
    /\ accepted' = accepted + 1
    /\ stage' = [stage EXCEPT ![accepted + 1] = "PENDING"]
    /\ UNCHANGED <<ledger, approval, driver, timers, intent, canceller, deadliner, up,
                   draining, expired, due, faults, drains, purpose>>

-----------------------------------------------------------------------------
(* Taking the lock *)

\* The Supervisor schedules new work on a Run nobody drives.
Schedulable == up /\ pc = "idle" /\ ~draining

Start ==
    /\ Schedulable /\ status = "PENDING"
    /\ supervised' = TRUE
    /\ \/ intent /\ Terminate("CANCELLED")
       \/ /\ ~intent
          /\ Write("RUNNING", FALSE, 0, NoCont, "none")
          /\ Drive("RECOVER")
          /\ UNCHANGED timers
    /\ Keep

\* The API, the startup reconciliation and the liveness sweeper recover.
Recover ==
    /\ Schedulable /\ status \in Underway
    /\ supervised' = TRUE
    /\ pc' = "recovering" /\ Snapshot /\ LoadTimers
    /\ UNCHANGED <<verdict, turn, mode, origin, abort, lost>>
    /\ NoWrite /\ Keep

\* coordinatedBoundary answers unless the scope was aborted for a restart or
\* a Step is open.
Coordinated == abort # "MANAGED_RESTART" /\ ~open
Suspended   == status = "WAITING_APPROVAL" \/ (cont.type \in Backoff /\ ~due)
Cancelling  == abort \in {"USER_REQUESTED", "DEADLINE_EXCEEDED"}

\* A Run that waits for a resource is not routed by the coordinator.
RecoverEnds ==
    /\ pc = "recovering"
    /\ seenIntent \/ expired \/ (Cancelling /\ status # "WAITING_RESOURCE")
    /\ Terminate(IF seenIntent THEN "CANCELLED" ELSE "TIMEOUT")
    /\ Hold /\ Keep

Recovering == /\ pc = "recovering" /\ ~seenIntent /\ ~expired
              /\ Cancelling => status = "WAITING_RESOURCE"

RecoverMaxSteps ==
    /\ Recovering /\ status # "WAITING_RESOURCE"
    /\ Coordinated /\ steps >= MaxSteps
    /\ Conclude("MAX_STEPS_REACHED")
    /\ UNCHANGED timers /\ Keep

Recoverable == /\ Recovering /\ status # "WAITING_RESOURCE"
               /\ Coordinated => steps < MaxSteps /\ ~Suspended

\* resumeRetryLocked and resumeProviderWaitLocked: a provider cooldown that
\* is over becomes a fresh retry episode. The steps left were checked when
\* the checkpoint was written.
ResumeBackoff ==
    /\ Write(status, open, steps, [cont EXCEPT !.type = "WAITING_RETRY",
               !.attempt = IF cont.type = "WAITING_PROVIDER" THEN 1 ELSE cont.attempt], batch)
    /\ Drive("RECOVER")
    /\ retryArmed' = FALSE

RecoverBackoff ==
    /\ Recoverable /\ cont.type \in Backoff /\ due
    /\ ResumeBackoff
    /\ UNCHANGED deadlineArmed /\ Hold /\ Keep

\* A Step no driver owns any more fails closed: the provider was contacted.
RecoverStaleStep ==
    /\ Recoverable /\ open
    /\ Conclude("FAILED")
    /\ UNCHANGED timers /\ Keep

RecoverDrives ==
    /\ Recoverable /\ status = "RUNNING" /\ ~open
    /\ cont.type \in {"WAITING_TOOL_RESULTS", "NONE"}
    /\ Drive("RECOVER")
    /\ UNCHANGED timers /\ NoWrite /\ Hold /\ Keep

\* Everything else is left as it is. A WAITING_APPROVAL Run always ends here:
\* the coordinator suspends it before recoverLocked looks at its approval.
RecoverReturns ==
    /\ Recovering
    /\ \/ status = "WAITING_RESOURCE"
       \/ Coordinated /\ steps < MaxSteps /\ Suspended
       \/ /\ Recoverable
          /\ cont.type = "WAITING_STEERING" \/ (cont.type \in Backoff /\ ~due)
    /\ NoWrite /\ Release
    /\ UNCHANGED timers /\ Keep

-----------------------------------------------------------------------------
(* The production loop: driveRunExecutionLocked *)

LoopEnds ==
    /\ pc = "loop" /\ (seenIntent \/ expired)
    /\ Terminate("TIMEOUT")
    /\ Hold /\ Keep

Looping == pc = "loop" /\ ~seenIntent /\ ~expired

LoopWaits ==
    /\ Looping /\ status \in Waiting
    /\ NoWrite /\ Release
    /\ UNCHANGED timers /\ Keep

\* Where the user's corrections may become messages of the conversation.
AtInputBoundary ==
    /\ status = "RUNNING"
    /\ \/ cont.type = "WAITING_TOOL_RESULTS" /\ cont.received /\ ~cont.waiting
       \/ cont.type = "WAITING_RETRY" /\ due

LoopHandoff ==
    /\ Looping /\ AtInputBoundary /\ Batch(seen) # {}
    /\ stage' = Recorded(Batch(seen))
    /\ Snapshot
    /\ UNCHANGED <<pc, verdict, turn, mode, origin, abort, lost>>
    /\ UNCHANGED <<timers, approval, outside, faults, drains, purpose>> /\ NoWrite /\ Hold

Routing == Looping /\ status = "RUNNING" /\ ~(AtInputBoundary /\ Batch(seen) # {})

LoopMaxSteps ==
    /\ Routing /\ steps >= MaxSteps
    /\ Conclude("MAX_STEPS_REACHED")
    /\ UNCHANGED timers /\ Keep

AwaitsTools == cont.type = "WAITING_TOOL_RESULTS" /\ ~cont.received /\ ~cont.waiting

LoopTools ==
    /\ Routing /\ steps < MaxSteps /\ AwaitsTools
    /\ Write(status, open, steps, cont, "begun")
    /\ Goto("tools")
    /\ UNCHANGED timers /\ Hold /\ Keep

LoopAdvance ==
    /\ Routing /\ steps < MaxSteps /\ ~AwaitsTools
    /\ pc' = "prepare" /\ origin' = cont
    /\ UNCHANGED <<verdict, turn, seenIntent, seen, mode, abort, lost>>
    /\ UNCHANGED timers /\ NoWrite /\ Hold /\ Keep

-----------------------------------------------------------------------------
(* One model turn: executeAgentDirective and AgentLoop.advance *)

\* The conversation cannot be prepared: no reload, no authority is asked.
PreflightFails ==
    /\ pc = "prepare" /\ abort = "none"
    /\ Conclude("FAILED")
    /\ UNCHANGED timers /\ Keep

PrepareAborted ==
    /\ pc = "prepare" /\ abort # "none"
    /\ FinalizeAborted
    /\ Keep

\* Restarted before the turn opened: the Run stays where it is, and the
\* driver takes the same boundary again when it holds Tool results or steering.
RestartBeforeOpen ==
    /\ pc = "prepare" /\ abort = "MANAGED_RESTART"
    /\ LoadTimers /\ NoWrite
    /\ IF cont.type \in {"WAITING_STEERING", "WAITING_TOOL_RESULTS"}
       THEN Drive("EXECUTE") /\ Hold
       ELSE Release
    /\ Keep

PrepareFails ==
    /\ pc = "prepare"
    /\ pc' = "settle" /\ turn' = "FATAL"
    /\ UNCHANGED <<verdict, seenIntent, seen, mode, origin, abort, lost>>
    /\ UNCHANGED timers /\ NoWrite /\ Hold /\ Keep

BudgetBlocks ==
    /\ pc = "prepare"
    /\ Terminate("BUDGET_EXCEEDED")
    /\ Hold /\ Keep

\* The commit that opens the Step fails: the Run stays recoverable.
BoundaryFails ==
    /\ pc = "prepare" /\ Fault
    /\ FinalizeAborted
    /\ UNCHANGED <<approval, stage, outside, drains, purpose>>

\* openAgentTurn: the Step is durable before the provider is called. It takes
\* the corrections its prepared context carries, and consumes every boundary
\* but Tool results. Nothing asks for an intent or a deadline here.
OpenTurn ==
    /\ pc = "prepare"
    /\ Write(status, TRUE, steps,
             IF cont.type = "WAITING_TOOL_RESULTS" THEN cont ELSE NoCont, batch)
    /\ \E carried \in SUBSET {i \in Inputs : stage[i] = "RECORDED"} :
         stage' = [i \in Inputs |-> IF i \in carried THEN "ASSIGNED" ELSE stage[i]]
    /\ purpose' = TurnInput(cont)
    /\ LoadTimers
    /\ Goto("calling")
    /\ UNCHANGED <<approval, outside, faults, drains>> /\ Hold

\* An abort is only observed by the provider call, which may still answer.
ProviderAnswers ==
    /\ pc = "calling"
    /\ turn' \in {"FINAL_CANDIDATE", "TOOL_REQUESTS", "FATAL", "RETRYABLE"}
                   \cup (IF abort = "none" THEN {} ELSE {"CANCELLED"})
    /\ pc' = "settle"
    /\ UNCHANGED <<verdict, seenIntent, seen, mode, origin, abort, lost>>
    /\ UNCHANGED timers /\ NoWrite /\ Hold /\ Keep

-----------------------------------------------------------------------------
(* Settling a model turn: settle *)

SettleEnds ==
    /\ pc = "settle" /\ Ended
    /\ Terminate("TIMEOUT")
    /\ Hold /\ Keep

\* The attempt spent the budget.
SettleOverspent ==
    /\ pc = "settle" /\ ~Ended /\ open
    /\ Terminate("BUDGET_EXCEEDED")
    /\ Hold /\ Keep

Settling(t) == pc = "settle" /\ ~Ended /\ turn = t

\* settleDeferredFinalCandidate: the answer is kept as commentary, the
\* corrections are recorded, and the Run steers.
Defer ==
    /\ Write(status, FALSE, Settled, Steering, batch)
    /\ stage' = Recorded(Batch(accepted))
    /\ Drive("EXECUTE")
    /\ LoadTimers
    /\ UNCHANGED <<approval, outside, faults, drains, purpose>> /\ Hold

SettleDeferred == Settling("FINAL_CANDIDATE") /\ Unassigned /\ Defer

\* The completion is planned; its transaction is still to take the write lock.
SettleFinal ==
    /\ Settling("FINAL_CANDIDATE") /\ ~Unassigned
    /\ LoadTimers
    /\ Goto("commit")
    /\ NoWrite /\ Hold /\ Keep

SettleTools ==
    /\ Settling("TOOL_REQUESTS")
    /\ Write(status, FALSE, Settled, ToolsRequested, "fresh")
    /\ Drive("EXECUTE")
    /\ LoadTimers /\ Hold /\ Keep

SettleFatal ==
    /\ Settling("FATAL")
    /\ LoadTimers
    /\ Conclude("FAILED")
    /\ Keep

SettlingRetry ==
    Settling("RETRYABLE") \/ (Settling("CANCELLED") /\ abort = "MANAGED_RESTART")

\* The checkpoint of the next attempt, armed unless it is past the deadline.
Checkpoint(type, attempt, late) ==
    /\ Write(status, FALSE, Settled,
             [NoCont EXCEPT !.type = type, !.mode = ResumeMode(origin),
                            !.attempt = attempt, !.late = late], batch)
    /\ deadlineArmed' = (status \in Underway /\ ~expired)
    /\ retryArmed' = (~draining /\ ~late)
    /\ Release

Attempt == IF origin.type = "WAITING_RETRY" THEN origin.attempt ELSE 1

SettleRetry ==
    /\ SettlingRetry
    /\ \/ Settled >= MaxSteps /\ LoadTimers /\ Conclude("MAX_STEPS_REACHED")
       \/ Settled < MaxSteps /\ Attempt < MaxAttempts
            /\ Checkpoint("WAITING_RETRY", Attempt + 1, FALSE)
       \* The backoff would outlast the deadline.
       \/ Settled < MaxSteps /\ Attempt < MaxAttempts
            /\ LoadTimers /\ Conclude("FAILED")
       \* The episode is exhausted, or the provider asks for a longer pause.
       \/ Settled < MaxSteps
            /\ \E late \in BOOLEAN : Checkpoint("WAITING_PROVIDER", 1, late)
    /\ Keep

\* commitInternal reads the intent and the corrections again under the lock.
CommitRefused ==
    /\ pc = "commit" /\ intent
    /\ NoWrite /\ Release
    /\ UNCHANGED timers /\ Keep

CommitDeferred == pc = "commit" /\ ~intent /\ Unassigned /\ Defer

CommitCompletes ==
    /\ pc = "commit" /\ ~intent /\ ~Unassigned
    /\ Conclude("COMPLETED")
    /\ UNCHANGED timers /\ Keep

-----------------------------------------------------------------------------
(* One Tool batch *)

\* The Tool system settled what it could. Only a recovered invocation can have
\* an effect nobody can confirm; a batch that asks for approval has a request.
ToolsFinish ==
    /\ pc = "tools"
    /\ turn' \in {"COMPLETED", "WAITING_APPROVAL", "EFFECT_UNCONFIRMED", "BUDGET_EXCEEDED"}
    /\ turn' = "COMPLETED" => approval # "PENDING"
    /\ turn' = "EFFECT_UNCONFIRMED" => mode = "RECOVER"
    /\ approval' = IF turn' = "WAITING_APPROVAL" THEN "PENDING" ELSE approval
    /\ pc' = "toolSettle"
    /\ UNCHANGED <<verdict, seenIntent, seen, mode, origin, abort, lost>>
    /\ UNCHANGED <<timers, stage, outside, faults, drains, purpose>> /\ NoWrite /\ Hold

\* Tool infrastructure failed: settled on the snapshot the batch started from,
\* unless a Tool's effect has moved AgentState since.
ToolsFail ==
    /\ pc = "tools"
    /\ \/ abort # "none" /\ FinalizeAborted /\ UNCHANGED faults
       \/ abort = "none" /\ Conclude("FAILED") /\ UNCHANGED <<timers, faults>>
       \/ abort = "none" /\ Fault /\ NoWrite /\ Release /\ UNCHANGED timers
    /\ UNCHANGED <<approval, stage, outside, drains, purpose>>

ToolsAborted ==
    /\ pc = "toolSettle" /\ abort # "none"
    /\ FinalizeAborted
    /\ Keep

ToolSettleEnds ==
    /\ pc = "toolSettle" /\ abort = "none" /\ (Ended \/ turn = "BUDGET_EXCEEDED")
    /\ Terminate("BUDGET_EXCEEDED")
    /\ Hold /\ Keep

ToolOutcome ==
    CASE turn = "COMPLETED" -> <<status, [cont EXCEPT !.received = TRUE], "none">>
      [] turn = "WAITING_APPROVAL" ->
           <<"WAITING_APPROVAL", [cont EXCEPT !.waiting = TRUE], batch>>
      [] OTHER -> <<"WAITING_RESOURCE", [cont EXCEPT !.type = "WAITING_RESOURCE"], batch>>

ToolsSettle ==
    /\ pc = "toolSettle" /\ abort = "none" /\ ~Ended /\ turn # "BUDGET_EXCEEDED"
    /\ Write(ToolOutcome[1], open, steps, ToolOutcome[2], ToolOutcome[3])
    /\ LoadTimers
    /\ Drive("EXECUTE")
    /\ Hold /\ Keep

-----------------------------------------------------------------------------
(* Ending the Run *)

\* Timeout and budget read again after the cleanup, and still yield to an
\* intent; a cancellation does not have to.
CleanupConfirmed ==
    /\ pc = "cleanup"
    /\ IF verdict = "CANCELLED" THEN UNCHANGED timers ELSE LoadTimers
    /\ IF verdict # "CANCELLED" /\ intent
       THEN /\ verdict' = "CANCELLED" /\ UNCHANGED <<pc, approval>>
       ELSE /\ approval' = IF approval = "PENDING" THEN "CANCELLED" ELSE approval
            /\ pc' = "seal" /\ UNCHANGED verdict
    /\ UNCHANGED <<turn, seenIntent, seen, mode, origin, abort, lost>>
    /\ UNCHANGED <<stage, outside, faults, drains, purpose>> /\ NoWrite /\ Hold

\* A process may have outlived its Run: nothing is written.
CleanupUnconfirmed ==
    /\ pc = "cleanup" /\ Fault
    /\ NoWrite /\ Release
    /\ UNCHANGED <<timers, approval, stage, outside, drains, purpose>>

Seal ==
    /\ pc = "seal"
    /\ Conclude(verdict)
    /\ deadlineArmed' = (deadlineArmed /\ verdict # "TIMEOUT")
    /\ UNCHANGED retryArmed /\ Keep

-----------------------------------------------------------------------------
(* What a person resolves *)

\* The resolution is committed on its own, before the Run moves.
ResolveApproval ==
    /\ Schedulable /\ status = "WAITING_APPROVAL"
    /\ supervised' = TRUE
    /\ \/ Ended /\ Terminate("TIMEOUT") /\ UNCHANGED approval
       \/ /\ ~Ended
          /\ \/ approval = "PENDING" /\ approval' \in {"APPROVED", "REJECTED", "EXPIRED"}
             \/ approval \in {"APPROVED", "REJECTED"} /\ UNCHANGED approval
          /\ pc' = "approved" /\ Snapshot /\ LoadTimers
          /\ UNCHANGED <<verdict, turn, mode, origin, abort, lost>> /\ NoWrite
    /\ UNCHANGED <<stage, outside, faults, drains, purpose>>

\* resumeResolvedApprovalLocked writes the continuation member by member, and
\* the observation policy is not among them.
ApprovalResumes ==
    /\ pc = "approved"
    /\ Write("RUNNING", open, steps, [cont EXCEPT !.waiting = FALSE, !.policy = FALSE], batch)
    /\ Drive("RECOVER")
    /\ UNCHANGED timers /\ Hold /\ Keep

\* Reading a request that is past its time to live expires it.
ExpireApproval ==
    /\ up /\ approval = "PENDING" /\ status \notin Terminal
    /\ approval' = "EXPIRED"
    /\ UNCHANGED <<ledger, stage, driver, timers, outside, due, faults, drains, purpose>>

\* resumeEffectReconciliationWait: the user confirmed the unconfirmed effect.
ContinueResource ==
    /\ Schedulable /\ status = "WAITING_RESOURCE"
    /\ supervised' = TRUE
    /\ \/ Ended /\ Terminate("TIMEOUT")
       \/ /\ ~Ended
          /\ Write("RUNNING", open, steps, [cont EXCEPT !.type = "WAITING_TOOL_RESULTS"], batch)
          /\ Drive("RECOVER")
          /\ LoadTimers
    /\ Keep

-----------------------------------------------------------------------------
(* Beside the driver *)

Beside == UNCHANGED <<ledger, stage, due, faults, drains, purpose>>

\* RunInputStore.accept
AcceptInput ==
    /\ up /\ status \in Underway /\ ~intent /\ ~expired
    /\ accepted < MaxInputs
    /\ accepted' = accepted + 1
    /\ stage' = [stage EXCEPT ![accepted + 1] = "PENDING"]
    /\ UNCHANGED <<ledger, approval, driver, timers, intent, canceller, deadliner, up,
                   draining, expired, due, faults, drains, purpose>>

\* RunController.cancel: the intent is durable first,
RequestCancellation ==
    /\ up /\ status \notin Terminal /\ canceller = "none"
    /\ intent' = TRUE /\ canceller' = "requested"
    /\ UNCHANGED <<driver, approval, timers, accepted, deadliner, up, draining, expired>>
    /\ Beside

\* ... then the driver's scope is aborted,
CancelAborts ==
    /\ canceller = "requested"
    /\ canceller' = "waiting"
    /\ abort' = IF pc # "idle" /\ abort = "none" THEN "USER_REQUESTED" ELSE abort
    /\ UNCHANGED <<pc, local, supervised, lost, approval, timers>>
    /\ UNCHANGED <<intent, accepted, deadliner, up, draining, expired>> /\ Beside

\* ... and the lock is taken when the driver is gone.
CancelLocked ==
    /\ canceller = "waiting" /\ pc = "idle"
    /\ canceller' = "none"
    /\ IF status \in Terminal
       THEN UNCHANGED <<driver, ledger, due, timers>>
       ELSE Terminate("CANCELLED") /\ Hold
    /\ UNCHANGED <<approval, stage, intent, accepted, deadliner, up, draining, expired,
                   faults, drains, purpose>>

DeadlinePasses ==
    /\ status \in Underway /\ ~expired
    /\ expired' = TRUE
    /\ UNCHANGED <<driver, approval, timers, intent, accepted, canceller, deadliner, up,
                   draining>>
    /\ Beside

\* handleDeadline aborts the driver and waits for it.
DeadlineFires ==
    /\ deadlineArmed /\ expired
    /\ deadlineArmed' = FALSE
    /\ IF status \in Terminal
       THEN UNCHANGED <<abort, deadliner>>
       ELSE /\ abort' = IF pc # "idle" /\ abort = "none" THEN "DEADLINE_EXCEEDED" ELSE abort
            /\ deadliner' = "waiting"
    /\ UNCHANGED <<pc, local, supervised, lost, approval, retryArmed>>
    /\ UNCHANGED <<intent, accepted, canceller, up, draining, expired>> /\ Beside

DeadlineLocked ==
    /\ deadliner = "waiting" /\ pc = "idle"
    /\ deadliner' = "none"
    /\ IF status \in Terminal
       THEN UNCHANGED <<driver, ledger, due, timers>>
       ELSE Terminate("TIMEOUT") /\ Hold
    /\ UNCHANGED <<approval, stage, intent, accepted, canceller, up, draining, expired,
                   faults, drains, purpose>>

BackoffElapses ==
    /\ cont.type \in Backoff /\ ~due
    /\ cont.late => expired
    /\ due' = TRUE
    /\ UNCHANGED <<ledger, approval, stage, driver, timers, outside, faults, drains, purpose>>

\* handleRetry. Only the Controller knows of the driver it starts: the
\* Supervisor has no entry for it.
RetryTimerFires ==
    /\ retryArmed /\ (cont.type \in Backoff => due)
    /\ \/ /\ pc # "idle" \/ status # "RUNNING" \/ cont.type \notin Backoff
          /\ LoadTimers /\ NoWrite
          /\ UNCHANGED driver
       \/ /\ pc = "idle" /\ status = "RUNNING" /\ cont.type \in Backoff
          /\ IF Ended
             THEN Terminate("TIMEOUT")
             ELSE ResumeBackoff /\ deadlineArmed' = (status \in Underway /\ ~expired)
          /\ Hold
    /\ Keep

-----------------------------------------------------------------------------
(* The process *)

\* daemon.close: no new work, no retry timers,
BeginDrain ==
    /\ up /\ ~draining /\ drains < MaxDrains
    /\ draining' = TRUE /\ retryArmed' = FALSE /\ drains' = drains + 1
    /\ UNCHANGED <<ledger, approval, stage, driver, deadlineArmed, intent, accepted,
                   canceller, deadliner, up, expired, due, faults, purpose>>

\* ... a supervised driver that holds no Tool boundary is aborted
\* (prepareForShutdown; the caller tries again while one does),
CheckpointActive ==
    /\ draining /\ supervised /\ abort = "none"
    /\ status \notin Terminal /\ cont.type # "WAITING_TOOL_RESULTS"
    /\ abort' = "MANAGED_RESTART"
    /\ LoadTimers
    /\ UNCHANGED <<pc, local, supervised, lost, approval, outside>> /\ Beside

\* The process is gone, with its locks, callers and timers.
Stop ==
    /\ NoWrite /\ Release
    /\ up' = FALSE /\ draining' = FALSE
    /\ canceller' = "none" /\ deadliner' = "none"
    /\ deadlineArmed' = FALSE /\ retryArmed' = FALSE
    /\ UNCHANGED <<approval, stage, intent, accepted, expired, drains, purpose>>

\* ... and the daemon exits when the Supervisor has no active driver left.
Exit ==
    /\ draining /\ ~supervised /\ canceller = "none"
    /\ Stop
    /\ UNCHANGED faults

Crash == up /\ Fault /\ Stop

Restart ==
    /\ ~up
    /\ up' = TRUE
    /\ UNCHANGED <<driver, approval, timers, intent, accepted, canceller, deadliner,
                   draining, expired>>
    /\ Beside

-----------------------------------------------------------------------------

Drives ==
    \/ RecoverEnds \/ RecoverMaxSteps \/ RecoverBackoff \/ RecoverStaleStep
    \/ RecoverDrives \/ RecoverReturns
    \/ LoopEnds \/ LoopWaits \/ LoopHandoff \/ LoopMaxSteps \/ LoopTools \/ LoopAdvance
    \/ PreflightFails \/ PrepareAborted \/ RestartBeforeOpen \/ PrepareFails
    \/ BudgetBlocks \/ BoundaryFails \/ OpenTurn \/ ProviderAnswers
    \/ SettleEnds \/ SettleOverspent \/ SettleDeferred \/ SettleFinal \/ SettleTools
    \/ SettleFatal \/ SettleRetry
    \/ CommitRefused \/ CommitDeferred \/ CommitCompletes
    \/ ToolsFinish \/ ToolsFail \/ ToolsAborted \/ ToolSettleEnds \/ ToolsSettle
    \/ CleanupConfirmed \/ CleanupUnconfirmed \/ Seal
    \/ ApprovalResumes

Environment ==
    \/ Start \/ Recover \/ ResolveApproval \/ ExpireApproval \/ ContinueResource
    \/ AcceptInput \/ RequestCancellation \/ CancelAborts \/ CancelLocked
    \/ DeadlinePasses \/ DeadlineFires \/ DeadlineLocked \/ BackoffElapses \/ RetryTimerFires
    \/ BeginDrain \/ CheckpointActive \/ Exit \/ Crash \/ Restart

Next == Drives \/ Environment

Spec == Init /\ [][Next]_vars

\* Code that was scheduled runs: the driver and the callers that wait for its
\* lock, armed timers, a retried shutdown, a restarted daemon, the clock up to
\* the end of a backoff. Nothing says that a person answers, that the deadline
\* passes, or that anybody recovers the Run: who does, and how often, is
\* RunRecovery's.
Fairness ==
    /\ WF_vars(Drives)
    /\ WF_vars(CancelAborts) /\ WF_vars(CancelLocked)
    /\ WF_vars(DeadlineFires) /\ WF_vars(DeadlineLocked)
    /\ WF_vars(BackoffElapses) /\ WF_vars(RetryTimerFires)
    /\ WF_vars(CheckpointActive) /\ WF_vars(Exit) /\ WF_vars(Restart)

-----------------------------------------------------------------------------
(* Safety *)

\* A Run never completes over a correction the user was told is accepted but
\* no model turn carried: the completion transaction re-reads the queue.
NoCorrectionSkipped == status = "COMPLETED" => ~Unassigned

\* A cancellation that was acknowledged is never answered by a completion,
\* whichever of the two takes the write lock first.
CancelWins == status = "COMPLETED" => ~intent

\* A model call whose outcome was lost with its driver is never issued again:
\* whoever takes the Run over settles the open Step and calls no provider.
LostStepNotResent == lost => pc \notin {"prepare", "calling"}

\* Only a batch no Tool of which may have run is dispatched as new work. After
\* an approval, a crash or a restart it is entered to recover its invocations.
FreshDispatch ==
    [][pc # "tools" /\ pc' = "tools" /\ mode = "EXECUTE" => batch = "fresh"]_vars

\* No model turn is opened, and no Tool batch is parked on a person, that would
\* leave the Run without the Step the outcome needs.
StepBudget == open \/ status \in Waiting => steps < MaxSteps

\* The user's corrections become messages of the conversation in the order
\* they were accepted, also when a handoff is cut at the batch limit.
CorrectionsInOrder ==
    \A i, j \in Inputs :
        i < j /\ stage[j] \in {"RECORDED", "ASSIGNED"} => stage[i] \in {"RECORDED", "ASSIGNED"}

\* assertRunExecutionInvariant accepts every state a commit leaves behind, so
\* that no load of the Run ever throws.
SnapshotCoherent ==
    /\ status = "PENDING" \/ status \in Terminal => ~open /\ cont = NoCont
    /\ status = "RUNNING" => ~(open /\ cont.type \in Backoff \cup {"WAITING_STEERING"})
    /\ status = "WAITING_APPROVAL" =>
         cont.type = "WAITING_TOOL_RESULTS" /\ cont.waiting /\ ~cont.received
    /\ status = "WAITING_RESOURCE" => cont.type = "WAITING_RESOURCE"

\* A Run that ended by an authority of its own asks nobody for approval.
NoOrphanApproval ==
    status \in {"CANCELLED", "TIMEOUT", "BUDGET_EXCEEDED"} => approval # "PENDING"

\* A driver leaves an open Step behind only when something failed, the daemon
\* was shut down, or a cancellation raced its last commit.
StepLossExplained == lost => faults > 0 \/ drains > 0 \/ intent

\* Whatever interrupts a turn, the checkpoint of its next attempt says what the
\* turn was for, so that the retry does not start a different conversation.
RetryKeepsPurpose == cont.type \in Backoff => cont.mode = purpose

\* Only a durable intent makes a Run CANCELLED and only the clock TIMEOUT: a
\* restart, a crash or an abort whose reason is gone ends nothing.
EndsByAuthority ==
    /\ status = "CANCELLED" => intent
    /\ status = "TIMEOUT" => expired

\* The Run keeps the promises of the abstract specification.
Contract == INSTANCE RunContract WITH owed <- Unassigned
ImplementsContract == Contract!Spec
=============================================================================
