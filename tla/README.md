# Caelush: a verification development

Caelush is a local-first coding agent. A user starts a *Run* in a daemon; the
Run alternates model turns ("Steps") and Tool batches until the model answers,
and may on the way wait for approvals, retry a provider, take corrections from
the user, be cancelled, run out of time or budget, or lose the process it runs
in. Everything that matters is in SQLite, so that a Run survives the daemon.

This directory holds TLA+ modules that model how a Run is executed, how its Tool
calls are, how its events reach a client and how a patch gets into the workspace;
TLC configurations that check them on small instances; and TLAPS proofs for every
value of the constants. All paths below are relative to `src/`.

| file | what it is |
| --- | --- |
| `RunContract.tla` | abstract specification: what a Run promises |
| `RunLifecycle.tla` | the detailed model of one Run; properties; mutated forms |
| `RunLifecycle_proofs.tla` | the inductive invariant and the safety theorems |
| `RunRefinement_proofs.tla` | RunLifecycle implements RunContract |
| `RunRecovery.tla` | RunLifecycle with the startup reconciliation and the sweeper; its liveness properties |
| `RunRecovery_proofs.tla` | with these the Run still takes only RunLifecycle's steps |
| `MCRunLifecycle.tla` | what comments of the code claim and the code does not do |
| `ToolEffects.tla` | abstract specification: what durable Tool execution promises |
| `ToolExecution.tla` | the Tool calls of one turn: batch, durable calls, approvals, ledger |
| `ToolExecution_proofs.tla` | its inductive invariant, safety theorems and refinement |
| `MCToolExecution.tla` | three calls for TLC, and two more comments the code contradicts |
| `EventFeed.tla` | abstract specification: what the event stream promises a timeline |
| `RunEvents.tla` | writers, hub subscription, connection, timeline, reconnection |
| `RunEvents_proofs.tla` | its inductive invariant, safety theorems and refinement |
| `PatchCommit.tla` | commit, verification, rollback and inspection of one patch |
| `PatchCommit_proofs.tla` | its inductive invariant and safety theorems |
| `MCPatchCommit.tla` | three patches for TLC |
| `MC*.cfg` | one configuration per run |
| `PROJECT.json` | components, runs, source map, mutants, findings, hazards, theorems |

## 1. Inventory

The components of the system, the state they keep, how they interact, and what
would make them correct.

**RunController** (`packages/core/src/run-controller.ts`, 6161 lines) executes
one Run at a time under a per-Run lock in memory (`withLock`). Its operations:
`start`, `recover`, `resolveApproval`, `cancel`, `prepareForShutdown`,
`resumeEffectReconciliationWait`, the two timer callbacks `handleRetry` and
`handleDeadline`, and the production loop `driveRunExecutionLocked` they end in.
The loop decides on a snapshot and performs one effect (a model turn, a Tool
batch) that takes minutes; cancellation, deadline and corrections become durable
meanwhile. *Hard:* every settlement runs on state that may be stale; an abort
has three causes with different meanings; every await is a place to crash.
*Correct when:* a completion yields to a cancellation and to an accepted
correction, however late; a call already paid for is not repeated; only a
durable authority ends a Run; a wait is always left.

**Coordinator and planner** (`packages/agent/src/run/`) are pure: the
coordinator maps a snapshot to a directive, the planner maps an effect to a
transition. *Correct when* every boundary that can be written is one that can be
routed, and provenance (what a turn was to resume) survives retries.

**Execution store, cancellation, input and approval repositories**
(`packages/storage/src/`) keep the Run, AgentState, Step, continuation, intent,
corrections and approvals. A commit is one transaction with revision checks; the
natural completion reads the intent and the queue again under the write lock.

**Timers** (`run-deadline-registry.ts`, `run-retry-registry.ts` in core) are in
memory; a load of the Run arms or disarms them.

**Supervisor, sweeper, startup reconciliation, daemon** (`apps/daemon/src/`)
schedule drivers, look for Runs that no driver has, recover them after a
restart, and drain them on a managed shutdown. State: the Supervisor's table of
drivers, the sweeper's observation and attempts per Run, both in memory. *Hard:*
the Supervisor's table and the Controller's lock may disagree; the sweeper gives
up after three attempts, and a healthy wait spends them. *Correct when:* a Run
nobody drives is taken up again, or is known to have been given up.

**Agent loop** (`packages/agent/src/loop/agent-loop.ts`): prepare, open the Step
durably, call the provider, return a frozen effect.

**Durable Tools** (`packages/agent/src/tools/`): admission, approval, parallel
scheduling, invocations recorded before and after their effect, and recovery of
interrupted ones. State: one row per invocation (REQUESTED, WAITING_APPROVAL,
RUNNING, COMPLETED, FAILED) and its observation, in SQLite; the batch's index,
window and barrier in memory. *Hard:* an effect whose record was lost; calls that
share a window; a batch driven again from its first call after a crash or an
approval, with its barrier forgotten. *Correct when:* a handler is entered once,
never without its approval, never past a barrier; every call is answered.

**Approvals** (`packages/storage/src/repositories/approval-repository.ts`):
requests, decisions for one call or for the Run, expiry on read, withdrawal.
*Hard:* the decision comes beside the worker that waits for it.

**Budget ledger** (`packages/storage/src/run-budget-port.ts`,
`budget-ledger-repository.ts`): entries RESERVED, IN_FLIGHT, SETTLED,
CONSERVATIVE, RELEASED per call. *Hard:* admission reads a snapshot, awaits, and
then reserves. *Correct when:* what ran is counted once, and nothing that did not
run is counted for ever.

**Event hub** (`apps/daemon/src/events/`): replays durable events and joins them
with live ones for many subscribers with bounded queues. *Hard:* the subscription
stands before the watermark is read, so events come twice; a queue overflows;
some writers never announce what they commit. *Correct when:* the subscriber's
timeline has every announced event, once, in order.

**Runtime** (`packages/runtime/src/`): processes and their output, multi-file
patches with rollback, sandboxes, search, git. A patch (`patch/`) keeps its state
in the files themselves. *Hard:* nothing locks them; any call may fail; the
process may die in the middle of a write. *Correct when:* its answer says what is
in the workspace.

**Launcher and desktop** (`apps/launcher`, `apps/desktop`): one daemon per user
behind a startup lease; the desktop's supervisor of the daemon process.

**Clients** (`packages/client`, `apps/web`, `apps/cli`): the timeline reducer with
its memory of the last 1024 events, the reconnect scheduler with six delays, the
session manager that joins them.

**Context, AI gateway, security, verification, memory, protocol**: data
transformation and network adapters with little protocol state of their own.

`PROJECT.json` lists all of them under `components` with their status, and under
`hazards` what is hard to test, each at its line, with the property that covers
it or the reason why none does yet.

## 2. Plan

Built, in this order: the Run life cycle (the product's core logic and the place
where every other part meets) with its abstract contract; the Tool calls of a turn
with theirs; the event stream with its own; the patch. Proved: every safety
property of the main run of RunLifecycle, of ToolExecution, of RunEvents and of
PatchCommit, and all three refinements.

How the modules fit together: RunLifecycle has a Tool batch as one step (`tools`)
with the outcomes it can report; ToolExecution is that step in detail, with the Run
around it reduced to running, parked, settled or stopped. A Tool's handler is
one step of ToolExecution that may be OK, fail, or not know; PatchCommit is the
inside of the `apply_patch` handler, its outcomes OK, REFUSED or ROLLED_BACK, and
UNCERTAIN being those three, and its `reconcile` what `Reconcile` asks of a
RUNNING row after a crash. RunEvents takes the events that the transactions of both
commit, as numbers.

Not built, in the order of what they would add:

1. `RunSupervisor`: several Runs: the Supervisor's table, the Controller's lock,
   timer drivers, the sweeper's list of the 50 oldest, the answers given to callers.
2. `StartupLease`: two launchers, clocks, removal of an expired lease
   (`apps/launcher/src/startup-lease.ts`, `daemon-discovery.ts`).
3. `ProcessManager` and its output cursor.
4. The entries of model calls in the budget ledger, with Session scopes.
5. The VERIFYING completion and output recovery of RunLifecycle; retry delays.

## 3. RunLifecycle

Scope: one Run of the `NATURAL_V1` completion contract without an
output-recovery policy, which is what the daemon creates today. No part of the
interleaving is abstracted: whoever holds the lock is *the driver*, and
everything else happens beside it.

### State

| variables | code |
| --- | --- |
| `status`, `open`, `steps`, `cont`, `batch` | AgentRun.status, active Step, `usage.steps`, continuation, the batch's invocations; written only under the lock |
| `intent`, `approval`, `accepted`, `stage` | cancellation intent, ApprovalRequest, run inputs; written beside the driver |
| `pc`, `verdict`, `turn`, `seenIntent`, `seen`, `mode`, `origin` | the driver's place in the code and its locals; `seen*` is the possibly stale snapshot |
| `abort` | `RunExecutionScope.abortCause` |
| `supervised` | whether `RunExecutionSupervisor.active` knows the driver: not for retry-timer, deadline and cancel drivers |
| `canceller`, `deadliner` | callers waiting in `withTerminationLock` |
| `deadlineArmed`, `retryArmed`, `up`, `draining`, `expired`, `due` | timers, process, clock |
| `faults`, `drains`, `lost`, `purpose` | history, used only by bounds and properties |

A continuation is a record of its type and the members the code tells apart:
whether results were received, whether an approval is awaited, whether the
observation policy is present, what a retry resumes, its attempt, and whether
its next attempt is past the deadline. Message contents, tokens and times are
left out. A correction is its accepted sequence.

### Actions

One action per stretch of a handler between two points where somebody else can
act: an await that loads, commits, or calls out. The value of `pc` says where:

    idle --Start/Recover/ResolveApproval/ContinueResource/timers/cancel-->
      recovering   recoverLocked has loaded
      approved     the resolution is committed, the Run is not yet resumed
      loop         head of driveRunExecutionLocked with a snapshot
      prepare      executeAgentDirective, before the Step is durable
      calling      the provider has been called
      settle       an effect is in hand, authorities still to be asked
      commit       a completion is planned, the write lock not yet taken
      tools        the Tool system runs the batch
      toolSettle   its outcome is in hand
      cleanup      a termination was decided, processes still to be stopped
      seal         cleaned up, the terminal commit still to come

`Write` is a commit, `Release` the `finally` of the lock, `LoadTimers` what each
`load` does to the timers, `Terminate` the head of the three finalizers, `Drive`
the loop's `continue`. `PROJECT.json` maps every definition to its lines.

The SQLite transaction is atomic and serialised with every other one
(`withAuthoritativeTransaction`). A crash may come between any two actions.
`Fault` bounds crashes, a failed opening commit, a cleanup that cannot be
confirmed and a batch failure that meets a moved AgentState revision; `drains`
bounds managed shutdowns.

### Deliberate approximations

- `ToolsFinish` may report EFFECT_UNCONFIRMED for any recovered batch, not only
  one whose invocation had begun.
- The hand-off of corrections cuts a batch by count, not also by bytes.
- Two deadline derivations (controller and coordinator) are one clock.
- The model turn's stream, and its tokens against the budget, are the choice of
  an outcome.
- `Recover` may happen whenever nobody drives the Run, as a user may ask for it at
  any time. Who asks of the daemon's own accord, and how often, is RunRecovery's.

### RunRecovery: who takes the Run up again

RunLifecycle promises nothing of recoveries. `RunRecovery.tla` extends it with the
two parts of the daemon that ask for one, and their memory:

| variables | code |
| --- | --- |
| `reconciled` | `reconcileStaleRuns` of this daemon has looked at the Run |
| `watched`, `attempts` | the sweeper's `Observation`: `status`, `attempts` |

| action | code |
| --- | --- |
| `Reconcile` | once per daemon, after it listens and before the sweeper starts |
| `SweepSeesDriver` | the Supervisor drives the Run: the observation is deleted |
| `SweepObserves` | a status not seen before opens an episode with no attempt spent |
| `SweepRecovers` | an attempt is spent on `supervisor.recover`, up to `MaxSweeps` |
| `RunSteps` | a step of RunLifecycle; when it ends the process, the memory is gone |

An attempt is spent whatever the recovery does. It may restore the wait it found, or
fail because a driver the Supervisor does not know (a timer, a canceller) holds the
lock. So a Run that waits for an approval has used its three attempts up after about
half an hour in which nothing failed, and one that waits for a resource after about
twelve minutes. If it is then cancelled, or its deadline fires, the canceller or the
timer drives the termination; if its cleanup is not confirmed, nothing is written,
the timer has fired, and neither the sweeper nor anybody else looks at the Run before
a user or the next daemon does. `Forsaken` is that state, and the liveness properties
name it as the one exception:

    Forsaken  ==  idle, underway, watched = status, attempts = MaxSweeps, faults > 0

`faults > 0` is part of the claim: the spent attempts alone strand nobody, only
together with a failure. Without the exception TLC gives the story above as a
counterexample with one fault. The policy's comment
(`run-liveness-sweeper.ts`, "Recovery attempts per Run per status episode") has the
limit, so it is described here and is no finding.

The silence window and the cooldown are time and are left to fairness. A sweep of the
Run is one step. The list is of the 50 oldest recoverable Runs, of which this is one:
Runs that are parked or given up stay in it and can keep a newer one out, which takes
a model of several Runs to show.

## 4. ToolExecution

Scope: the Tool calls of one model turn, from the batch the Run dispatches to
the turn's settlement, over parks, resumptions and crashes.

| variables | code |
| --- | --- |
| `invocation`, `answer` | the call's `tool_invocations` row and its observation |
| `approval` | its `approval_requests` row: status and granted scope |
| `ledger` | its `run_budget_entries` row |
| `run` | the Run, as far as the turn goes: running, parked, reconciling, settled, stopped |
| `phase`, `next`, `window`, `barrier`, `item`, `result` | the batch, in memory: `executeCallsWithWindows` and its outcome |
| `pc`, `accounted`, `verdict` | each call's `execute()`: the await it is at and what it carries over it |
| `aborted` | the durable cancellation or deadline, and with it the signal |
| `kind`, `limit` | what the model asked for, what is left of `maxToolCalls` |
| `effects`, `crashes` | history |

A call's worker goes `find` (the row decides between fresh and recovered), `create`,
`lookup` (its approval), `admit` (policy, then a grant for the Run), `ask`,
`snapshot` and `reserve` (the ledger, over an await), `start`, `execute`, `handler`,
`settle`; a RUNNING row goes to `reconcile`. Each is one action, between two of
which siblings, the user, an abort or a crash may act. `Commit` has the condition that
`validateRunAndStep` puts on every write of an invocation: the Run is RUNNING.
The batch coordinator runs without an await between two windows: `Pass`,
`OpenWindow`, `StopAborted` and `Complete` are its loop, `Interpret` what it makes of
a window once every call of it has ended, in the order in which the code asks
(an error, an abort, a park, the budget). `SettleTurn` is `settleToolEffect`: a
cancellation or the deadline outranks what the batch came to. A parked turn comes back
only by a user's call, `ResolveApproval` (`resolveApprovalLocked`): it commits the
answer to the first parked call, or repeats an answer that was lost on its way, and
`ResumeApproval` then writes the Run. A crash between the two, or a request that
expired before anybody answered, leaves the turn parked: every recovery suspends a
WAITING_APPROVAL Run. `ResumeReconciliation` is the user's confirmation of an
effect. After either, `Drive` starts the whole batch again.

The batch without `parallelism` (`executeCallsSequentially`) is the batch with
windows of one: `Windowed = FALSE`.

Properties:

- `HandlerRunsAtMostOnce`: the record before the effect, and a recovery that never
  executes a RUNNING row.
- `UnapprovedNeverRan`: a decision neither overtakes nor follows the effect.
- `StartedIsAccounted`, `PreflightSuffices`, `SettledTurnReleases`: the ledger. The
  admission of one call checks a snapshot that a sibling may have outdated; that
  nothing is overdrawn is owed to the preflight of the whole batch, and that
  holds over any number of resumptions only because it counts what it reserved
  before as well.
- `DecisionsStand`: a call is asked for once. A recovered call is admitted again, on
  the scope it was granted; it is the reason why a turn can park only as often
  as it has calls.
- `BarrierHolds`: over crashes and resumptions, though the barrier itself is in
  memory: it is rebuilt because an earlier call's answer is found before a later
  call is prepared. A window of parallel-safe calls is the one exception: its calls
  have begun before one of them can turn out to be unknown.
- `EffectsInOrder`: of two calls that no window may hold together the first is
  finished, or will never start, when the second runs. Together with `MayShare` this
  is how much of "a later sibling never runs before the decision" is true
  (section 8): all of it where the batch is sequential.
- `SettledTurnAnswersAll`: the model gets an answer for each of its calls, and
  is told that nothing ran only where nothing did.
- `OutcomesAsAssumed`: what `RunLifecycle!ToolsFinish` takes for granted of a batch.
  It is the seam between the two modules: RunLifecycle chooses among the outcomes of a
  batch, and this says that ToolExecution reports each only where RunLifecycle's
  account of approvals and crashes agrees. A Run that waits for an approval has a
  request to show and no effect unconfirmed behind it, a Run that waits for a
  confirmation has an effect to confirm. A window may come to both; the order in
  which `WindowResult` asks matters.
- `TurnEnds`: only a missing answer leaves a turn unended. A turn that stays RUNNING or
  parked for ever is in the end parked, idle, not aborted, and waits for the user to
  call (`AwaitsUser`): because nobody answered, because the answer was lost in a
  crash, or because the request expired first, when no answer is accepted any more
  and only a cancellation or the deadline ends it (section 8, 2).
- `ImplementsEffects`: `ToolEffects`, at most one begin and one answer per call.

Approximations: `Throw` may strike at any await (SQLite, a lost revision, a handler
that throws outside its contract); the batch may be recovered any number of times;
a batch beyond the coordinator's request limit, which `executeInChunks` cuts into
segments that hand the barrier on, is one batch. A parked Run waits for
the first parked call. Not modelled: the contents of results, path policies,
artifacts, `cancelUnstarted` (only the legacy pending-batch adapter calls it).

## 5. RunEvents

Scope: the durable events of one Run, from the transaction that numbers them to the
timeline of one client, with reconnections. A durable event is its sequence number;
of a transient one only its class matters.

| variables | code |
| --- | --- |
| `last`, `silent` | `event_sequences.last_sequence`; the events whose writer never notifies |
| `due` | committed events a writer still has to notify |
| `stream`, `closed`, `queue`, `mark`, `cursor`, `page` | `watchEvents`: its place and locals, and the `BoundedSubscriberQueue` |
| `wire` | what was yielded and not yet read |
| `link`, `attempt` | `transportState` and `ReconnectScheduler` |
| `applied` | the sequences the timeline reduced |
| `transients`, `breaks` | bounds |

`Commit` is any store's transaction. Most writers notify the hub afterwards; the
resolution of an approval, the acceptance of an input, and any writer that fails
to reload what it committed do not: for them the event is `silent`. `Enqueue` is
the queue's policy: coalesce, append, or close the subscription with everything that
is pending. `watchEvents` subscribes before it reads the watermark, replays page by
page, drains what came meanwhile, passes over what of it was replayed, and goes live.
The client's `Receive` is `registerEvent`: an event it remembers is a duplicate, an
older one it does not remember is an error that ends the stream for good, anything
newer is applied, gaps included. Every end of a response is a failed attempt; `Open`
resumes after `Position`.

Notifications come in the order of the commits: between a commit and its notification
there are only microtasks, and SQLite is synchronous. `SeenAssumption` says that the
timeline remembers at least as many events as can be committed while a notification
is due (1024 in the code).

Properties: `MissesOnlySilent` (however the queue overflows and the connection
breaks), `OrderVerified` (neither the hub nor the timeline ever takes its own stream
for disordered, though events come twice), `ImplementsFeed` (`EventFeed`: in order,
once, only what was committed), `CatchesUp` (a client that still has attempts gets
every event that was announced).

`MissesOnlySilent` is exact: a silent event that is followed by an announced one on a
live stream is passed over and stays missing from that timeline until it is rebuilt.

Not modelled: `subscribe()` observers (the same queue without a replay), `dispose`,
`invalidateRuns` and deleted Runs, the projection to public events, HTTP errors that
end a stream at once, the byte bound beside the count bound, the session manager's
refresh of the Run (a failing one ends the stream without an attempt), a second
stream beside an old one that is being torn down.

## 6. PatchCommit

Scope: one prepared patch. Variables: `file` and `dirs` are the file system, with
`torn` for part of a text and `foreign` for what another program wrote; `pc`, `at`,
`applied`, `created` are the committer's call and locals; `outcome` and `verdict`
are what `apply` and, after a crash, `reconcile` answer; `touched` are the paths
another program edited since the patch last looked at them.

One action per call of the file system with the reads that lead to it: `guardSource`,
`guardDestination`, `createParentDirectories`, `writePatchFile`, `removePatchFile`,
`movePatchFile`, `verifyChange`, `undoRemove`, `undoWrite`,
`removePatchDirectoryIfEmpty`, `recheck`. Each may fail (`Fails`); a failing write
may leave nothing, part or all of its text. Between any two of them `Edit` is
another program, since nothing is locked, and `Crash` ends the process.

Properties: `SuccessIsApplied`, `FailureIsClean` (files for every interleaving of
edits, directories when there is none), `SingleFaultRecovers` (uncertainty takes two
failures or an edit), `WorkspaceIsPrefix` (whoever looks at the workspace, also after
a crash or an uncertain outcome, finds the patch made up to some change and not begun
from there on; one change at most is midway), `MatchedIsApplied` (an inspection that reports MATCHED is not
of a patch that was not made). All of them speak of the paths nobody edited
since the patch last looked at them: `touched` is what an outcome cannot know.

`reconcileOperation` recognises an update by its hunks, so that the text before
the patch may satisfy them as well (`Repetitive`), and a torn file may.
`Findings` has these as choices, and `MatchedIsApplied` makes the exception that it
needs: the theorem is for any set `Repetitive`, TLC has the empty one.

That the changes of a patch have no path in common (`PatchesAssumption`) is taken from
`parser.ts`, which compares the paths as they are written: "./a" beside "a" gets
through it, and so does "a/b" beside an "a" that is a file. Such patches are outside
the model.

Not modelled: parsing and hunk matching, symbolic links and ancestors (a check that
fails is a call that fails), line endings, modes.

## 7. Runs

| run | module, cfg | bounds | shows |
| --- | --- | --- | --- |
| `run_safety` | RunLifecycle, `MCRunSafety.cfg` | 3 Steps, 2 attempts, 2 corrections, batch of 1, 1 fault, 1 shutdown; about 4.2 million states | eleven invariants, one action property, RunContract |
| `run_liveness` | RunRecovery, `MCRunLiveness.cfg` | 2 Steps, 2 attempts, 1 correction, 1 fault, 1 shutdown, 1 attempt of the sweeper; about 1.5 million states | a cancelled or overdue Run ends, a backoff is left, unless the sweeper has given the Run up after a failure |
| `steering_resumes` ... `shutdown_step` | MCRunLifecycle | as small as the counterexample allows | five comments the code contradicts (section 8) |
| `tool_execution` | MCToolExecution, `MCToolExecution.cfg` | 3 calls in 5 mixes of kinds, windows of 2, 2 or 6 Tool calls left, 2 crashes; about 1.3 million states | nine invariants beside the type, decisions stand, ToolEffects, only a missing answer leaves the turn unended |
| `once_approval_budget`, `sibling_approval` | MCToolExecution | the same with 1 crash | two comments the code contradicts (section 8) |
| `run_events` | RunEvents, `MCRunEvents.cfg` | 5 durable events, queue, page and attempts of 2, a timeline that remembers 3, 2 breaks; about 1.3 million states | no gap, no repetition, no inversion; EventFeed; the client catches up |
| `patch_commit` | MCPatchCommit, `MCPatchCommit.cfg` | patches of 3 and 4 changes, 3 failing calls, 2 foreign edits, 1 crash; about 95 000 states | the answer of apply and of the inspection is true; one change at most is midway |

Why the bounds are enough. Three Steps allow a turn, its retry and the retry of
a resumed retry, which is where provenance can be forgotten. Two corrections
with a batch of one put one behind the batch limit. Two attempts let an episode
be retried and exhausted. One fault and one shutdown are enough for a lost Step
and its recovery, and for a restart inside a backoff. The safety theorems then
hold for every value of the six constants.

ToolExecution: three calls are a window of two with something behind it (a barrier
that reaches a later window needs no more), and a failed or rejected call before
it; two crashes let a call be interrupted, recovered, and its recovery be
interrupted. A limit of 2 makes the batch as a whole too large and a limit of 6 lets
calls be counted again when the batch resumes. Two of the calls share an approval
key, so that a grant for the Run covers the other. RunEvents: a queue of two
overflows while a third event comes; five events are two pages and a half, so that
replay, buffer and live tail all hold durable events; two breaks are a lost
connection with a failed attempt, or a crash and a loss. The wire buffers one event:
a longer one only lets the generator run further ahead. PatchCommit: every kind of
change in first, middle and last place, one directory that two changes share; three
failing calls are one in the patch, one in its rollback and one more; two edits, one
before and one after a file is looked at.

`CHECK_DEADLOCK FALSE`, everywhere: a Run that settled, a turn that ended, a
timeline that has every event and a patch that was answered stop for good, as they
should.

The properties of RunLifecycle, and what each would catch (those of the other
modules are in sections 4 to 6):

- `NoCorrectionSkipped`, `CancelWins`: the completion's window between plan and
  write lock.
- `LostStepNotResent`, `StepLossExplained`: the provider is not paid twice for a
  call, and calls are not lost without a reason.
- `FreshDispatch`: a batch that may have run is never dispatched as new.
- `StepBudget`: nothing is opened or parked on a person without a Step left.
- `CorrectionsInOrder`: the conversation has the user's order.
- `SnapshotCoherent`: `assertRunExecutionInvariant` accepts what is committed.
- `NoOrphanApproval`: an ended Run asks nobody for approval.
- `RetryKeepsPurpose`: provenance of retries.
- `EndsByAuthority`: only the durable intent makes CANCELLED, only the clock
  TIMEOUT.
- `ImplementsContract`: every step is a step of RunContract, or a stutter.
- `CancelTerminates`, `DeadlineTerminates`, `BackoffEnds` (RunRecovery): the only Run
  that keeps a cancellation unserved, outlives its deadline or stays in a backoff is
  one that is `Forsaken` for good.

Every property has a mutant in `PROJECT.json`: a form of one definition changed
the way a plausible bug would change it (they stand in the module under
"Mutated forms", or before the definition they change), with which TLC finds the
property violated.

### Fairness

`RunLifecycle!Fairness` is weak fairness of: the driver (`Drives`: an async function
that runs is resumed), the callers waiting for the lock, armed timers, the end of a
backoff (time passes), a retried managed checkpoint, the exit of a drained daemon, and
its restart. A driver inside the provider call is assumed to be answered: the gateway
has timeouts of its own. `RunRecovery!FairSpec` adds the reconciliation of a
daemon that is up and the sweeper's ticks: `SweepObserves`, and `SweepRecovers` while
it has attempts left. `Recover` itself is not fair: beyond those two it is a user's
call. Nothing is assumed of people (approvals, corrections, cancellation,
reconciliation of a resource, recovery) nor that a deadline passes. `MaxSweeps` is
three in the code; the run has one, which is enough to be used up by a healthy wait
in one behaviour and to be left for the one failure in another. The theorems are for
every number, also for zero, with which the policy switches sweeping off.

Three of the runs that refute a comment (`steering_resumes`, `expired_approval`,
`restart_abort`) assume `TirelessSpec`, in which an idle Run is recovered for ever.
That is more than the daemon gives, so what fails there fails under RunRecovery too.

`ToolExecution!Spec`: weak fairness of the driver of the batch, of each call's worker
(promises settle; handlers have timeouts or are aborted). A crash is followed by a
recovery of a Run that was RUNNING (`Reconcile` in RunRecovery), and an abort by a
termination whose cleanup is confirmed: where these may fail is RunRecovery's
subject. Nobody need decide (`ResolveApproval` is not fair), nobody need read a
request late enough to expire it, and nobody need vouch for an unconfirmed effect. `RunEvents!Spec`: weak fairness of the notification that follows a commit, of
the generator, and of the client's reading and timers. Nothing need commit, and
nothing need break: there are only `MaxBreaks` breaks, so that in the end a
connection holds. PatchCommit has no liveness property: the commit is a straight line
with bounded loops.

## 8. Where comments and code disagree

Each is a run that TLC ends with a counterexample.

1. **Steering is not resumed** (`steering_resumes`). A final answer is deferred
   because a correction came in, the Run commits WAITING_STEERING, and the
   process dies. `recoverLocked` drives WAITING_TOOL_RESULTS and "no
   continuation" only, so every recovery returns and the Run stays RUNNING.
   `continuation.ts:102-103` says a restart re-reads the checkpoint.
2. **An expired approval does not resume the Run** (`expired_approval`).
   `coordinatedBoundary` suspends any WAITING_APPROVAL Run before `recoverLocked`
   looks its approval up; the branch that would resume it is dead code.
   `run-liveness-sweeper.ts:63-64` relies on it.
3. **An approval drops the observation policy** (`tool_policy`).
   `resumeResolvedApprovalLocked` rebuilds the checkpoint member by member.
   `default-run-transition-planner.ts:341-342` says the policy is snapshotted
   so that no later projection falls back to a default.
4. **A managed restart can spin** (`restart_abort`). Aborted after the loop
   decided to advance and before the Step is open, a driver at a steering or Tool
   result boundary is handed its own RUNNING snapshot and goes round again under
   the same aborted scope. `run-controller.ts:419` says the abort is
   checkpointed before `prepareForShutdown` returns.
5. **A retry-timer driver escapes the shutdown** (`shutdown_step`). The
   Supervisor does not know the driver `handleRetry` started, so neither the
   managed checkpoint nor the drain waits for it. `daemon.ts:848` says every
   managed checkpoint has been committed.
6. **A call approved once has no budget** (`once_approval_budget`). Admission asks
   for approval before it reserves, and the call that is approved for once
   starts without coming back to admission. Its Tool call is never counted, in
   memory or in the ledger. `durable-execution-coordinator.ts:446-447` says that
   no crash can leave a RUNNING invocation whose budget was never started. This is
   the exception in `StartedIsAccounted`.
7. **A sibling runs beside a parked call** (`sibling_approval`). Windows are allowed
   unless every call is asked about or a guard hook is installed; the
   security policy asks for more, a read of a sensitive path for one.
   `batch-coordinator.ts:438-439` says a later sibling must never run before
   the decision.

Noticed on the way, without a run of their own:

- `docs/ARCHITECTURE.md` (about line 246) has `RunExecutionStore` and
  `ToolExecutionStore` as the only writers of durable events; approval resolutions
  (`approval-repository.ts:413-423`) and accepted inputs (`run-input-store.ts:272-276`)
  write them too, and nobody announces these (`silent` in RunEvents). A store that
  fails to reload what it committed (`tool-execution-store.ts:513-514`,
  `run-execution-store.ts:1107-1121`) does not announce it either.
- `batch-types.ts:50-56` says SKIPPED means not started; a RUNNING row that is
  recovered under an aborted signal is reported as SKIPPED
  (`durable-execution-coordinator.ts:822`, `batch-coordinator.ts:488-491`). The turn
  stops then, so that no settled turn says it (`SettledTurnAnswersAll`).
- The preflight of a batch that is driven again counts calls that are accounted for
  already (`batch-coordinator.ts:693-704`): a Run with enough budget for the batch can
  be stopped on resumption with BUDGET_EXCEEDED. A call that crashed between its
  reservation and RUNNING counts itself twice in the same way.
- The timeline takes an event older than the 1024 it remembers for a disorder
  (`reducer.ts:433-458`): a replay from 0 into a timeline with more events
  (`session-manager.ts:1756`) ends the stream for good.
- `parallel-scheduler.ts:101` says no result is dropped; when one call of a window
  throws, the results of its siblings are (138). Their rows remain, and the turn
  fails.

## 9. Proofs

`tlapm RunLifecycle_proofs.tla` and `tlapm RunRefinement_proofs.tla` check every
leaf. The theorems assume the six named ASSUMEs on the constants (naturals, some
of them positive) and nothing else: bounds are arbitrary, so that the number of
Steps, attempts, corrections, crashes and shutdowns is.

None of the properties is inductive. `CancelWins`, say, needs to know that
the driver at `commit` cannot have settled anything; `LostStepNotResent` needs
that a driver at `prepare` has no open Step, which needs that the loop is never
entered with one, which needs that a settlement always closes it. The inductive
invariant `IInv` is the conjunction of layers, each proved by one lemma with one
step per action, from the layers below it:

| layer | says |
| --- | --- |
| `Valued`, `FlagsOK` | the values of variables, the driver's locals included |
| `Shaped` | `StatusAt`, `BoundaryAt`, `StepAt`, `LostAt`: which status, continuation and Step go with each place of the driver |
| `Counted` | `CountsOK`, `Budgeted`: counters, and the Step kept in reserve |
| `Witnessed` | what the driver decided is explained by what it saw |
| `Authorized` | a verdict has its durable authority |
| `Accounted` | a lost Step has a cause |
| `Approvals` | which approvals can be pending where |
| `Fresh` | a batch entered as new has not begun |
| `Purposeful` | a checkpoint and the driver agree on what the turn is for |
| `Queued` | sequences are contiguous and their stages ordered |
| `NoCorrectionSkipped`, `CancelWins` | themselves |

`Invariance` is `Spec => []IInv`; every safety property of `run_safety` follows
as a theorem of its own (`TypeCorrectness`, `StepsAreBudgeted`,
`SnapshotsAreCoherent`, `LostStepsAreNotResent`, `LossesAreExplained`,
`EndsAreAuthorized`, `ApprovalsAreWithdrawn`, `RetriesKeepTheirPurpose`,
`CorrectionsKeepTheirOrder`, `CorrectionsAreNotSkipped`, `CancellationWins`,
`BatchesAreDispatchedFresh`). `Refinement` maps every action to a step of
RunContract or a stutter, with `IInv` giving the guards (`owed <- Unassigned`).

`ToolExecution_proofs` is for any number of calls in any mix of kinds, any policy,
keys, limits, window size and number of crashes (five named ASSUMEs). None of its
properties is inductive either: that a handler runs once needs to know that a call
at `execute` has a RUNNING row that no earlier process left, that a budget
suffices needs the demand of the whole batch. The layers of its `IInv`:

| layer | says |
| --- | --- |
| `TypeOK` | the values of variables |
| `CallsOK` | for each call, `RowAt`, `EffectsAt`, `ApprovalAt`, `EntryAt`: which row, effect, approval and ledger entry go with the await its worker is at |
| `Stage` | who is at work in which phase |
| `Barriers` | `Scheduled`, `Opened`: what is known of the calls before `next` and of a window; `StartedAfter`: what was known when a call was started, in this drive of the batch or an earlier one |
| `Windows` | `Cuts`: where windows can begin, given the kinds of the calls; `StartedIn`: a call was started only once all calls before its window were done with |
| `Reports` | `Items`, `Parks`, `Uncrashed`: what the batch has told the Run of each call, against what has become of it |
| `Budget` | `Fits`: a batch that is driven fits what is left, its own entries included; `Affordable`: no snapshot in flight refuses |

`CallsOK` is carried by a lemma that a worker's step leaves the fields of other
calls alone; `Budget` by counting what is accounted for inside the calls that can be
dispatched. `Windows` says that a batch which is driven again cuts its calls into the
same windows as before, so that what a crash left behind lies in one of them, and not
across two. Where windows begin is a recursion along the batch, which the provers
cannot do an induction about; so `Cuts` is the least set that holds the first call
and, with each beginning, the first call behind that window, and `CutsApart` takes
out of the set what lies inside a window and shows that the rest is still closed.

Theorems, one for every safety property of `tool_execution`: `TypeCorrectness`,
`AtMostOnce`, `ApprovalGuards`, `AskedOnce` (an action property), `Accounting`,
`BarrierTheorem`, `InOrder`, `PreflightTheorem`, `SettledReleases`,
`SettledAnswers`, `AssumedOutcomes`; all follow from `Invariance`, and so does
`Refinement`: every step is a step of ToolEffects or a stutter.

`PatchCommit_proofs` is for any patches of any length over any files, any directory
layout, any set of repetitive files and any number of faults and edits. Layers:
`Typed` (with `Place`: which call suits which change), `Looked` (what the last look
at a change found, for paths nobody edited since; it holds whatever others do),
`Pristine` (while nobody edits: each change is applied, undone, not begun or
midway; the directories are the old ones and those recorded; only a fault starts a
rollback), and `Ordered` (whoever edits: of the files left alone, the changes behind
the current one are made and those beyond it are not begun, or undone). `Ordered`
follows from neither of the others: any edit ends `Pristine`, and `Looked` speaks of
one change only. It survives a crash, an end without a word and a second fault during
rollback. Theorems: `Invariance`, `TypeCorrectness`, `Success`, `Failure`,
`SingleFault`, `PrefixOfThePatch`, `Inspection`: every property of `patch_commit`.

`RunRecovery_proofs` shows that whoever asks for recoveries, and however often, the Run
takes RunLifecycle's steps and no others (`SweptRunIsRun`), so that each of its safety
theorems holds with the sweeper too; and that the memory of the sweeper has its types
(`SweptMemory`).

`RunEvents_proofs` is for every size of page, queue, connection and memory, and any
number of events, attempts and breaks. That nothing is missed needs to be known of
every announced event: it was applied, or is on the wire, on the page, in the queue,
or due. Layers:

| layer | says |
| --- | --- |
| `TypeOK`, `OrderVerified` | the values of variables, and the property itself |
| `Attached`, `Committed` | who has a subscription; no event is newer than `last` |
| `Notices`, `Queued`, `Paged` | what is due, in the queue, on the page: in which order, before what |
| `Timeline` | positions grow with the sequence numbers; only silent events are passed over |
| `Owed` | up to where a subscription has sent everything, and where the rest is |
| `Ahead` | what comes behind a newer event was replayed, and committed not long ago |
| `Wired` | each event on the wire follows all before it (`Complete`) and is newer than those (`Fresh`), or was sent before (`Repeat`) |

`OrderVerified` is the hard one. An event that is notified after it was replayed comes
a second time on the live tail, behind newer ones. `Ahead` bounds how far
behind (`MaxInFlight`), so that with `SeenAssumption` the timeline still remembers it
and does not take it for one out of order. Theorems: `TypeCorrectness`,
`NothingMissed`, `InOrder`, and `Refinement`: every step is a step of EventFeed or
a stutter.

Only model-checked: the five liveness properties `CancelTerminates`,
`DeadlineTerminates`, `BackoffEnds`, `TurnEnds` and `CatchesUp` (fairness and ENABLED
are out of the prover's reach), and the seven counterexamples, which no proof can
give. Every type invariant, safety invariant, action property and refinement that a
passing run checks is a theorem.

## 10. Not modelled

In RunController: VERIFYING and its completion plans (only Runs created before
`NATURAL_V1`), output recovery, the legacy NO_PROGRESS wait and
`submitToolResults` (no host calls it), re-issue of a Step whose
`llm.started` event is absent (that event commits with the Step), the second
max-steps check in `resumeRetryLocked`. In the other modelled parts: see the ends
of sections 4 to 6.

Components without a module: the Supervisor's admission of several Runs, the
sweeper's list of several Runs, child processes, the launcher's lease and the desktop's
supervisor have protocol state and are candidates (see the plan). The
budget of model calls is a nondeterministic outcome in RunLifecycle. Security policy
and sandboxes, provider adapters, context selection and compaction, memory,
observability, settings and presentation transform data with little
state of their own; they appear as the choice of an outcome where a modelled part
calls them, and are outside this development. `components` in `PROJECT.json` lists
every part with its status, and `hazards` those that no property covers yet, with
the reason.
