------------------------ MODULE RunLifecycle_proofs ------------------------
(***************************************************************************)
(* Theorems about RunLifecycle, for every step budget, retry budget,       *)
(* number of corrections, batch limit and number of faults and shutdowns.  *)
(*                                                                         *)
(* The inductive invariant IInv is a conjunction of layers. Valued, FlagsOK *)
(* and Counted say what values the variables have and that nobody who can  *)
(* still spend a Step lacks one; Shaped says which ledger each point of    *)
(* the driver may hold; the others are about terminations, approvals, Tool *)
(* batches, retries and the user's corrections. Each layer has a lemma     *)
(* that says that a step preserves it, from the layers it needs: actions   *)
(* that leave the layer's variables alone are one case, those that only    *)
(* begin a termination, conclude the Run or let go of it another.          *)
(***************************************************************************)
EXTENDS RunLifecycle, TLAPS

\* A termination under way has a verdict.
VerdictKnown == pc \in {"cleanup", "seal"} => verdict # "none"

Valued == ValuesOK /\ VerdictKnown

\* The status the Run has at each point of the driver.
StatusAt ==
    /\ status \in Terminal => pc = "idle"
    /\ status = "PENDING" => pc \in {"idle", "cleanup", "seal"}
    /\ pc \in {"prepare", "calling", "settle", "commit", "tools", "toolSettle"} =>
         status = "RUNNING"
    /\ pc = "approved" => status = "WAITING_APPROVAL"

\* The boundary the Run is parked on, and the one a Tool batch is run from.
BoundaryAt ==
    /\ status = "PENDING" \/ status \in Terminal => cont = NoCont
    /\ status = "WAITING_APPROVAL" =>
         cont.type = "WAITING_TOOL_RESULTS" /\ cont.waiting /\ ~cont.received
    /\ status = "WAITING_RESOURCE" => cont.type = "WAITING_RESOURCE"
    /\ pc \in {"tools", "toolSettle"} => AwaitsTools
    /\ pc = "toolSettle" => turn \in {"COMPLETED", "WAITING_APPROVAL", "EFFECT_UNCONFIRMED",
                                      "BUDGET_EXCEEDED"}

\* Who may hold an open Step, and over which boundary.
StepAt ==
    open => /\ status = "RUNNING"
            /\ cont.type \in {"NONE", "WAITING_TOOL_RESULTS"}
            /\ pc \in {"idle", "recovering", "calling", "settle", "commit", "cleanup", "seal"}

\* A lost Step stays open until the Run has ended over it.
LostAt ==
    lost => \/ status \in Terminal
            \/ open /\ pc \in {"idle", "recovering", "cleanup", "seal"}

Shaped == StatusAt /\ BoundaryAt /\ StepAt /\ LostAt

\* Whoever can still open a Step, or waits for a person, has a Step to spend.
Budgeted ==
    open \/ status \in Waiting \/ pc \in {"prepare", "tools", "toolSettle"} => steps < MaxSteps

Counted == CountsOK /\ Budgeted

\* What the code takes for a reason to end a Run is durable, or is the time.
Witnessed ==
    /\ canceller # "none" => intent
    /\ deadliner # "none" => expired
    /\ seenIntent => intent
    /\ abort = "USER_REQUESTED" => intent
    /\ abort = "DEADLINE_EXCEEDED" => expired
    /\ status = "PENDING" => ~expired

\* What backs the verdict of a termination under way, and the end itself.
Authorized ==
    /\ pc \in {"cleanup", "seal"} =>
         /\ verdict = "CANCELLED" => intent
         /\ verdict = "TIMEOUT" => expired
         /\ verdict = "BUDGET_EXCEEDED" => status = "RUNNING"
         /\ status = "PENDING" => verdict = "CANCELLED"
    /\ EndsByAuthority

\* What may have left an open Step behind.
Accounted ==
    /\ draining => drains > 0
    /\ StepLossExplained

\* No request is pending once the cleanup has withdrawn it.
Approvals ==
    /\ pc = "seal" => approval # "PENDING"
    /\ NoOrphanApproval

\* In EXECUTE mode the loop only meets the batch it was just given.
Fresh ==
    /\ pc = "loop" /\ mode = "EXECUTE" /\ AwaitsTools => batch = "fresh"
    /\ pc = "prepare" => ~AwaitsTools

\* The decision snapshot still says what the open turn is for.
Purposeful ==
    /\ pc \in {"loop", "prepare"} => cont.type # "WAITING_PROVIDER"
    /\ pc = "prepare" => origin = cont
    /\ pc = "calling" => ResumeMode(origin) = purpose
    /\ pc = "settle" /\ turn \in {"RETRYABLE", "CANCELLED"} => ResumeMode(origin) = purpose
    /\ RetryKeepsPurpose

\* Every accepted correction is queued, and those handed over are a prefix.
Queued ==
    /\ \A i \in Inputs : stage[i] = "NONE" <=> i > accepted
    /\ CorrectionsInOrder

\* The inductive invariant.
IInv == /\ Valued /\ FlagsOK /\ Shaped /\ Counted /\ Witnessed /\ Authorized /\ Accounted
        /\ Approvals /\ Fresh /\ Purposeful /\ Queued
        /\ NoCorrectionSkipped /\ CancelWins

-----------------------------------------------------------------------------
(* Lemmas about the pieces several actions share *)

\* The three boundaries the code writes are continuations.
LEMMA NoContType == NoCont \in Continuations
  BY AttemptsAssumption DEF NoCont, Continuations, Backoff, ResumeModes

\* WAITING_STEERING is one.
LEMMA SteeringType == Steering \in Continuations
<1>1. \A c \in Continuations : [c EXCEPT !.type = "WAITING_STEERING"] \in Continuations
  BY DEF Continuations
<1>2. QED
  BY <1>1, NoContType DEF Steering

\* WAITING_TOOL_RESULTS is one.
LEMMA ToolsRequestedType == ToolsRequested \in Continuations
<1>1. \A c \in Continuations :
        [c EXCEPT !.type = "WAITING_TOOL_RESULTS", !.policy = TRUE] \in Continuations
  BY DEF Continuations
<1>2. QED
  BY <1>1, NoContType DEF ToolsRequested

\* The statuses a settlement writes are statuses.
LEMMA StatusNames ==
    /\ Terminal \subseteq Statuses
    /\ "RUNNING" \in Statuses /\ "WAITING_APPROVAL" \in Statuses
    /\ "WAITING_RESOURCE" \in Statuses
  BY DEF Terminal, Statuses, Underway, Waiting

\* The edits the actions make to a continuation.
LEMMA ContinuationEdits ==
    ASSUME NEW c \in Continuations
    PROVE  /\ [c EXCEPT !.received = TRUE] \in Continuations
           /\ [c EXCEPT !.waiting = TRUE] \in Continuations
           /\ [c EXCEPT !.waiting = FALSE, !.policy = FALSE] \in Continuations
           /\ [c EXCEPT !.type = "WAITING_RESOURCE"] \in Continuations
           /\ [c EXCEPT !.type = "WAITING_TOOL_RESULTS"] \in Continuations
           /\ \A a \in 1..MaxAttempts :
                [c EXCEPT !.type = "WAITING_RETRY", !.attempt = a] \in Continuations
  BY DEF Continuations, Backoff

\* What each way to write the ledger leaves behind has the values it should.
LEMMA ConcludeValues ==
    ASSUME ValuesOK, NEW s \in Statuses, Conclude(s),
           UNCHANGED <<approval, stage, canceller, deadliner, purpose>>
    PROVE  ValuesOK' /\ VerdictKnown'
  BY NoContType DEF ValuesOK, VerdictKnown, Conclude, Write, Release

\* A commit after which the driver goes on.
LEMMA DriveValues ==
    ASSUME ValuesOK, NEW s \in Statuses, NEW o, NEW n, NEW c \in Continuations,
           NEW b \in {"none", "fresh", "begun"}, NEW m \in {"EXECUTE", "RECOVER"},
           Write(s, o, n, c, b), Drive(m),
           UNCHANGED <<approval, stage, canceller, deadliner, purpose>>
    PROVE  ValuesOK' /\ VerdictKnown'
  BY NoContType DEF ValuesOK, VerdictKnown, Write, Drive

\* A backoff that is over becomes a fresh attempt.
LEMMA BackoffValues ==
    ASSUME ValuesOK, ResumeBackoff,
           UNCHANGED <<approval, stage, canceller, deadliner, purpose>>
    PROVE  ValuesOK' /\ VerdictKnown'
<1>1. cont \in Continuations /\ status \in Statuses /\ batch \in {"none", "fresh", "begun"}
  BY DEF ValuesOK
<1>2. (IF cont.type = "WAITING_PROVIDER" THEN 1 ELSE cont.attempt) \in 1..MaxAttempts
  BY <1>1, AttemptsAssumption DEF Continuations
<1>3. [cont EXCEPT !.type = "WAITING_RETRY",
          !.attempt = IF cont.type = "WAITING_PROVIDER" THEN 1 ELSE cont.attempt]
        \in Continuations
  BY <1>1, <1>2, ContinuationEdits
<1>4. QED
  BY <1>1, <1>3, DriveValues DEF ResumeBackoff

\* An abort writes nothing, and loses at most the Step that is open.
LEMMA AbortWritesNothing ==
    FinalizeAborted => /\ UNCHANGED <<ledger, due>>
                       /\ lost' = lost \/ lost' = (lost \/ open)
  BY DEF FinalizeAborted, Terminate, Release, NoWrite, ledger

\* The same for an aborted driver, a deferred answer and a retry checkpoint.
LEMMA AbortValues ==
    ASSUME ValuesOK, VerdictKnown, FinalizeAborted,
           UNCHANGED <<approval, stage, canceller, deadliner, purpose>>
    PROVE  ValuesOK' /\ VerdictKnown'
<1> USE NoContType DEF ValuesOK, VerdictKnown
<1>1. CASE Ended
  <2>1. UNCHANGED <<turn, mode, origin, abort, status, cont, batch>>
    BY <1>1 DEF FinalizeAborted, Terminate, NoWrite, ledger
  <2>2. pc' = "cleanup" /\ verdict' \in {"CANCELLED", "TIMEOUT"}
    BY <1>1 DEF FinalizeAborted, Terminate
  <2>3. QED
    BY <2>1, <2>2
<1>2. CASE ~Ended
  BY <1>2 DEF FinalizeAborted, NoWrite, ledger, Release
<1>3. QED
  BY <1>1, <1>2

\* A deferred final answer.
LEMMA DeferValues ==
    ASSUME ValuesOK, VerdictKnown, Defer PROVE ValuesOK' /\ VerdictKnown'
<1> USE NoContType, SteeringType DEF ValuesOK, VerdictKnown
<1>1. stage' \in [Inputs -> Stages]
  BY DEF Defer, Recorded, Stages
<1>2. cont' \in Continuations /\ status' \in Statuses /\ batch' = batch
  BY DEF Defer, Write
<1>3. QED
  BY <1>1, <1>2 DEF Defer, Drive, outside

\* Every outcome of a retryable turn.
LEMMA RetryValues ==
    ASSUME ValuesOK, VerdictKnown, SettleRetry PROVE ValuesOK' /\ VerdictKnown'
<1> USE NoContType DEF ValuesOK, VerdictKnown
<1>1. UNCHANGED <<approval, stage, canceller, deadliner, purpose>>
  BY DEF SettleRetry, Keep, outside
<1>2. ASSUME NEW s \in Statuses, Conclude(s) PROVE ValuesOK' /\ VerdictKnown'
  BY <1>1, <1>2 DEF Conclude, Write, Release
<1>3. ASSUME NEW t \in Backoff, NEW a \in 1..MaxAttempts, NEW late \in BOOLEAN,
             Checkpoint(t, a, late)
      PROVE  ValuesOK' /\ VerdictKnown'
  <2>1. ResumeMode(origin) \in ResumeModes
    BY DEF ResumeMode, ResumeModes, Continuations
  <2>2. cont' \in Continuations
    BY <1>3, <2>1, AttemptsAssumption
       DEF Checkpoint, Write, NoCont, Continuations, ResumeModes, Backoff
  <2>3. status' \in Statuses /\ batch' = batch
    BY <1>3 DEF Checkpoint, Write
  <2>4. QED
    BY <1>1, <1>3, <2>2, <2>3 DEF Checkpoint, Release
<1>4. Attempt < MaxAttempts => Attempt + 1 \in 1..MaxAttempts
  BY AttemptsAssumption DEF Attempt, Continuations
<1>5. "FAILED" \in Statuses /\ "MAX_STEPS_REACHED" \in Statuses
  BY DEF Statuses, Terminal
<1>6. Backoff = {"WAITING_RETRY", "WAITING_PROVIDER"} /\ 1 \in 1..MaxAttempts
  BY AttemptsAssumption DEF Backoff
<1>7. \/ Conclude("MAX_STEPS_REACHED")
      \/ Conclude("FAILED")
      \/ Attempt < MaxAttempts /\ Checkpoint("WAITING_RETRY", Attempt + 1, FALSE)
      \/ \E late \in BOOLEAN : Checkpoint("WAITING_PROVIDER", 1, late)
  BY DEF SettleRetry
<1>8. QED
  BY <1>2, <1>3, <1>4, <1>5, <1>6, <1>7

-----------------------------------------------------------------------------
(* Each layer is preserved by every step *)

\* Values: only what an action assigns is at stake.
LEMMA ValuesStep ==
    Valued /\ [Next]_vars => Valued'
<1> SUFFICES ASSUME ValuesOK, VerdictKnown, [Next]_vars
             PROVE  ValuesOK' /\ VerdictKnown'
  BY DEF Valued
<1> USE NoContType DEF ValuesOK, VerdictKnown
<1>1. CASE DeadlinePasses \/ BackoffElapses \/ BeginDrain \/ Restart
  <2>1. UNCHANGED <<status, cont, batch, approval, stage, pc, verdict, turn, mode, origin,
                     abort, canceller, deadliner, purpose>>
    BY <1>1 DEF DeadlinePasses, driver, local, Beside, ledger, BackoffElapses, outside,
        BeginDrain, Restart
  <2>2. QED
    BY <2>1
<1>2. CASE RecoverEnds \/ LoopEnds \/ BudgetBlocks \/ SettleEnds \/ SettleOverspent
           \/ ToolSettleEnds
  BY <1>2 DEF RecoverEnds, Terminate, NoWrite, ledger, Keep, outside, LoopEnds,
      BudgetBlocks, SettleEnds, SettleOverspent, ToolSettleEnds
<1>3. CASE RecoverReturns \/ LoopWaits \/ CommitRefused
  BY <1>3 DEF RecoverReturns, NoWrite, ledger, Release, Keep, outside, LoopWaits,
      CommitRefused
<1>4. CASE RecoverMaxSteps
  BY <1>4, ConcludeValues, StatusNames DEF RecoverMaxSteps, Keep, outside, Terminal
<1>5. CASE RecoverBackoff
  BY <1>5, BackoffValues DEF RecoverBackoff, Keep, outside
<1>6. CASE RecoverStaleStep
  BY <1>6, ConcludeValues, StatusNames DEF RecoverStaleStep, Keep, outside, Terminal
<1>7. CASE RecoverDrives
  BY <1>7 DEF RecoverDrives, Drive, NoWrite, ledger, Keep, outside
<1>8. CASE LoopHandoff
  <2>1. stage' \in [Inputs -> Stages]
    BY <1>8 DEF LoopHandoff, Recorded, Stages
  <2>2. QED
    BY <1>8, <2>1 DEF LoopHandoff, NoWrite, ledger, outside
<1>9. CASE LoopMaxSteps
  BY <1>9, ConcludeValues, StatusNames DEF LoopMaxSteps, Keep, outside, Terminal
<1>10. CASE LoopTools
  BY <1>10 DEF LoopTools, AwaitsTools, Write, Goto, local, Keep, outside
<1>11. CASE LoopAdvance
  BY <1>11 DEF LoopAdvance, AwaitsTools, NoWrite, ledger, Keep, outside
<1>12. CASE PreflightFails
  BY <1>12, ConcludeValues, StatusNames DEF PreflightFails, Keep, outside, Terminal
<1>13. CASE PrepareAborted
  BY <1>13, AbortValues DEF PrepareAborted, Keep, outside
<1>14. CASE RestartBeforeOpen
  BY <1>14 DEF RestartBeforeOpen, NoWrite, ledger, Drive, Release, Keep, outside
<1>15. CASE PrepareFails
  BY <1>15 DEF PrepareFails, NoWrite, ledger, Keep, outside
<1>16. CASE BoundaryFails
  BY <1>16, AbortValues DEF BoundaryFails, outside
<1>17. CASE OpenTurn
  <2>1. stage' \in [Inputs -> Stages]
    BY <1>17 DEF OpenTurn, Stages
  <2>2. purpose' \in ResumeModes
    BY <1>17 DEF OpenTurn, TurnInput, ResumeModes, Continuations
  <2>3. cont' \in Continuations /\ UNCHANGED <<status, batch>>
    BY <1>17 DEF OpenTurn, Write
  <2>4. QED
    BY <1>17, <2>1, <2>2, <2>3 DEF OpenTurn, Goto, local, outside
<1>18. CASE ProviderAnswers
  BY <1>18 DEF ProviderAnswers, NoWrite, ledger, Keep, outside
<1>19. CASE SettleDeferred
  BY <1>19, DeferValues DEF SettleDeferred
<1>20. CASE SettleFinal
  BY <1>20 DEF SettleFinal, Unassigned, Goto, local, NoWrite, ledger, Keep, outside
<1>21. CASE SettleTools
  <2>1. status \in Statuses
    BY DEF ValuesOK
  <2>2. QED
    BY <1>21, <2>1, ToolsRequestedType, DriveValues DEF SettleTools, Keep, outside
<1>22. CASE SettleFatal
  BY <1>22, ConcludeValues, StatusNames DEF SettleFatal, Keep, outside, Terminal
<1>23. CASE SettleRetry
  BY <1>23, RetryValues
<1>24. CASE CommitDeferred
  BY <1>24, DeferValues DEF CommitDeferred
<1>25. CASE CommitCompletes
  BY <1>25, ConcludeValues, StatusNames DEF CommitCompletes, Keep, outside, Terminal
<1>26. CASE ToolsFinish
  BY <1>26 DEF ToolsFinish, outside, NoWrite, ledger
<1>27. CASE ToolsFail
  <2>1. UNCHANGED <<approval, stage, canceller, deadliner, purpose>>
    BY <1>27 DEF ToolsFail, outside
  <2>2. CASE FinalizeAborted
    BY <2>1, <2>2, AbortValues
  <2>3. CASE Conclude("FAILED")
    BY <2>1, <2>3 DEF Conclude, Write, Release, Statuses, Terminal
  <2>4. CASE NoWrite /\ Release
    BY <2>1, <2>4 DEF NoWrite, ledger, Release
  <2>5. QED
    BY <1>27, <2>2, <2>3, <2>4 DEF ToolsFail
<1>28. CASE ToolsAborted
  BY <1>28, AbortValues DEF ToolsAborted, Keep, outside
<1>29. CASE ToolsSettle
  <2>1. cont \in Continuations /\ status \in Statuses /\ batch \in {"none", "fresh", "begun"}
    BY DEF ValuesOK
  <2>2. /\ ToolOutcome[1] \in Statuses
        /\ ToolOutcome[2] \in Continuations
        /\ ToolOutcome[3] \in {"none", "fresh", "begun"}
    BY <2>1, ContinuationEdits, StatusNames DEF ToolOutcome
  <2>3. QED
    BY <1>29, <2>2, DriveValues DEF ToolsSettle, Keep, outside
<1>30. CASE CleanupConfirmed
  BY <1>30 DEF CleanupConfirmed, outside, NoWrite, ledger
<1>31. CASE CleanupUnconfirmed
  BY <1>31 DEF CleanupUnconfirmed, NoWrite, ledger, Release, outside
<1>32. CASE Seal
  <2>1. verdict \in Statuses
    BY <1>32, StatusNames DEF Seal, Terminal
  <2>2. QED
    BY <1>32, <2>1, ConcludeValues DEF Seal, Keep, outside
<1>33. CASE ApprovalResumes
  <2>1. cont \in Continuations /\ batch \in {"none", "fresh", "begun"}
    BY DEF ValuesOK
  <2>2. [cont EXCEPT !.waiting = FALSE, !.policy = FALSE] \in Continuations
    BY <2>1, ContinuationEdits
  <2>3. QED
    BY <1>33, <2>1, <2>2, StatusNames, DriveValues DEF ApprovalResumes, Keep, outside
<1>34. CASE Start
  <2>1. CASE Terminate("CANCELLED")
    BY <1>34, <2>1 DEF Start, Terminate, NoWrite, ledger, Keep, outside
  <2>2. CASE ~Terminate("CANCELLED")
    BY <1>34, <2>2, StatusNames, DriveValues DEF Start, Keep, outside
  <2>3. QED
    BY <2>1, <2>2
<1>35. CASE Recover
  BY <1>35 DEF Recover, NoWrite, ledger, Keep, outside
<1>36. CASE ResolveApproval
  BY <1>36 DEF ResolveApproval, Terminate, NoWrite, ledger, outside
<1>37. CASE ExpireApproval
  BY <1>37 DEF ExpireApproval, Terminal, ledger, driver, local, outside
<1>38. CASE ContinueResource
  <2>1. cont \in Continuations /\ batch \in {"none", "fresh", "begun"}
    BY DEF ValuesOK
  <2>2. [cont EXCEPT !.type = "WAITING_TOOL_RESULTS"] \in Continuations
    BY <2>1, ContinuationEdits
  <2>3. CASE Terminate("TIMEOUT")
    BY <1>38, <2>3 DEF ContinueResource, Terminate, NoWrite, ledger, Keep, outside
  <2>4. CASE ~Terminate("TIMEOUT")
    BY <1>38, <2>1, <2>2, <2>4, StatusNames, DriveValues DEF ContinueResource, Keep, outside
  <2>5. QED
    BY <2>3, <2>4
<1>39. CASE AcceptInput
  <2>1. stage' \in [Inputs -> Stages]
    BY <1>39 DEF AcceptInput, Stages
  <2>2. QED
    BY <1>39, <2>1 DEF AcceptInput, ledger, driver, local
<1>40. CASE RequestCancellation
  BY <1>40 DEF RequestCancellation, Terminal, driver, local, Beside, ledger
<1>41. CASE CancelAborts
  BY <1>41 DEF CancelAborts, local, Beside, ledger
<1>42. CASE CancelLocked
  BY <1>42 DEF CancelLocked, Terminal, driver, local, ledger, Terminate, NoWrite
<1>43. CASE DeadlineFires
  BY <1>43 DEF DeadlineFires, Terminal, local, Beside, ledger
<1>44. CASE DeadlineLocked
  BY <1>44 DEF DeadlineLocked, Terminal, driver, local, ledger, Terminate, NoWrite
<1>45. CASE RetryTimerFires
  <2>1. UNCHANGED <<approval, stage, canceller, deadliner, purpose>>
    BY <1>45 DEF RetryTimerFires, Keep, outside
  <2>2. CASE NoWrite /\ UNCHANGED driver
    BY <2>1, <2>2 DEF NoWrite, ledger, driver, local
  <2>3. CASE Terminate("TIMEOUT")
    BY <2>1, <2>3 DEF Terminate, NoWrite, ledger
  <2>4. CASE ResumeBackoff
    BY <2>1, <2>4, BackoffValues
  <2>5. QED
    BY <1>45, <2>2, <2>3, <2>4 DEF RetryTimerFires
<1>46. CASE CheckpointActive
  BY <1>46 DEF CheckpointActive, Terminal, local, outside, Beside, ledger
<1>47. CASE Exit
  BY <1>47 DEF Exit, Stop, NoWrite, ledger, Release
<1>48. CASE Crash
  BY <1>48 DEF Crash, Stop, NoWrite, ledger, Release
<1>49. CASE UNCHANGED vars
  BY <1>49 DEF vars, ledger, local, timers, outside, driver
<1> QED
  BY <1>1, <1>2, <1>3, <1>4, <1>5, <1>6, <1>7, <1>8, <1>9, <1>10, <1>11, <1>12, <1>13,
     <1>14, <1>15, <1>16, <1>17, <1>18, <1>19, <1>20, <1>21, <1>22, <1>23, <1>24, <1>25,
     <1>26, <1>27, <1>28, <1>29, <1>30, <1>31, <1>32, <1>33, <1>34, <1>35, <1>36, <1>37,
     <1>38, <1>39, <1>40, <1>41, <1>42, <1>43, <1>44, <1>45, <1>46, <1>47, <1>48, <1>49
     DEF Next, Drives, Environment

\* Flags: every action assigns truth values.
LEMMA FlagsStep ==
    FlagsOK /\ [Next]_vars => FlagsOK'
<1> SUFFICES ASSUME FlagsOK, [Next]_vars
             PROVE  FlagsOK'
  OBVIOUS
<1> USE DEF FlagsOK
<1>1. CASE LoopAdvance \/ PrepareFails \/ ProviderAnswers \/ ToolsFinish \/ ExpireApproval
           \/ AcceptInput \/ CancelAborts
  <2>1. UNCHANGED <<open, intent, seenIntent, supervised, deadlineArmed, retryArmed, up,
                     draining, expired, due, lost>>
    BY <1>1 DEF LoopAdvance, timers, NoWrite, ledger, Hold, Keep, outside, PrepareFails,
        ProviderAnswers, ToolsFinish, ExpireApproval, driver, local, AcceptInput,
        CancelAborts, Beside
  <2>2. QED
    BY <2>1
<1>2. CASE RecoverEnds \/ LoopEnds \/ BudgetBlocks \/ SettleEnds \/ SettleOverspent
           \/ ToolSettleEnds
  BY <1>2 DEF RecoverEnds, Terminate, NoWrite, ledger, Hold, Keep, outside, LoopEnds,
      BudgetBlocks, SettleEnds, SettleOverspent, ToolSettleEnds
<1>3. CASE RecoverMaxSteps \/ RecoverStaleStep \/ LoopMaxSteps \/ PreflightFails
           \/ SettleFatal \/ CommitCompletes
  BY <1>3 DEF RecoverMaxSteps, Conclude, Write, Release, timers, Keep, outside,
      RecoverStaleStep, LoopMaxSteps, PreflightFails, SettleFatal, LoadTimers,
      CommitCompletes
<1>4. CASE RecoverReturns \/ LoopWaits \/ CommitRefused
  BY <1>4 DEF RecoverReturns, NoWrite, ledger, Release, timers, Keep, outside, LoopWaits,
      CommitRefused
<1>5. CASE RecoverBackoff
  BY <1>5 DEF RecoverBackoff, ResumeBackoff, Write, Drive, Snapshot, Hold, Keep, outside
<1>6. CASE RecoverDrives
  BY <1>6 DEF RecoverDrives, Drive, Snapshot, timers, NoWrite, ledger, Hold, Keep, outside
<1>7. CASE LoopHandoff
  BY <1>7 DEF LoopHandoff, Snapshot, timers, outside, NoWrite, ledger, Hold
<1>8. CASE LoopTools
  BY <1>8 DEF LoopTools, Write, Goto, local, timers, Hold, Keep, outside
<1>9. CASE PrepareAborted
  BY <1>9 DEF PrepareAborted, FinalizeAborted, Terminate, NoWrite, ledger, LoadTimers,
      Release, Keep, outside
<1>10. CASE RestartBeforeOpen
  BY <1>10 DEF RestartBeforeOpen, LoadTimers, NoWrite, ledger, Drive, Snapshot, Hold,
      Release, Keep, outside
<1>11. CASE BoundaryFails
  BY <1>11 DEF BoundaryFails, FinalizeAborted, Terminate, NoWrite, ledger, LoadTimers,
      Release, outside
<1>12. CASE OpenTurn
  BY <1>12 DEF OpenTurn, Write, LoadTimers, Goto, local, outside, Hold
<1>13. CASE SettleDeferred
  BY <1>13 DEF SettleDeferred, Defer, Write, Drive, Snapshot, LoadTimers, outside, Hold
<1>14. CASE SettleFinal
  BY <1>14 DEF SettleFinal, LoadTimers, Goto, local, NoWrite, ledger, Hold, Keep, outside
<1>15. CASE SettleTools
  BY <1>15 DEF SettleTools, Write, Drive, Snapshot, LoadTimers, Hold, Keep, outside
<1>16. CASE SettleRetry
  BY <1>16 DEF SettleRetry, LoadTimers, Conclude, Write, Release, Checkpoint, Keep, outside
<1>17. CASE CommitDeferred
  BY <1>17 DEF CommitDeferred, Defer, Write, Drive, Snapshot, LoadTimers, outside, Hold
<1>18. CASE ToolsFail
  BY <1>18 DEF ToolsFail, FinalizeAborted, Terminate, NoWrite, ledger, LoadTimers, Release,
      Conclude, Write, timers, outside
<1>19. CASE ToolsAborted
  BY <1>19 DEF ToolsAborted, FinalizeAborted, Terminate, NoWrite, ledger, LoadTimers,
      Release, Keep, outside
<1>20. CASE ToolsSettle
  BY <1>20 DEF ToolsSettle, Write, LoadTimers, Drive, Snapshot, Hold, Keep, outside
<1>21. CASE CleanupConfirmed
  BY <1>21 DEF CleanupConfirmed, timers, LoadTimers, outside, NoWrite, ledger, Hold
<1>22. CASE CleanupUnconfirmed
  BY <1>22 DEF CleanupUnconfirmed, NoWrite, ledger, Release, timers, outside
<1>23. CASE Seal
  BY <1>23 DEF Seal, Conclude, Write, Release, Keep, outside
<1>24. CASE ApprovalResumes
  BY <1>24 DEF ApprovalResumes, Write, Drive, Snapshot, timers, Hold, Keep, outside
<1>25. CASE Start
  BY <1>25 DEF Start, Terminate, NoWrite, ledger, Write, Drive, Snapshot, timers, Keep,
      outside
<1>26. CASE Recover
  BY <1>26 DEF Recover, Snapshot, LoadTimers, NoWrite, ledger, Keep, outside
<1>27. CASE ResolveApproval
  BY <1>27 DEF ResolveApproval, Terminate, NoWrite, ledger, Snapshot, LoadTimers, outside
<1>28. CASE ContinueResource
  BY <1>28 DEF ContinueResource, Terminate, NoWrite, ledger, Write, Drive, Snapshot,
      LoadTimers, Keep, outside
<1>29. CASE RequestCancellation
  BY <1>29 DEF RequestCancellation, driver, local, timers, Beside, ledger
<1>30. CASE CancelLocked
  BY <1>30 DEF CancelLocked, driver, local, ledger, timers, Terminate, NoWrite, Hold
<1>31. CASE DeadlinePasses
  BY <1>31 DEF DeadlinePasses, driver, local, timers, Beside, ledger
<1>32. CASE DeadlineFires
  BY <1>32 DEF DeadlineFires, local, Beside, ledger
<1>33. CASE DeadlineLocked
  BY <1>33 DEF DeadlineLocked, driver, local, ledger, timers, Terminate, NoWrite, Hold
<1>34. CASE BackoffElapses
  BY <1>34 DEF BackoffElapses, ledger, driver, local, timers, outside
<1>35. CASE RetryTimerFires
  BY <1>35 DEF RetryTimerFires, LoadTimers, NoWrite, ledger, driver, local, Terminate,
      ResumeBackoff, Write, Drive, Snapshot, Hold, Keep, outside
<1>36. CASE BeginDrain
  BY <1>36 DEF BeginDrain, ledger, driver, local
<1>37. CASE CheckpointActive
  BY <1>37 DEF CheckpointActive, LoadTimers, local, outside, Beside, ledger
<1>38. CASE Exit
  BY <1>38 DEF Exit, Stop, NoWrite, ledger, Release
<1>39. CASE Crash
  BY <1>39 DEF Crash, Stop, NoWrite, ledger, Release
<1>40. CASE Restart
  BY <1>40 DEF Restart, driver, local, timers, Beside, ledger
<1>41. CASE UNCHANGED vars
  BY <1>41 DEF vars, ledger, local, timers, outside, driver
<1> QED
  BY <1>1, <1>2, <1>3, <1>4, <1>5, <1>6, <1>7, <1>8, <1>9, <1>10, <1>11, <1>12, <1>13,
     <1>14, <1>15, <1>16, <1>17, <1>18, <1>19, <1>20, <1>21, <1>22, <1>23, <1>24, <1>25,
     <1>26, <1>27, <1>28, <1>29, <1>30, <1>31, <1>32, <1>33, <1>34, <1>35, <1>36, <1>37,
     <1>38, <1>39, <1>40, <1>41
     DEF Next, Drives, Environment

\* Status and driver: every settlement releases the driver.
LEMMA StatusStep ==
    StatusAt /\ [Next]_vars => StatusAt'
<1> SUFFICES ASSUME StatusAt, [Next]_vars
             PROVE  StatusAt'
  OBVIOUS
<1> USE DEF StatusAt, Terminal
<1>1. CASE LoopHandoff \/ ExpireApproval \/ AcceptInput \/ RequestCancellation
           \/ CancelAborts \/ DeadlinePasses \/ DeadlineFires \/ BackoffElapses
           \/ BeginDrain \/ CheckpointActive \/ Restart
  <2>1. UNCHANGED <<status, pc>>
    BY <1>1 DEF LoopHandoff, NoWrite, ledger, ExpireApproval, driver, AcceptInput,
        RequestCancellation, Beside, CancelAborts, DeadlinePasses, DeadlineFires,
        BackoffElapses, BeginDrain, CheckpointActive, Restart
  <2>2. QED
    BY <2>1
<1>2. CASE RecoverEnds \/ LoopEnds \/ BudgetBlocks \/ SettleEnds \/ SettleOverspent
           \/ ToolSettleEnds
  BY <1>2 DEF RecoverEnds, Terminate, NoWrite, ledger, LoopEnds, BudgetBlocks, SettleEnds,
      SettleOverspent, ToolSettleEnds
<1>3. CASE RecoverMaxSteps \/ RecoverStaleStep \/ LoopMaxSteps \/ PreflightFails
           \/ SettleFatal \/ CommitCompletes
  BY <1>3 DEF RecoverMaxSteps, Conclude, Write, Release, RecoverStaleStep, LoopMaxSteps,
      PreflightFails, SettleFatal, CommitCompletes
<1>4. CASE RecoverReturns \/ LoopWaits \/ CommitRefused
  BY <1>4 DEF RecoverReturns, NoWrite, ledger, Release, LoopWaits, CommitRefused
<1>5. CASE RecoverBackoff
  BY <1>5 DEF RecoverBackoff, Recoverable, Recovering, Cancelling, Coordinated, Suspended,
      ResumeBackoff, Write, Drive
<1>6. CASE RecoverDrives
  BY <1>6 DEF RecoverDrives, Drive, NoWrite, ledger
<1>7. CASE LoopTools
  BY <1>7 DEF LoopTools, Routing, Looping, AtInputBoundary, Write, Goto
<1>8. CASE LoopAdvance
  BY <1>8 DEF LoopAdvance, Routing, Looping, AtInputBoundary, NoWrite, ledger
<1>9. CASE PrepareAborted
  BY <1>9 DEF PrepareAborted, FinalizeAborted, Terminate, NoWrite, ledger, Release
<1>10. CASE RestartBeforeOpen
  BY <1>10 DEF RestartBeforeOpen, NoWrite, ledger, Drive, Release
<1>11. CASE PrepareFails
  BY <1>11 DEF PrepareFails, NoWrite, ledger
<1>12. CASE BoundaryFails
  BY <1>12 DEF BoundaryFails, FinalizeAborted, Terminate, NoWrite, ledger, Release
<1>13. CASE OpenTurn
  BY <1>13 DEF OpenTurn, Write, Goto
<1>14. CASE ProviderAnswers
  BY <1>14 DEF ProviderAnswers, NoWrite, ledger
<1>15. CASE SettleDeferred
  BY <1>15 DEF SettleDeferred, Settling, Ended, Defer, Write, Drive, Underway, Waiting
<1>16. CASE SettleFinal
  BY <1>16 DEF SettleFinal, Settling, Ended, Underway, Waiting, Goto, NoWrite, ledger
<1>17. CASE SettleTools
  BY <1>17 DEF SettleTools, Settling, Ended, Write, Drive, Underway, Waiting
<1>18. CASE SettleRetry
  BY <1>18 DEF SettleRetry, Conclude, Write, Release, Checkpoint
<1>19. CASE CommitDeferred
  BY <1>19 DEF CommitDeferred, Defer, Write, Drive
<1>20. CASE ToolsFinish
  BY <1>20 DEF ToolsFinish, NoWrite, ledger
<1>21. CASE ToolsFail
  BY <1>21 DEF ToolsFail, FinalizeAborted, Terminate, NoWrite, ledger, Release, Conclude,
      Write
<1>22. CASE ToolsAborted
  BY <1>22 DEF ToolsAborted, FinalizeAborted, Terminate, NoWrite, ledger, Release
<1>23. CASE ToolsSettle
  BY <1>23 DEF ToolsSettle, Write, ToolOutcome, Drive
<1>24. CASE CleanupConfirmed
  BY <1>24 DEF CleanupConfirmed, NoWrite, ledger
<1>25. CASE CleanupUnconfirmed
  BY <1>25 DEF CleanupUnconfirmed, NoWrite, ledger, Release
<1>26. CASE Seal
  BY <1>26 DEF Seal, Conclude, Write, Release
<1>27. CASE ApprovalResumes
  BY <1>27 DEF ApprovalResumes, Write, Drive
<1>28. CASE Start
  BY <1>28 DEF Start, Terminate, NoWrite, ledger, Write, Drive
<1>29. CASE Recover
  BY <1>29 DEF Recover, Schedulable, Underway, Waiting, NoWrite, ledger
<1>30. CASE ResolveApproval
  BY <1>30 DEF ResolveApproval, Terminate, NoWrite, ledger
<1>31. CASE ContinueResource
  BY <1>31 DEF ContinueResource, Terminate, NoWrite, ledger, Write, Drive
<1>32. CASE CancelLocked
  BY <1>32 DEF CancelLocked, driver, ledger, Terminate, NoWrite
<1>33. CASE DeadlineLocked
  BY <1>33 DEF DeadlineLocked, driver, ledger, Terminate, NoWrite
<1>34. CASE RetryTimerFires
  BY <1>34 DEF RetryTimerFires, NoWrite, ledger, driver, Terminate, ResumeBackoff, Write,
      Drive
<1>35. CASE Exit
  BY <1>35 DEF Exit, Stop, NoWrite, ledger, Release
<1>36. CASE Crash
  BY <1>36 DEF Crash, Stop, NoWrite, ledger, Release
<1>37. CASE UNCHANGED vars
  BY <1>37 DEF vars, ledger, local, timers, outside, driver
<1> QED
  BY <1>1, <1>2, <1>3, <1>4, <1>5, <1>6, <1>7, <1>8, <1>9, <1>10, <1>11, <1>12, <1>13,
     <1>14, <1>15, <1>16, <1>17, <1>18, <1>19, <1>20, <1>21, <1>22, <1>23, <1>24, <1>25,
     <1>26, <1>27, <1>28, <1>29, <1>30, <1>31, <1>32, <1>33, <1>34, <1>35, <1>36, <1>37
     DEF Next, Drives, Environment

\* Boundaries: a settlement that changes the status writes the boundary with it.
LEMMA BoundaryStep ==
    Valued /\ StatusAt /\ BoundaryAt /\ [Next]_vars => BoundaryAt'
<1> SUFFICES ASSUME StatusAt, BoundaryAt, verdict \notin Waiting \cup {"PENDING"},
                 [Next]_vars
             PROVE  BoundaryAt'
  BY DEF Valued, ValuesOK, Waiting
<1> USE DEF StatusAt, BoundaryAt, Terminal, AwaitsTools, Waiting
<1>1. CASE LoopHandoff \/ ExpireApproval \/ AcceptInput \/ RequestCancellation
           \/ CancelAborts \/ DeadlinePasses \/ DeadlineFires \/ BackoffElapses
           \/ BeginDrain \/ CheckpointActive \/ Restart
  <2>1. UNCHANGED <<status, cont, pc, turn, mode>>
    BY <1>1 DEF LoopHandoff, NoWrite, ledger, ExpireApproval, driver, local, AcceptInput,
        RequestCancellation, Beside, CancelAborts, DeadlinePasses, DeadlineFires,
        BackoffElapses, BeginDrain, CheckpointActive, Restart
  <2>2. QED
    BY <2>1
<1>2. CASE RecoverEnds \/ LoopEnds \/ BudgetBlocks \/ SettleEnds \/ SettleOverspent
           \/ ToolSettleEnds
  BY <1>2 DEF RecoverEnds, Terminate, NoWrite, ledger, LoopEnds, BudgetBlocks, SettleEnds,
      SettleOverspent, ToolSettleEnds
<1>3. CASE RecoverMaxSteps \/ RecoverStaleStep \/ LoopMaxSteps \/ PreflightFails
           \/ SettleFatal \/ CommitCompletes
  BY <1>3 DEF RecoverMaxSteps, Conclude, Write, Backoff, NoCont, Release, RecoverStaleStep,
      LoopMaxSteps, PreflightFails, SettleFatal, CommitCompletes
<1>4. CASE RecoverReturns \/ LoopWaits \/ CommitRefused
  BY <1>4 DEF RecoverReturns, Backoff, NoWrite, ledger, Release, NoCont, LoopWaits,
      CommitRefused
<1>5. CASE RecoverBackoff
  BY <1>5 DEF RecoverBackoff, Backoff, ResumeBackoff, Write, Drive, NoCont
<1>6. CASE RecoverDrives
  BY <1>6 DEF RecoverDrives, Backoff, Drive, NoCont, NoWrite, ledger
<1>7. CASE LoopTools
  BY <1>7 DEF LoopTools, Write, Backoff, Goto, local
<1>8. CASE LoopAdvance
  BY <1>8 DEF LoopAdvance, NoWrite, ledger
<1>9. CASE PrepareAborted
  BY <1>9 DEF PrepareAborted, FinalizeAborted, Terminate, NoWrite, ledger, Backoff, Release,
      NoCont
<1>10. CASE RestartBeforeOpen
  BY <1>10 DEF RestartBeforeOpen, Backoff, NoWrite, ledger, Drive, NoCont, Release
<1>11. CASE PrepareFails
  BY <1>11 DEF PrepareFails, NoWrite, ledger
<1>12. CASE BoundaryFails
  BY <1>12 DEF BoundaryFails, FinalizeAborted, Terminate, NoWrite, ledger, Backoff, Release,
      NoCont
<1>13. CASE OpenTurn
  BY <1>13 DEF OpenTurn, Write, Backoff, NoCont, Goto, local
<1>14. CASE ProviderAnswers
  BY <1>14 DEF ProviderAnswers, NoWrite, ledger
<1>15. CASE SettleDeferred
  BY <1>15 DEF SettleDeferred, Settling, Ended, Defer, Write, Backoff, NoCont, Drive,
      Underway
<1>16. CASE SettleFinal
  BY <1>16 DEF SettleFinal, Backoff, Goto, local, NoWrite, ledger
<1>17. CASE SettleTools
  BY <1>17 DEF SettleTools, Settling, Ended, Write, Backoff, NoCont, Drive, Underway
<1>18. CASE SettleRetry
  BY <1>18 DEF SettleRetry, SettlingRetry, Settling, Ended, Underway, Backoff, Conclude,
      Write, NoCont, Release, Attempt, Checkpoint
<1>19. CASE CommitDeferred
  BY <1>19 DEF CommitDeferred, Defer, Write, Backoff, NoCont, Drive
<1>20. CASE ToolsFinish
  BY <1>20 DEF ToolsFinish, NoWrite, ledger
<1>21. CASE ToolsFail
  BY <1>21 DEF ToolsFail, FinalizeAborted, Terminate, NoWrite, ledger, Backoff, Release,
      NoCont, Conclude, Write
<1>22. CASE ToolsAborted
  BY <1>22 DEF ToolsAborted, FinalizeAborted, Terminate, NoWrite, ledger, Backoff, Release,
      NoCont
<1>23. CASE ToolsSettle
  BY <1>23 DEF ToolsSettle, Write, Backoff, ToolOutcome, Drive, NoCont
<1>24. CASE CleanupConfirmed
  BY <1>24 DEF CleanupConfirmed, Backoff, NoWrite, ledger
<1>25. CASE CleanupUnconfirmed
  BY <1>25 DEF CleanupUnconfirmed, NoWrite, ledger, Release, NoCont
<1>26. CASE Seal
  BY <1>26 DEF Seal, Conclude, Write, Backoff, NoCont, Release
<1>27. CASE ApprovalResumes
  BY <1>27 DEF ApprovalResumes, Write, Backoff, Drive, NoCont
<1>28. CASE Start
  BY <1>28 DEF Start, Terminate, NoWrite, ledger, Write, Backoff, NoCont, Drive
<1>29. CASE Recover
  BY <1>29 DEF Recover, Backoff, NoWrite, ledger
<1>30. CASE ResolveApproval
  BY <1>30 DEF ResolveApproval, Terminate, NoWrite, ledger, Backoff
<1>31. CASE ContinueResource
  BY <1>31 DEF ContinueResource, Terminate, NoWrite, ledger, Write, Backoff, Drive, NoCont
<1>32. CASE CancelLocked
  BY <1>32 DEF CancelLocked, driver, local, ledger, Terminate, NoWrite
<1>33. CASE DeadlineLocked
  BY <1>33 DEF DeadlineLocked, driver, local, ledger, Terminate, NoWrite
<1>34. CASE RetryTimerFires
  BY <1>34 DEF RetryTimerFires, Backoff, NoWrite, ledger, driver, local, Terminate,
      ResumeBackoff, Write, Drive, NoCont
<1>35. CASE Exit
  BY <1>35 DEF Exit, Stop, NoWrite, ledger, Release, NoCont
<1>36. CASE Crash
  BY <1>36 DEF Crash, Stop, NoWrite, ledger, Release, NoCont
<1>37. CASE UNCHANGED vars
  BY <1>37 DEF vars, ledger, local, timers, outside, driver
<1> QED
  BY <1>1, <1>2, <1>3, <1>4, <1>5, <1>6, <1>7, <1>8, <1>9, <1>10, <1>11, <1>12, <1>13,
     <1>14, <1>15, <1>16, <1>17, <1>18, <1>19, <1>20, <1>21, <1>22, <1>23, <1>24, <1>25,
     <1>26, <1>27, <1>28, <1>29, <1>30, <1>31, <1>32, <1>33, <1>34, <1>35, <1>36, <1>37
     DEF Next, Drives, Environment

\* Open Steps: only OpenTurn opens one, from a boundary it consumes.
LEMMA StepStep ==
    StatusAt /\ BoundaryAt /\ StepAt /\ [Next]_vars => StepAt'
<1> SUFFICES ASSUME StatusAt, BoundaryAt, StepAt, [Next]_vars
             PROVE  StepAt'
  OBVIOUS
<1> USE DEF StatusAt, BoundaryAt, StepAt, AwaitsTools, Waiting, Backoff
<1>1. CASE LoopHandoff \/ ExpireApproval \/ AcceptInput \/ RequestCancellation
           \/ CancelAborts \/ DeadlinePasses \/ DeadlineFires \/ BackoffElapses
           \/ BeginDrain \/ CheckpointActive \/ Restart
  <2>1. UNCHANGED <<status, open, cont, pc>>
    BY <1>1 DEF LoopHandoff, NoWrite, ledger, ExpireApproval, driver, AcceptInput,
        RequestCancellation, Beside, CancelAborts, DeadlinePasses, DeadlineFires,
        BackoffElapses, BeginDrain, CheckpointActive, Restart
  <2>2. QED
    BY <2>1
<1>2. CASE RecoverEnds \/ LoopEnds \/ BudgetBlocks \/ SettleEnds \/ SettleOverspent
           \/ ToolSettleEnds
  BY <1>2 DEF RecoverEnds, Terminate, NoWrite, ledger, LoopEnds, BudgetBlocks, SettleEnds,
      SettleOverspent, ToolSettleEnds
<1>3. CASE RecoverMaxSteps \/ RecoverStaleStep \/ LoopMaxSteps \/ PreflightFails
           \/ SettleFatal \/ CommitCompletes
  BY <1>3 DEF RecoverMaxSteps, Conclude, Write, NoCont, Release, RecoverStaleStep,
      LoopMaxSteps, PreflightFails, SettleFatal, CommitCompletes
<1>4. CASE RecoverReturns \/ LoopWaits \/ CommitRefused
  BY <1>4 DEF RecoverReturns, NoWrite, ledger, Release, NoCont, LoopWaits, CommitRefused
<1>5. CASE RecoverBackoff
  BY <1>5 DEF RecoverBackoff, ResumeBackoff, Write, Drive, NoCont
<1>6. CASE RecoverDrives
  BY <1>6 DEF RecoverDrives, Drive, NoCont, NoWrite, ledger
<1>7. CASE LoopTools
  BY <1>7 DEF LoopTools, Routing, Looping, AtInputBoundary, Write, Goto
<1>8. CASE LoopAdvance
  BY <1>8 DEF LoopAdvance, Routing, Looping, AtInputBoundary, NoWrite, ledger
<1>9. CASE PrepareAborted
  BY <1>9 DEF PrepareAborted, FinalizeAborted, Terminate, NoWrite, ledger, Release, NoCont
<1>10. CASE RestartBeforeOpen
  BY <1>10 DEF RestartBeforeOpen, NoWrite, ledger, Drive, NoCont, Release
<1>11. CASE PrepareFails
  BY <1>11 DEF PrepareFails, NoWrite, ledger
<1>12. CASE BoundaryFails
  BY <1>12 DEF BoundaryFails, FinalizeAborted, Terminate, NoWrite, ledger, Release, NoCont
<1>13. CASE OpenTurn
  BY <1>13 DEF OpenTurn, Write, NoCont, Underway, Goto
<1>14. CASE ProviderAnswers
  BY <1>14 DEF ProviderAnswers, NoWrite, ledger
<1>15. CASE SettleDeferred
  BY <1>15 DEF SettleDeferred, Defer, Write, NoCont, Drive
<1>16. CASE SettleFinal
  BY <1>16 DEF SettleFinal, Goto, NoWrite, ledger
<1>17. CASE SettleTools
  BY <1>17 DEF SettleTools, Write, NoCont, Drive
<1>18. CASE SettleRetry
  BY <1>18 DEF SettleRetry, Conclude, Write, NoCont, Release, Checkpoint
<1>19. CASE CommitDeferred
  BY <1>19 DEF CommitDeferred, Defer, Write, NoCont, Drive
<1>20. CASE ToolsFinish
  BY <1>20 DEF ToolsFinish, NoWrite, ledger
<1>21. CASE ToolsFail
  BY <1>21 DEF ToolsFail, FinalizeAborted, Terminate, NoWrite, ledger, Release, NoCont,
      Conclude, Write
<1>22. CASE ToolsAborted
  BY <1>22 DEF ToolsAborted, FinalizeAborted, Terminate, NoWrite, ledger, Release, NoCont
<1>23. CASE ToolsSettle
  BY <1>23 DEF ToolsSettle, Write, ToolOutcome, Drive, NoCont
<1>24. CASE CleanupConfirmed
  BY <1>24 DEF CleanupConfirmed, NoWrite, ledger
<1>25. CASE CleanupUnconfirmed
  BY <1>25 DEF CleanupUnconfirmed, NoWrite, ledger, Release, NoCont
<1>26. CASE Seal
  BY <1>26 DEF Seal, Conclude, Write, NoCont, Release
<1>27. CASE ApprovalResumes
  BY <1>27 DEF ApprovalResumes, Write, Drive, NoCont
<1>28. CASE Start
  BY <1>28 DEF Start, Terminate, NoWrite, ledger, Write, NoCont, Drive
<1>29. CASE Recover
  BY <1>29 DEF Recover, NoWrite, ledger
<1>30. CASE ResolveApproval
  BY <1>30 DEF ResolveApproval, Terminate, NoWrite, ledger
<1>31. CASE ContinueResource
  BY <1>31 DEF ContinueResource, Terminate, NoWrite, ledger, Write, Drive, NoCont
<1>32. CASE CancelLocked
  BY <1>32 DEF CancelLocked, driver, ledger, Terminate, NoWrite
<1>33. CASE DeadlineLocked
  BY <1>33 DEF DeadlineLocked, driver, ledger, Terminate, NoWrite
<1>34. CASE RetryTimerFires
  BY <1>34 DEF RetryTimerFires, NoWrite, ledger, driver, Terminate, ResumeBackoff, Write,
      Drive, NoCont
<1>35. CASE Exit
  BY <1>35 DEF Exit, Stop, NoWrite, ledger, Release, NoCont
<1>36. CASE Crash
  BY <1>36 DEF Crash, Stop, NoWrite, ledger, Release, NoCont
<1>37. CASE UNCHANGED vars
  BY <1>37 DEF vars, ledger, local, timers, outside, driver
<1> QED
  BY <1>1, <1>2, <1>3, <1>4, <1>5, <1>6, <1>7, <1>8, <1>9, <1>10, <1>11, <1>12, <1>13,
     <1>14, <1>15, <1>16, <1>17, <1>18, <1>19, <1>20, <1>21, <1>22, <1>23, <1>24, <1>25,
     <1>26, <1>27, <1>28, <1>29, <1>30, <1>31, <1>32, <1>33, <1>34, <1>35, <1>36, <1>37
     DEF Next, Drives, Environment

\* Lost Steps: no recovery drives on over one.
LEMMA LostStep ==
    Valued /\ StatusAt /\ BoundaryAt /\ StepAt /\ LostAt /\ [Next]_vars => LostAt'
<1> SUFFICES ASSUME StatusAt, BoundaryAt, StepAt, LostAt,
                 pc = "seal" => verdict \in Terminal, [Next]_vars
             PROVE  LostAt'
  BY DEF Valued, VerdictKnown, ValuesOK, Terminal
<1> USE DEF StatusAt, BoundaryAt, StepAt, LostAt, Terminal, AwaitsTools, Waiting, Backoff
<1>1. CASE LoopHandoff \/ ExpireApproval \/ AcceptInput \/ RequestCancellation
           \/ CancelAborts \/ DeadlinePasses \/ DeadlineFires \/ BackoffElapses
           \/ BeginDrain \/ CheckpointActive \/ Restart
  <2>1. UNCHANGED <<status, open, pc, lost>>
    BY <1>1 DEF LoopHandoff, NoWrite, ledger, ExpireApproval, driver, AcceptInput,
        RequestCancellation, Beside, CancelAborts, DeadlinePasses, DeadlineFires,
        BackoffElapses, BeginDrain, CheckpointActive, Restart
  <2>2. QED
    BY <2>1
<1>2. CASE RecoverEnds \/ LoopEnds \/ BudgetBlocks \/ SettleEnds \/ SettleOverspent
           \/ ToolSettleEnds
  BY <1>2 DEF RecoverEnds, Terminate, NoWrite, ledger, LoopEnds, BudgetBlocks, SettleEnds,
      SettleOverspent, ToolSettleEnds
<1>3. CASE RecoverMaxSteps \/ RecoverStaleStep \/ LoopMaxSteps \/ PreflightFails
           \/ SettleFatal \/ CommitCompletes
  BY <1>3 DEF RecoverMaxSteps, Conclude, Write, Release, RecoverStaleStep, LoopMaxSteps,
      PreflightFails, SettleFatal, CommitCompletes
<1>4. CASE RecoverReturns \/ LoopWaits \/ CommitRefused
  BY <1>4 DEF RecoverReturns, NoWrite, ledger, Release, LoopWaits, CommitRefused
<1>5. CASE RecoverBackoff
  BY <1>5 DEF RecoverBackoff, ResumeBackoff, Write, Drive
<1>6. CASE RecoverDrives
  BY <1>6 DEF RecoverDrives, Drive, NoWrite, ledger
<1>7. CASE LoopTools
  BY <1>7 DEF LoopTools, Routing, Looping, AtInputBoundary, Write, Goto
<1>8. CASE LoopAdvance
  BY <1>8 DEF LoopAdvance, Routing, Looping, AtInputBoundary, NoWrite, ledger
<1>9. CASE PrepareAborted
  BY <1>9 DEF PrepareAborted, FinalizeAborted, Terminate, NoWrite, ledger, Release
<1>10. CASE RestartBeforeOpen
  BY <1>10 DEF RestartBeforeOpen, NoWrite, ledger, Drive, Release
<1>11. CASE PrepareFails
  BY <1>11 DEF PrepareFails, NoWrite, ledger
<1>12. CASE BoundaryFails
  BY <1>12 DEF BoundaryFails, FinalizeAborted, Terminate, NoWrite, ledger, Release
<1>13. CASE OpenTurn
  BY <1>13 DEF OpenTurn, Write, Goto
<1>14. CASE ProviderAnswers
  BY <1>14 DEF ProviderAnswers, NoWrite, ledger
<1>15. CASE SettleDeferred
  BY <1>15 DEF SettleDeferred, Settling, Ended, Defer, Write, Drive, Underway
<1>16. CASE SettleFinal
  BY <1>16 DEF SettleFinal, Settling, Ended, Underway, Goto, NoWrite, ledger
<1>17. CASE SettleTools
  BY <1>17 DEF SettleTools, Settling, Ended, Write, Drive, Underway
<1>18. CASE SettleRetry
  BY <1>18 DEF SettleRetry, SettlingRetry, Settling, Ended, Underway, Conclude, Write,
      Release, Attempt, Checkpoint
<1>19. CASE CommitDeferred
  BY <1>19 DEF CommitDeferred, Defer, Write, Drive
<1>20. CASE ToolsFinish
  BY <1>20 DEF ToolsFinish, NoWrite, ledger
<1>21. CASE ToolsFail
  BY <1>21 DEF ToolsFail, FinalizeAborted, Terminate, NoWrite, ledger, Release, Conclude,
      Write
<1>22. CASE ToolsAborted
  BY <1>22 DEF ToolsAborted, FinalizeAborted, Terminate, NoWrite, ledger, Release
<1>23. CASE ToolsSettle
  BY <1>23 DEF ToolsSettle, Write, ToolOutcome, Drive
<1>24. CASE CleanupConfirmed
  BY <1>24 DEF CleanupConfirmed, NoWrite, ledger
<1>25. CASE CleanupUnconfirmed
  BY <1>25 DEF CleanupUnconfirmed, NoWrite, ledger, Release
<1>26. CASE Seal
  BY <1>26 DEF Seal, Conclude, Write, Release
<1>27. CASE ApprovalResumes
  BY <1>27 DEF ApprovalResumes, Write, Drive
<1>28. CASE Start
  BY <1>28 DEF Start, Terminate, NoWrite, ledger, Write, Drive
<1>29. CASE Recover
  BY <1>29 DEF Recover, NoWrite, ledger
<1>30. CASE ResolveApproval
  BY <1>30 DEF ResolveApproval, Terminate, NoWrite, ledger
<1>31. CASE ContinueResource
  BY <1>31 DEF ContinueResource, Terminate, NoWrite, ledger, Write, Drive
<1>32. CASE CancelLocked
  BY <1>32 DEF CancelLocked, driver, ledger, Terminate, NoWrite
<1>33. CASE DeadlineLocked
  BY <1>33 DEF DeadlineLocked, driver, ledger, Terminate, NoWrite
<1>34. CASE RetryTimerFires
  <2>1. CASE NoWrite /\ UNCHANGED driver
    BY <2>1 DEF NoWrite, ledger, driver, local
  <2>2. CASE pc = "idle" /\ status = "RUNNING" /\ cont.type \in Backoff
    BY <1>34, <2>2 DEF RetryTimerFires, Terminate, NoWrite, ledger, ResumeBackoff, Write, Drive
  <2>3. QED
    BY <1>34, <2>1, <2>2 DEF RetryTimerFires
<1>35. CASE Exit
  BY <1>35 DEF Exit, Stop, NoWrite, ledger, Release
<1>36. CASE Crash
  BY <1>36 DEF Crash, Stop, NoWrite, ledger, Release
<1>37. CASE UNCHANGED vars
  BY <1>37 DEF vars, ledger, local, timers, outside, driver
<1> QED
  BY <1>1, <1>2, <1>3, <1>4, <1>5, <1>6, <1>7, <1>8, <1>9, <1>10, <1>11, <1>12, <1>13,
     <1>14, <1>15, <1>16, <1>17, <1>18, <1>19, <1>20, <1>21, <1>22, <1>23, <1>24, <1>25,
     <1>26, <1>27, <1>28, <1>29, <1>30, <1>31, <1>32, <1>33, <1>34, <1>35, <1>36, <1>37
     DEF Next, Drives, Environment

\* Counters: an attempt is settled once, and only one that was affordable is open.
LEMMA CountsStep ==
    Counted /\ [Next]_vars => CountsOK'
<1> SUFFICES ASSUME CountsOK, Budgeted, [Next]_vars
             PROVE  CountsOK'
  BY DEF Counted
<1> USE StepsAssumption, InputsAssumption, FaultsAssumption, DrainsAssumption
        DEF CountsOK, Budgeted
<1>1. CASE RecoverEnds \/ LoopEnds \/ LoopAdvance \/ PrepareFails \/ BudgetBlocks
           \/ ProviderAnswers \/ SettleEnds \/ SettleOverspent \/ SettleFinal \/ ToolsFinish
           \/ ToolSettleEnds \/ CleanupConfirmed \/ ExpireApproval \/ RequestCancellation
           \/ CancelAborts \/ CancelLocked \/ DeadlinePasses \/ DeadlineFires
           \/ DeadlineLocked \/ BackoffElapses \/ CheckpointActive \/ Restart
  <2>1. UNCHANGED <<steps, accepted, seen, faults, drains>>
    BY <1>1 DEF RecoverEnds, Terminate, NoWrite, ledger, Keep, outside, LoopEnds,
        LoopAdvance, PrepareFails, BudgetBlocks, ProviderAnswers, SettleEnds,
        SettleOverspent, SettleFinal, Goto, local, ToolsFinish, ToolSettleEnds,
        CleanupConfirmed, ExpireApproval, driver, RequestCancellation, Beside, CancelAborts,
        CancelLocked, DeadlinePasses, DeadlineFires, DeadlineLocked, BackoffElapses,
        CheckpointActive, Restart
  <2>2. QED
    BY <2>1
<1>2. CASE RecoverMaxSteps \/ RecoverStaleStep \/ LoopMaxSteps \/ PreflightFails
           \/ SettleFatal \/ CommitCompletes
  BY <1>2 DEF RecoverMaxSteps, Conclude, Write, Settled, Release, Keep, outside,
      RecoverStaleStep, LoopMaxSteps, PreflightFails, SettleFatal, CommitCompletes
<1>3. CASE RecoverReturns \/ LoopWaits \/ CommitRefused
  BY <1>3 DEF RecoverReturns, NoWrite, ledger, Release, Keep, outside, LoopWaits,
      CommitRefused
<1>4. CASE RecoverBackoff
  BY <1>4 DEF RecoverBackoff, ResumeBackoff, Write, Drive, Snapshot, Keep, outside
<1>5. CASE RecoverDrives
  BY <1>5 DEF RecoverDrives, Drive, Snapshot, NoWrite, ledger, Keep, outside
<1>6. CASE LoopHandoff
  BY <1>6 DEF LoopHandoff, Snapshot, outside, NoWrite, ledger
<1>7. CASE LoopTools
  BY <1>7 DEF LoopTools, Write, Goto, local, Keep, outside
<1>8. CASE PrepareAborted
  BY <1>8 DEF PrepareAborted, FinalizeAborted, Terminate, NoWrite, ledger, Release, Keep,
      outside
<1>9. CASE RestartBeforeOpen
  BY <1>9 DEF RestartBeforeOpen, NoWrite, ledger, Drive, Snapshot, Release, Keep, outside
<1>10. CASE BoundaryFails
  BY <1>10 DEF BoundaryFails, Fault, FinalizeAborted, Ended, Terminate, NoWrite, ledger,
      Release, outside
<1>11. CASE OpenTurn
  BY <1>11 DEF OpenTurn, Write, Goto, local, outside
<1>12. CASE SettleDeferred
  BY <1>12 DEF SettleDeferred, Defer, Write, Settled, Drive, Snapshot, outside
<1>13. CASE SettleTools
  BY <1>13 DEF SettleTools, Write, Settled, Drive, Snapshot, Keep, outside
<1>14. CASE SettleRetry
  <2>1. Settled \in 0..MaxSteps
    BY DEF Settled
  <2>2. steps' = Settled /\ seen' = 0
    BY <1>14 DEF SettleRetry, Conclude, Checkpoint, Write, Release
  <2>3. QED
    BY <1>14, <2>1, <2>2 DEF SettleRetry, Keep, outside
<1>15. CASE CommitDeferred
  BY <1>15 DEF CommitDeferred, Defer, Write, Settled, Drive, Snapshot, outside
<1>16. CASE ToolsFail
  BY <1>16 DEF ToolsFail, FinalizeAborted, Ended, Terminate, NoWrite, ledger, Release,
      Conclude, Write, Settled, Fault, outside
<1>17. CASE ToolsAborted
  BY <1>17 DEF ToolsAborted, FinalizeAborted, Terminate, NoWrite, ledger, Release, Keep,
      outside
<1>18. CASE ToolsSettle
  BY <1>18 DEF ToolsSettle, Write, Drive, Snapshot, Keep, outside
<1>19. CASE CleanupUnconfirmed
  BY <1>19 DEF CleanupUnconfirmed, Fault, NoWrite, ledger, Release, outside
<1>20. CASE Seal
  BY <1>20 DEF Seal, Conclude, Write, Settled, Release, Keep, outside
<1>21. CASE ApprovalResumes
  BY <1>21 DEF ApprovalResumes, Write, Drive, Snapshot, Keep, outside
<1>22. CASE Start
  BY <1>22 DEF Start, Terminate, NoWrite, ledger, Write, Drive, Snapshot, Keep, outside
<1>23. CASE Recover
  BY <1>23 DEF Recover, Snapshot, NoWrite, ledger, Keep, outside
<1>24. CASE ResolveApproval
  BY <1>24 DEF ResolveApproval, Terminate, NoWrite, ledger, Snapshot, outside
<1>25. CASE ContinueResource
  BY <1>25 DEF ContinueResource, Terminate, NoWrite, ledger, Write, Drive, Snapshot, Keep,
      outside
<1>26. CASE AcceptInput
  BY <1>26 DEF AcceptInput, ledger, driver, local
<1>27. CASE RetryTimerFires
  BY <1>27 DEF RetryTimerFires, NoWrite, ledger, driver, local, Terminate, ResumeBackoff,
      Write, Drive, Snapshot, Keep, outside
<1>28. CASE BeginDrain
  BY <1>28 DEF BeginDrain, ledger, driver, local
<1>29. CASE Exit
  BY <1>29 DEF Exit, Stop, NoWrite, ledger, Release
<1>30. CASE Crash
  BY <1>30 DEF Crash, Fault, Stop, NoWrite, ledger, Release
<1>31. CASE UNCHANGED vars
  BY <1>31 DEF vars, ledger, local, timers, outside, driver
<1> QED
  BY <1>1, <1>2, <1>3, <1>4, <1>5, <1>6, <1>7, <1>8, <1>9, <1>10, <1>11, <1>12, <1>13,
     <1>14, <1>15, <1>16, <1>17, <1>18, <1>19, <1>20, <1>21, <1>22, <1>23, <1>24, <1>25,
     <1>26, <1>27, <1>28, <1>29, <1>30, <1>31
     DEF Next, Drives, Environment

\* The step budget: every way to a new Step or a wait passes the check.
LEMMA BudgetedStep ==
    Valued /\ StatusAt /\ Counted /\ [Next]_vars => Budgeted'
<1> SUFFICES ASSUME StatusAt, CountsOK, Budgeted, verdict \notin Waiting, [Next]_vars
             PROVE  Budgeted'
  BY DEF Counted, Valued, ValuesOK, Waiting
<1> USE StepsAssumption DEF CountsOK, Budgeted, StatusAt, Waiting
<1>1. CASE LoopHandoff \/ ExpireApproval \/ AcceptInput \/ RequestCancellation
           \/ CancelAborts \/ DeadlinePasses \/ DeadlineFires \/ BackoffElapses
           \/ BeginDrain \/ CheckpointActive \/ Restart
  <2>1. UNCHANGED <<status, open, steps, pc>>
    BY <1>1 DEF LoopHandoff, NoWrite, ledger, ExpireApproval, driver, AcceptInput,
        RequestCancellation, Beside, CancelAborts, DeadlinePasses, DeadlineFires,
        BackoffElapses, BeginDrain, CheckpointActive, Restart
  <2>2. QED
    BY <2>1
<1>2. CASE RecoverEnds \/ LoopEnds \/ BudgetBlocks \/ SettleEnds \/ SettleOverspent
           \/ ToolSettleEnds
  BY <1>2 DEF RecoverEnds, Terminate, NoWrite, ledger, LoopEnds, BudgetBlocks, SettleEnds,
      SettleOverspent, ToolSettleEnds
<1>3. CASE RecoverMaxSteps \/ RecoverStaleStep \/ LoopMaxSteps \/ PreflightFails
           \/ SettleFatal \/ CommitCompletes
  BY <1>3 DEF RecoverMaxSteps, Conclude, Write, Settled, Release, RecoverStaleStep,
      LoopMaxSteps, PreflightFails, SettleFatal, CommitCompletes
<1>4. CASE RecoverReturns \/ LoopWaits \/ CommitRefused
  BY <1>4 DEF RecoverReturns, NoWrite, ledger, Release, LoopWaits, CommitRefused
<1>5. CASE RecoverBackoff
  BY <1>5 DEF RecoverBackoff, ResumeBackoff, Write, Drive
<1>6. CASE RecoverDrives
  BY <1>6 DEF RecoverDrives, Drive, NoWrite, ledger
<1>7. CASE LoopTools
  BY <1>7 DEF LoopTools, Write, Goto
<1>8. CASE LoopAdvance
  BY <1>8 DEF LoopAdvance, NoWrite, ledger
<1>9. CASE PrepareAborted
  BY <1>9 DEF PrepareAborted, FinalizeAborted, Terminate, NoWrite, ledger, Release
<1>10. CASE RestartBeforeOpen
  BY <1>10 DEF RestartBeforeOpen, NoWrite, ledger, Drive, Release
<1>11. CASE PrepareFails
  BY <1>11 DEF PrepareFails, NoWrite, ledger
<1>12. CASE BoundaryFails
  BY <1>12 DEF BoundaryFails, FinalizeAborted, Terminate, NoWrite, ledger, Release
<1>13. CASE OpenTurn
  BY <1>13 DEF OpenTurn, Write, Goto
<1>14. CASE ProviderAnswers
  BY <1>14 DEF ProviderAnswers, NoWrite, ledger
<1>15. CASE SettleDeferred
  BY <1>15 DEF SettleDeferred, Settling, Ended, Defer, Write, Settled, Drive, Underway
<1>16. CASE SettleFinal
  BY <1>16 DEF SettleFinal, Goto, NoWrite, ledger
<1>17. CASE SettleTools
  BY <1>17 DEF SettleTools, Settling, Ended, Write, Settled, Drive, Underway
<1>18. CASE SettleRetry
  BY <1>18 DEF SettleRetry, Settled, Conclude, Write, Release, Checkpoint
<1>19. CASE CommitDeferred
  BY <1>19 DEF CommitDeferred, Defer, Write, Settled, Drive
<1>20. CASE ToolsFinish
  BY <1>20 DEF ToolsFinish, NoWrite, ledger
<1>21. CASE ToolsFail
  BY <1>21 DEF ToolsFail, FinalizeAborted, Terminate, NoWrite, ledger, Release, Conclude,
      Write, Settled
<1>22. CASE ToolsAborted
  BY <1>22 DEF ToolsAborted, FinalizeAborted, Terminate, NoWrite, ledger, Release
<1>23. CASE ToolsSettle
  BY <1>23 DEF ToolsSettle, Write, ToolOutcome, Drive
<1>24. CASE CleanupConfirmed
  BY <1>24 DEF CleanupConfirmed, NoWrite, ledger
<1>25. CASE CleanupUnconfirmed
  BY <1>25 DEF CleanupUnconfirmed, NoWrite, ledger, Release
<1>26. CASE Seal
  BY <1>26 DEF Seal, Conclude, Write, Settled, Release
<1>27. CASE ApprovalResumes
  BY <1>27 DEF ApprovalResumes, Write, Drive
<1>28. CASE Start
  BY <1>28 DEF Start, Terminate, NoWrite, ledger, Write, Drive
<1>29. CASE Recover
  BY <1>29 DEF Recover, NoWrite, ledger
<1>30. CASE ResolveApproval
  BY <1>30 DEF ResolveApproval, Terminate, NoWrite, ledger
<1>31. CASE ContinueResource
  BY <1>31 DEF ContinueResource, Terminate, NoWrite, ledger, Write, Drive
<1>32. CASE CancelLocked
  BY <1>32 DEF CancelLocked, driver, ledger, Terminate, NoWrite
<1>33. CASE DeadlineLocked
  BY <1>33 DEF DeadlineLocked, driver, ledger, Terminate, NoWrite
<1>34. CASE RetryTimerFires
  BY <1>34 DEF RetryTimerFires, NoWrite, ledger, driver, Terminate, ResumeBackoff, Write,
      Drive
<1>35. CASE Exit
  BY <1>35 DEF Exit, Stop, NoWrite, ledger, Release
<1>36. CASE Crash
  BY <1>36 DEF Crash, Stop, NoWrite, ledger, Release
<1>37. CASE UNCHANGED vars
  BY <1>37 DEF vars, ledger, local, timers, outside, driver
<1> QED
  BY <1>1, <1>2, <1>3, <1>4, <1>5, <1>6, <1>7, <1>8, <1>9, <1>10, <1>11, <1>12, <1>13,
     <1>14, <1>15, <1>16, <1>17, <1>18, <1>19, <1>20, <1>21, <1>22, <1>23, <1>24, <1>25,
     <1>26, <1>27, <1>28, <1>29, <1>30, <1>31, <1>32, <1>33, <1>34, <1>35, <1>36, <1>37
     DEF Next, Drives, Environment

\* Every reason to end a Run that code holds is durable or a matter of time.
LEMMA WitnessedStep ==
    Valued /\ Witnessed /\ [Next]_vars => Witnessed'
<1> SUFFICES ASSUME Witnessed, verdict # "PENDING", [Next]_vars
             PROVE  Witnessed'
  BY DEF Valued, ValuesOK
<1> USE DEF Witnessed
<1>1. CASE RecoverEnds \/ LoopEnds \/ LoopAdvance \/ PrepareFails \/ BudgetBlocks
           \/ ProviderAnswers \/ SettleEnds \/ SettleOverspent \/ SettleFinal \/ ToolsFinish
           \/ ToolSettleEnds \/ CleanupConfirmed \/ ExpireApproval \/ AcceptInput
           \/ BackoffElapses \/ BeginDrain \/ Restart
  <2>1. UNCHANGED <<status, intent, seenIntent, abort, canceller, deadliner, expired>>
    BY <1>1 DEF RecoverEnds, Terminate, NoWrite, ledger, Keep, outside, LoopEnds,
        LoopAdvance, PrepareFails, BudgetBlocks, ProviderAnswers, SettleEnds,
        SettleOverspent, SettleFinal, Goto, local, ToolsFinish, ToolSettleEnds,
        CleanupConfirmed, ExpireApproval, driver, AcceptInput, BackoffElapses, BeginDrain,
        Restart, Beside
  <2>2. QED
    BY <2>1
<1>2. CASE RecoverMaxSteps \/ RecoverStaleStep \/ LoopMaxSteps \/ PreflightFails
           \/ SettleFatal \/ CommitCompletes
  BY <1>2 DEF RecoverMaxSteps, Conclude, Write, Release, Keep, outside, RecoverStaleStep,
      LoopMaxSteps, PreflightFails, SettleFatal, CommitCompletes
<1>3. CASE RecoverReturns \/ LoopWaits \/ CommitRefused
  BY <1>3 DEF RecoverReturns, NoWrite, ledger, Release, Keep, outside, LoopWaits,
      CommitRefused
<1>4. CASE RecoverBackoff
  BY <1>4 DEF RecoverBackoff, ResumeBackoff, Write, Drive, Snapshot, Keep, outside
<1>5. CASE RecoverDrives
  BY <1>5 DEF RecoverDrives, Drive, Snapshot, NoWrite, ledger, Keep, outside
<1>6. CASE LoopHandoff
  BY <1>6 DEF LoopHandoff, Snapshot, outside, NoWrite, ledger
<1>7. CASE LoopTools
  BY <1>7 DEF LoopTools, Write, Goto, local, Keep, outside
<1>8. CASE PrepareAborted
  BY <1>8 DEF PrepareAborted, FinalizeAborted, Terminate, NoWrite, ledger, Release, Keep,
      outside
<1>9. CASE RestartBeforeOpen
  BY <1>9 DEF RestartBeforeOpen, NoWrite, ledger, Drive, Snapshot, Release, Keep, outside
<1>10. CASE BoundaryFails
  BY <1>10 DEF BoundaryFails, FinalizeAborted, Terminate, NoWrite, ledger, Release, outside
<1>11. CASE OpenTurn
  BY <1>11 DEF OpenTurn, Write, Goto, local, outside
<1>12. CASE SettleDeferred
  BY <1>12 DEF SettleDeferred, Defer, Write, Drive, Snapshot, outside
<1>13. CASE SettleTools
  BY <1>13 DEF SettleTools, Write, Drive, Snapshot, Keep, outside
<1>14. CASE SettleRetry
  BY <1>14 DEF SettleRetry, Conclude, Write, Release, Checkpoint, Keep, outside
<1>15. CASE CommitDeferred
  BY <1>15 DEF CommitDeferred, Defer, Write, Drive, Snapshot, outside
<1>16. CASE ToolsFail
  BY <1>16 DEF ToolsFail, FinalizeAborted, Terminate, NoWrite, ledger, Release, Conclude,
      Write, outside
<1>17. CASE ToolsAborted
  BY <1>17 DEF ToolsAborted, FinalizeAborted, Terminate, NoWrite, ledger, Release, Keep,
      outside
<1>18. CASE ToolsSettle
  BY <1>18 DEF ToolsSettle, Write, ToolOutcome, Drive, Snapshot, Keep, outside
<1>19. CASE CleanupUnconfirmed
  BY <1>19 DEF CleanupUnconfirmed, NoWrite, ledger, Release, outside
<1>20. CASE Seal
  BY <1>20 DEF Seal, Conclude, Write, Release, Keep, outside
<1>21. CASE ApprovalResumes
  BY <1>21 DEF ApprovalResumes, Write, Drive, Snapshot, Keep, outside
<1>22. CASE Start
  BY <1>22 DEF Start, Terminate, NoWrite, ledger, Write, Drive, Snapshot, Keep, outside
<1>23. CASE Recover
  BY <1>23 DEF Recover, Snapshot, NoWrite, ledger, Keep, outside
<1>24. CASE ResolveApproval
  BY <1>24 DEF ResolveApproval, Terminate, NoWrite, ledger, Snapshot, outside
<1>25. CASE ContinueResource
  BY <1>25 DEF ContinueResource, Terminate, NoWrite, ledger, Write, Drive, Snapshot, Keep,
      outside
<1>26. CASE RequestCancellation
  BY <1>26 DEF RequestCancellation, driver, local, Beside, ledger
<1>27. CASE CancelAborts
  BY <1>27 DEF CancelAborts, local, Beside, ledger
<1>28. CASE CancelLocked
  BY <1>28 DEF CancelLocked, driver, local, ledger, Terminate, NoWrite
<1>29. CASE DeadlinePasses
  BY <1>29 DEF DeadlinePasses, Underway, Waiting, driver, local, Beside, ledger
<1>30. CASE DeadlineFires
  BY <1>30 DEF DeadlineFires, local, Beside, ledger
<1>31. CASE DeadlineLocked
  BY <1>31 DEF DeadlineLocked, driver, local, ledger, Terminate, NoWrite
<1>32. CASE RetryTimerFires
  BY <1>32 DEF RetryTimerFires, NoWrite, ledger, driver, local, Terminate, ResumeBackoff,
      Write, Drive, Snapshot, Keep, outside
<1>33. CASE CheckpointActive
  BY <1>33 DEF CheckpointActive, local, outside, Beside, ledger
<1>34. CASE Exit
  BY <1>34 DEF Exit, Stop, NoWrite, ledger, Release
<1>35. CASE Crash
  BY <1>35 DEF Crash, Stop, NoWrite, ledger, Release
<1>36. CASE UNCHANGED vars
  BY <1>36 DEF vars, ledger, local, timers, outside, driver
<1> QED
  BY <1>1, <1>2, <1>3, <1>4, <1>5, <1>6, <1>7, <1>8, <1>9, <1>10, <1>11, <1>12, <1>13,
     <1>14, <1>15, <1>16, <1>17, <1>18, <1>19, <1>20, <1>21, <1>22, <1>23, <1>24, <1>25,
     <1>26, <1>27, <1>28, <1>29, <1>30, <1>31, <1>32, <1>33, <1>34, <1>35, <1>36
     DEF Next, Drives, Environment

\* Terminations: a verdict is backed by its authority until it is sealed.
LEMMA AuthorizedStep ==
    StatusAt /\ Witnessed /\ Authorized /\ [Next]_vars => Authorized'
<1> SUFFICES ASSUME StatusAt, Witnessed, Authorized, [Next]_vars
             PROVE  Authorized'
  OBVIOUS
<1> USE DEF StatusAt, Witnessed, Authorized, EndsByAuthority, Terminal
<1>1. CASE LoopHandoff \/ ExpireApproval \/ AcceptInput \/ CancelAborts \/ DeadlineFires
           \/ BackoffElapses \/ BeginDrain \/ CheckpointActive \/ Restart
  <2>1. UNCHANGED <<status, intent, pc, verdict, expired>>
    BY <1>1 DEF LoopHandoff, Snapshot, outside, NoWrite, ledger, ExpireApproval, driver,
        local, AcceptInput, CancelAborts, Beside, DeadlineFires, BackoffElapses, BeginDrain,
        CheckpointActive, Restart
  <2>2. QED
    BY <2>1
<1>2. CASE RecoverEnds \/ LoopEnds \/ BudgetBlocks \/ SettleEnds \/ SettleOverspent
           \/ ToolSettleEnds
  BY <1>2 DEF RecoverEnds, Cancelling, Terminate, Underway, Waiting, NoWrite, ledger, Keep,
      outside, LoopEnds, BudgetBlocks, SettleEnds, Ended, SettleOverspent, ToolSettleEnds
<1>3. CASE RecoverMaxSteps \/ RecoverStaleStep \/ LoopMaxSteps \/ PreflightFails
           \/ SettleFatal \/ CommitCompletes
  BY <1>3 DEF RecoverMaxSteps, Conclude, Write, Release, Keep, outside, RecoverStaleStep,
      LoopMaxSteps, PreflightFails, SettleFatal, CommitCompletes
<1>4. CASE RecoverReturns \/ LoopWaits \/ CommitRefused
  BY <1>4 DEF RecoverReturns, NoWrite, ledger, Release, Keep, outside, LoopWaits,
      CommitRefused
<1>5. CASE RecoverBackoff
  BY <1>5 DEF RecoverBackoff, ResumeBackoff, Write, Drive, Snapshot, Keep, outside
<1>6. CASE RecoverDrives
  BY <1>6 DEF RecoverDrives, Drive, Snapshot, NoWrite, ledger, Keep, outside
<1>7. CASE LoopTools
  BY <1>7 DEF LoopTools, Write, Goto, local, Keep, outside
<1>8. CASE LoopAdvance
  BY <1>8 DEF LoopAdvance, NoWrite, ledger, Keep, outside
<1>9. CASE PrepareAborted
  BY <1>9 DEF PrepareAborted, FinalizeAborted, Ended, Terminate, Underway, Waiting, NoWrite,
      ledger, Release, Keep, outside
<1>10. CASE RestartBeforeOpen
  BY <1>10 DEF RestartBeforeOpen, NoWrite, ledger, Drive, Snapshot, Release, Keep, outside
<1>11. CASE PrepareFails
  BY <1>11 DEF PrepareFails, NoWrite, ledger, Keep, outside
<1>12. CASE BoundaryFails
  BY <1>12 DEF BoundaryFails, Fault, FinalizeAborted, Ended, Terminate, Underway, Waiting,
      NoWrite, ledger, Release, outside
<1>13. CASE OpenTurn
  BY <1>13 DEF OpenTurn, Write, Goto, local, outside
<1>14. CASE ProviderAnswers
  BY <1>14 DEF ProviderAnswers, NoWrite, ledger, Keep, outside
<1>15. CASE SettleDeferred
  BY <1>15 DEF SettleDeferred, Defer, Write, Drive, Snapshot, outside
<1>16. CASE SettleFinal
  BY <1>16 DEF SettleFinal, Goto, local, NoWrite, ledger, Keep, outside
<1>17. CASE SettleTools
  BY <1>17 DEF SettleTools, Write, Drive, Snapshot, Keep, outside
<1>18. CASE SettleRetry
  BY <1>18 DEF SettleRetry, Conclude, Write, Release, Checkpoint, Keep, outside
<1>19. CASE CommitDeferred
  BY <1>19 DEF CommitDeferred, Defer, Write, Drive, Snapshot, outside
<1>20. CASE ToolsFinish
  BY <1>20 DEF ToolsFinish, outside, NoWrite, ledger
<1>21. CASE ToolsFail
  BY <1>21 DEF ToolsFail, FinalizeAborted, Ended, Terminate, Underway, Waiting, NoWrite,
      ledger, Release, Conclude, Write, Fault, outside
<1>22. CASE ToolsAborted
  BY <1>22 DEF ToolsAborted, FinalizeAborted, Ended, Terminate, Underway, Waiting, NoWrite,
      ledger, Release, Keep, outside
<1>23. CASE ToolsSettle
  BY <1>23 DEF ToolsSettle, Write, ToolOutcome, Drive, Snapshot, Keep, outside
<1>24. CASE CleanupConfirmed
  BY <1>24 DEF CleanupConfirmed, outside, NoWrite, ledger
<1>25. CASE CleanupUnconfirmed
  BY <1>25 DEF CleanupUnconfirmed, NoWrite, ledger, Release, outside
<1>26. CASE Seal
  BY <1>26 DEF Seal, Conclude, Write, Release, Keep, outside
<1>27. CASE ApprovalResumes
  BY <1>27 DEF ApprovalResumes, Write, Drive, Snapshot, Keep, outside
<1>28. CASE Start
  BY <1>28 DEF Start, Terminate, NoWrite, ledger, Write, Drive, Snapshot, Keep, outside
<1>29. CASE Recover
  BY <1>29 DEF Recover, Snapshot, NoWrite, ledger, Keep, outside
<1>30. CASE ResolveApproval
  BY <1>30 DEF ResolveApproval, Schedulable, Ended, Terminate, Underway, Waiting, NoWrite,
      ledger, Snapshot, outside
<1>31. CASE ContinueResource
  BY <1>31 DEF ContinueResource, Schedulable, Ended, Terminate, Underway, Waiting, NoWrite,
      ledger, Write, Drive, Snapshot, Keep, outside
<1>32. CASE RequestCancellation
  BY <1>32 DEF RequestCancellation, driver, local, Beside, ledger
<1>33. CASE CancelLocked
  BY <1>33 DEF CancelLocked, driver, local, ledger, Terminate, NoWrite
<1>34. CASE DeadlinePasses
  BY <1>34 DEF DeadlinePasses, driver, local, Beside, ledger
<1>35. CASE DeadlineLocked
  BY <1>35 DEF DeadlineLocked, driver, local, ledger, Terminate, NoWrite
<1>36. CASE RetryTimerFires
  BY <1>36 DEF RetryTimerFires, Underway, Waiting, NoWrite, ledger, driver, local, Ended,
      Terminate, ResumeBackoff, Write, Drive, Snapshot, Keep, outside
<1>37. CASE Exit
  BY <1>37 DEF Exit, Stop, NoWrite, ledger, Release
<1>38. CASE Crash
  BY <1>38 DEF Crash, Stop, NoWrite, ledger, Release
<1>39. CASE UNCHANGED vars
  BY <1>39 DEF vars, ledger, local, timers, outside, driver
<1> QED
  BY <1>1, <1>2, <1>3, <1>4, <1>5, <1>6, <1>7, <1>8, <1>9, <1>10, <1>11, <1>12, <1>13,
     <1>14, <1>15, <1>16, <1>17, <1>18, <1>19, <1>20, <1>21, <1>22, <1>23, <1>24, <1>25,
     <1>26, <1>27, <1>28, <1>29, <1>30, <1>31, <1>32, <1>33, <1>34, <1>35, <1>36, <1>37,
     <1>38, <1>39
     DEF Next, Drives, Environment

\* Lost Steps are accounted for: each way to leave one is a fault, a shutdown or an intent.
LEMMA AccountedStep ==
    Shaped /\ CountsOK /\ Accounted /\ [Next]_vars => Accounted'
<1> SUFFICES ASSUME StatusAt, BoundaryAt, StepAt, CountsOK, Accounted, [Next]_vars
             PROVE  Accounted'
  BY DEF Shaped
<1> USE DEF StatusAt, BoundaryAt, StepAt, CountsOK, Accounted, StepLossExplained, AwaitsTools,
            Waiting, Backoff
<1>1. CASE RecoverEnds \/ RecoverBackoff \/ RecoverDrives \/ LoopEnds \/ LoopHandoff
           \/ LoopTools \/ LoopAdvance \/ PrepareFails \/ BudgetBlocks \/ OpenTurn
           \/ ProviderAnswers \/ SettleEnds \/ SettleOverspent \/ SettleDeferred
           \/ SettleFinal \/ SettleTools \/ CommitDeferred \/ ToolsFinish \/ ToolSettleEnds
           \/ ToolsSettle \/ CleanupConfirmed \/ ApprovalResumes \/ Start \/ Recover
           \/ ResolveApproval \/ ExpireApproval \/ ContinueResource \/ AcceptInput
           \/ CancelAborts \/ CancelLocked \/ DeadlinePasses \/ DeadlineFires
           \/ DeadlineLocked \/ BackoffElapses \/ RetryTimerFires \/ CheckpointActive
           \/ Restart
  <2>1. UNCHANGED <<intent, draining, faults, drains, lost>>
    BY <1>1 DEF RecoverEnds, Terminate, NoWrite, ledger, Keep, outside, RecoverBackoff,
        ResumeBackoff, Write, Drive, RecoverDrives, LoopEnds, LoopHandoff, LoopTools, Goto,
        LoopAdvance, PrepareFails, BudgetBlocks, OpenTurn, ProviderAnswers, SettleEnds,
        SettleOverspent, SettleDeferred, Defer, SettleFinal, SettleTools, CommitDeferred,
        ToolsFinish, ToolSettleEnds, ToolsSettle, CleanupConfirmed, ApprovalResumes, Start,
        Recover, ResolveApproval, ExpireApproval, driver, ContinueResource, AcceptInput,
        CancelAborts, Beside, CancelLocked, DeadlinePasses, DeadlineFires, DeadlineLocked,
        BackoffElapses, RetryTimerFires, CheckpointActive, Restart
  <2>2. QED
    BY <2>1
<1>2. CASE RecoverMaxSteps
  BY <1>2 DEF RecoverMaxSteps, Conclude, Write, Release, Keep, outside
<1>3. CASE RecoverStaleStep
  BY <1>3 DEF RecoverStaleStep, Conclude, Write, Release, Keep, outside
<1>4. CASE RecoverReturns
  BY <1>4 DEF RecoverReturns, Recovering, Cancelling, Coordinated, Suspended, Recoverable,
      NoWrite, ledger, Release, Keep, outside
<1>5. CASE LoopWaits
  BY <1>5 DEF LoopWaits, NoWrite, ledger, Release, Keep, outside
<1>6. CASE LoopMaxSteps
  BY <1>6 DEF LoopMaxSteps, Conclude, Write, Release, Keep, outside
<1>7. CASE PreflightFails
  BY <1>7 DEF PreflightFails, Conclude, Write, Release, Keep, outside
<1>8. CASE PrepareAborted
  <2>1. lost' => lost
    BY <1>8, AbortWritesNothing DEF PrepareAborted
  <2>2. QED
    BY <1>8, <2>1 DEF PrepareAborted, Keep, outside
<1>9. CASE RestartBeforeOpen
  BY <1>9 DEF RestartBeforeOpen, NoWrite, ledger, Drive, Release, Keep, outside
<1>10. CASE BoundaryFails
  BY <1>10 DEF BoundaryFails, Fault, FinalizeAborted, Ended, Terminate, Underway, NoWrite,
      ledger, Release, outside
<1>11. CASE SettleFatal
  BY <1>11 DEF SettleFatal, Conclude, Write, Release, Keep, outside
<1>12. CASE SettleRetry
  BY <1>12 DEF SettleRetry, Conclude, Write, Release, Checkpoint, Keep, outside
<1>13. CASE CommitRefused
  BY <1>13 DEF CommitRefused, NoWrite, ledger, Release, Keep, outside
<1>14. CASE CommitCompletes
  BY <1>14 DEF CommitCompletes, Conclude, Write, Release, Keep, outside
<1>15. CASE ToolsFail
  <2>1. lost' => lost \/ faults' > 0
    <3>1. CASE FinalizeAborted
      BY <1>15, <3>1, AbortWritesNothing DEF ToolsFail
    <3>2. CASE Conclude("FAILED")
      BY <3>2 DEF Conclude, Write, Release
    <3>3. CASE Fault
      BY <3>3 DEF Fault
    <3>4. QED
      BY <1>15, <3>1, <3>2, <3>3 DEF ToolsFail
  <2>2. UNCHANGED <<intent, draining, drains>> /\ (faults > 0 => faults' > 0)
    BY <1>15 DEF ToolsFail, outside, Fault
  <2>3. QED
    BY <2>1, <2>2
<1>16. CASE ToolsAborted
  <2>1. lost' => lost
    BY <1>16, AbortWritesNothing DEF ToolsAborted
  <2>2. QED
    BY <1>16, <2>1 DEF ToolsAborted, Keep, outside
<1>17. CASE CleanupUnconfirmed
  BY <1>17 DEF CleanupUnconfirmed, Fault, NoWrite, ledger, Release, outside
<1>18. CASE Seal
  BY <1>18 DEF Seal, Conclude, Write, Release, Keep, outside
<1>19. CASE RequestCancellation
  BY <1>19 DEF RequestCancellation, driver, Beside, ledger
<1>20. CASE BeginDrain
  BY <1>20 DEF BeginDrain, ledger, driver
<1>21. CASE Exit
  BY <1>21 DEF Exit, Stop, NoWrite, ledger, Release
<1>22. CASE Crash
  BY <1>22 DEF Crash, Fault, Stop, NoWrite, ledger, Release
<1>23. CASE UNCHANGED vars
  BY <1>23 DEF vars, ledger, local, timers, outside, driver
<1> QED
  BY <1>1, <1>2, <1>3, <1>4, <1>5, <1>6, <1>7, <1>8, <1>9, <1>10, <1>11, <1>12, <1>13,
     <1>14, <1>15, <1>16, <1>17, <1>18, <1>19, <1>20, <1>21, <1>22, <1>23
     DEF Next, Drives, Environment

\* Approvals: nothing asks for one between the cleanup and the seal.
LEMMA ApprovalsStep ==
    StatusAt /\ Approvals /\ [Next]_vars => Approvals'
<1> SUFFICES ASSUME StatusAt, Approvals, [Next]_vars
             PROVE  Approvals'
  OBVIOUS
<1> USE DEF StatusAt, Approvals, NoOrphanApproval, Terminal
<1>1. CASE LoopHandoff \/ AcceptInput \/ RequestCancellation \/ CancelAborts
           \/ DeadlinePasses \/ DeadlineFires \/ BackoffElapses \/ BeginDrain
           \/ CheckpointActive \/ Restart
  <2>1. UNCHANGED <<status, approval, pc>>
    BY <1>1 DEF LoopHandoff, NoWrite, ledger, AcceptInput, driver, RequestCancellation,
        Beside, CancelAborts, DeadlinePasses, DeadlineFires, BackoffElapses, BeginDrain,
        CheckpointActive, Restart
  <2>2. QED
    BY <2>1
<1>2. CASE RecoverEnds \/ LoopEnds \/ BudgetBlocks \/ SettleEnds \/ SettleOverspent
           \/ ToolSettleEnds
  BY <1>2 DEF RecoverEnds, Terminate, NoWrite, ledger, Keep, LoopEnds, BudgetBlocks,
      SettleEnds, SettleOverspent, ToolSettleEnds
<1>3. CASE RecoverMaxSteps \/ RecoverStaleStep \/ LoopMaxSteps \/ PreflightFails
           \/ SettleFatal \/ CommitCompletes
  BY <1>3 DEF RecoverMaxSteps, Conclude, Write, Release, Keep, RecoverStaleStep,
      LoopMaxSteps, PreflightFails, SettleFatal, CommitCompletes
<1>4. CASE RecoverReturns \/ LoopWaits \/ CommitRefused
  BY <1>4 DEF RecoverReturns, NoWrite, ledger, Release, Keep, LoopWaits, CommitRefused
<1>5. CASE RecoverBackoff
  BY <1>5 DEF RecoverBackoff, ResumeBackoff, Write, Drive, Keep
<1>6. CASE RecoverDrives
  BY <1>6 DEF RecoverDrives, Drive, NoWrite, ledger, Keep
<1>7. CASE LoopTools
  BY <1>7 DEF LoopTools, Write, Goto, Keep
<1>8. CASE LoopAdvance
  BY <1>8 DEF LoopAdvance, NoWrite, ledger, Keep
<1>9. CASE PrepareAborted
  BY <1>9 DEF PrepareAborted, FinalizeAborted, Terminate, NoWrite, ledger, Release, Keep
<1>10. CASE RestartBeforeOpen
  BY <1>10 DEF RestartBeforeOpen, NoWrite, ledger, Drive, Release, Keep
<1>11. CASE PrepareFails
  BY <1>11 DEF PrepareFails, NoWrite, ledger, Keep
<1>12. CASE BoundaryFails
  BY <1>12 DEF BoundaryFails, FinalizeAborted, Terminate, NoWrite, ledger, Release
<1>13. CASE OpenTurn
  BY <1>13 DEF OpenTurn, Write, Goto
<1>14. CASE ProviderAnswers
  BY <1>14 DEF ProviderAnswers, NoWrite, ledger, Keep
<1>15. CASE SettleDeferred
  BY <1>15 DEF SettleDeferred, Defer, Write, Drive
<1>16. CASE SettleFinal
  BY <1>16 DEF SettleFinal, Goto, NoWrite, ledger, Keep
<1>17. CASE SettleTools
  BY <1>17 DEF SettleTools, Write, Drive, Keep
<1>18. CASE SettleRetry
  BY <1>18 DEF SettleRetry, Conclude, Write, Release, Checkpoint, Keep
<1>19. CASE CommitDeferred
  BY <1>19 DEF CommitDeferred, Defer, Write, Drive
<1>20. CASE ToolsFinish
  BY <1>20 DEF ToolsFinish, NoWrite, ledger
<1>21. CASE ToolsFail
  BY <1>21 DEF ToolsFail, FinalizeAborted, Terminate, NoWrite, ledger, Release, Conclude,
      Write
<1>22. CASE ToolsAborted
  BY <1>22 DEF ToolsAborted, FinalizeAborted, Terminate, NoWrite, ledger, Release, Keep
<1>23. CASE ToolsSettle
  BY <1>23 DEF ToolsSettle, Write, ToolOutcome, Drive, Keep
<1>24. CASE CleanupConfirmed
  BY <1>24 DEF CleanupConfirmed, NoWrite, ledger
<1>25. CASE CleanupUnconfirmed
  BY <1>25 DEF CleanupUnconfirmed, NoWrite, ledger, Release
<1>26. CASE Seal
  BY <1>26 DEF Seal, Conclude, Write, Release, Keep
<1>27. CASE ApprovalResumes
  BY <1>27 DEF ApprovalResumes, Write, Drive, Keep
<1>28. CASE Start
  BY <1>28 DEF Start, Terminate, NoWrite, ledger, Write, Drive, Keep
<1>29. CASE Recover
  BY <1>29 DEF Recover, NoWrite, ledger, Keep
<1>30. CASE ResolveApproval
  BY <1>30 DEF ResolveApproval, Terminate, NoWrite, ledger
<1>31. CASE ExpireApproval
  BY <1>31 DEF ExpireApproval, ledger, driver
<1>32. CASE ContinueResource
  BY <1>32 DEF ContinueResource, Terminate, NoWrite, ledger, Write, Drive, Keep
<1>33. CASE CancelLocked
  BY <1>33 DEF CancelLocked, driver, ledger, Terminate, NoWrite
<1>34. CASE DeadlineLocked
  BY <1>34 DEF DeadlineLocked, driver, ledger, Terminate, NoWrite
<1>35. CASE RetryTimerFires
  BY <1>35 DEF RetryTimerFires, NoWrite, ledger, driver, Terminate, ResumeBackoff, Write,
      Drive, Keep
<1>36. CASE Exit
  BY <1>36 DEF Exit, Stop, NoWrite, ledger, Release
<1>37. CASE Crash
  BY <1>37 DEF Crash, Stop, NoWrite, ledger, Release
<1>38. CASE UNCHANGED vars
  BY <1>38 DEF vars, ledger, local, timers, outside, driver
<1> QED
  BY <1>1, <1>2, <1>3, <1>4, <1>5, <1>6, <1>7, <1>8, <1>9, <1>10, <1>11, <1>12, <1>13,
     <1>14, <1>15, <1>16, <1>17, <1>18, <1>19, <1>20, <1>21, <1>22, <1>23, <1>24, <1>25,
     <1>26, <1>27, <1>28, <1>29, <1>30, <1>31, <1>32, <1>33, <1>34, <1>35, <1>36, <1>37,
     <1>38
     DEF Next, Drives, Environment

\* A driver in EXECUTE mode only meets a batch it has just been given.
LEMMA FreshStep ==
    BoundaryAt /\ Fresh /\ [Next]_vars => Fresh'
<1> SUFFICES ASSUME BoundaryAt, Fresh, [Next]_vars
             PROVE  Fresh'
  OBVIOUS
<1> USE DEF BoundaryAt, Fresh, AwaitsTools
<1>1. CASE LoopHandoff \/ ExpireApproval \/ AcceptInput \/ RequestCancellation
           \/ CancelAborts \/ DeadlinePasses \/ DeadlineFires \/ BackoffElapses
           \/ BeginDrain \/ CheckpointActive \/ Restart
  <2>1. UNCHANGED <<cont, batch, pc, mode>>
    BY <1>1 DEF LoopHandoff, NoWrite, ledger, ExpireApproval, driver, local, AcceptInput,
        RequestCancellation, Beside, CancelAborts, DeadlinePasses, DeadlineFires,
        BackoffElapses, BeginDrain, CheckpointActive, Restart
  <2>2. QED
    BY <2>1
<1>2. CASE RecoverEnds \/ LoopEnds \/ BudgetBlocks \/ SettleEnds \/ SettleOverspent
           \/ ToolSettleEnds
  BY <1>2 DEF RecoverEnds, Terminate, NoWrite, ledger, LoopEnds, BudgetBlocks, SettleEnds,
      SettleOverspent, ToolSettleEnds
<1>3. CASE RecoverMaxSteps \/ RecoverStaleStep \/ LoopMaxSteps \/ PreflightFails
           \/ SettleFatal \/ CommitCompletes
  BY <1>3 DEF RecoverMaxSteps, Conclude, Write, Backoff, NoCont, Release, RecoverStaleStep,
      LoopMaxSteps, PreflightFails, SettleFatal, CommitCompletes
<1>4. CASE RecoverReturns \/ LoopWaits \/ CommitRefused
  BY <1>4 DEF RecoverReturns, Backoff, NoWrite, ledger, Release, NoCont, LoopWaits,
      CommitRefused
<1>5. CASE RecoverBackoff
  BY <1>5 DEF RecoverBackoff, Backoff, ResumeBackoff, Write, Drive, NoCont
<1>6. CASE RecoverDrives
  BY <1>6 DEF RecoverDrives, Backoff, Drive, NoCont, NoWrite, ledger
<1>7. CASE LoopTools
  BY <1>7 DEF LoopTools, Write, Backoff, Goto, local
<1>8. CASE LoopAdvance
  BY <1>8 DEF LoopAdvance, NoWrite, ledger
<1>9. CASE PrepareAborted
  BY <1>9 DEF PrepareAborted, FinalizeAborted, Terminate, NoWrite, ledger, Backoff, Release,
      NoCont
<1>10. CASE RestartBeforeOpen
  BY <1>10 DEF RestartBeforeOpen, Backoff, NoWrite, ledger, Drive, NoCont, Release
<1>11. CASE PrepareFails
  BY <1>11 DEF PrepareFails, NoWrite, ledger
<1>12. CASE BoundaryFails
  BY <1>12 DEF BoundaryFails, FinalizeAborted, Terminate, NoWrite, ledger, Backoff, Release,
      NoCont
<1>13. CASE OpenTurn
  BY <1>13 DEF OpenTurn, Write, Backoff, NoCont, Goto, local
<1>14. CASE ProviderAnswers
  BY <1>14 DEF ProviderAnswers, NoWrite, ledger
<1>15. CASE SettleDeferred
  BY <1>15 DEF SettleDeferred, Defer, Write, Backoff, Steering, NoCont, Drive
<1>16. CASE SettleFinal
  BY <1>16 DEF SettleFinal, Backoff, Goto, local, NoWrite, ledger
<1>17. CASE SettleTools
  BY <1>17 DEF SettleTools, Write, Backoff, ToolsRequested, NoCont, Drive
<1>18. CASE SettleRetry
  BY <1>18 DEF SettleRetry, Backoff, Conclude, Write, NoCont, Release, Checkpoint
<1>19. CASE CommitDeferred
  BY <1>19 DEF CommitDeferred, Defer, Write, Backoff, Steering, NoCont, Drive
<1>20. CASE ToolsFinish
  BY <1>20 DEF ToolsFinish, NoWrite, ledger
<1>21. CASE ToolsFail
  BY <1>21 DEF ToolsFail, FinalizeAborted, Terminate, NoWrite, ledger, Backoff, Release,
      NoCont, Conclude, Write
<1>22. CASE ToolsAborted
  BY <1>22 DEF ToolsAborted, FinalizeAborted, Terminate, NoWrite, ledger, Backoff, Release,
      NoCont
<1>23. CASE ToolsSettle
  BY <1>23 DEF ToolsSettle, Write, Backoff, ToolOutcome, Drive, NoCont
<1>24. CASE CleanupConfirmed
  BY <1>24 DEF CleanupConfirmed, Backoff, NoWrite, ledger
<1>25. CASE CleanupUnconfirmed
  BY <1>25 DEF CleanupUnconfirmed, NoWrite, ledger, Release, NoCont
<1>26. CASE Seal
  BY <1>26 DEF Seal, Conclude, Write, Backoff, NoCont, Release
<1>27. CASE ApprovalResumes
  BY <1>27 DEF ApprovalResumes, Write, Backoff, Drive, NoCont
<1>28. CASE Start
  BY <1>28 DEF Start, Terminate, NoWrite, ledger, Write, Backoff, NoCont, Drive
<1>29. CASE Recover
  BY <1>29 DEF Recover, Backoff, NoWrite, ledger
<1>30. CASE ResolveApproval
  BY <1>30 DEF ResolveApproval, Terminate, NoWrite, ledger, Backoff
<1>31. CASE ContinueResource
  BY <1>31 DEF ContinueResource, Terminate, NoWrite, ledger, Write, Backoff, Drive, NoCont
<1>32. CASE CancelLocked
  BY <1>32 DEF CancelLocked, driver, local, ledger, Terminate, NoWrite
<1>33. CASE DeadlineLocked
  BY <1>33 DEF DeadlineLocked, driver, local, ledger, Terminate, NoWrite
<1>34. CASE RetryTimerFires
  BY <1>34 DEF RetryTimerFires, Backoff, NoWrite, ledger, driver, local, Terminate,
      ResumeBackoff, Write, Drive, NoCont
<1>35. CASE Exit
  BY <1>35 DEF Exit, Stop, NoWrite, ledger, Release, NoCont
<1>36. CASE Crash
  BY <1>36 DEF Crash, Stop, NoWrite, ledger, Release, NoCont
<1>37. CASE UNCHANGED vars
  BY <1>37 DEF vars, ledger, local, timers, outside, driver
<1> QED
  BY <1>1, <1>2, <1>3, <1>4, <1>5, <1>6, <1>7, <1>8, <1>9, <1>10, <1>11, <1>12, <1>13,
     <1>14, <1>15, <1>16, <1>17, <1>18, <1>19, <1>20, <1>21, <1>22, <1>23, <1>24, <1>25,
     <1>26, <1>27, <1>28, <1>29, <1>30, <1>31, <1>32, <1>33, <1>34, <1>35, <1>36, <1>37
     DEF Next, Drives, Environment

\* Retries: the checkpoint inherits what its turn was opened for.
LEMMA PurposefulStep ==
    Valued /\ Shaped /\ Purposeful /\ [Next]_vars => Purposeful'
<1> SUFFICES ASSUME StatusAt, BoundaryAt, cont \in Continuations, Purposeful, [Next]_vars
             PROVE  Purposeful'
  BY DEF Shaped, Valued, ValuesOK
<1> USE DEF BoundaryAt, Purposeful, RetryKeepsPurpose, Backoff
<1>1. CASE LoopHandoff \/ ExpireApproval \/ AcceptInput \/ RequestCancellation
           \/ CancelAborts \/ DeadlinePasses \/ DeadlineFires \/ BackoffElapses
           \/ BeginDrain \/ CheckpointActive \/ Restart
  <2>1. UNCHANGED <<cont, pc, turn, mode, origin, purpose>>
    BY <1>1 DEF LoopHandoff, NoWrite, ledger, ExpireApproval, driver, local, AcceptInput,
        RequestCancellation, Beside, CancelAborts, DeadlinePasses, DeadlineFires,
        BackoffElapses, BeginDrain, CheckpointActive, Restart
  <2>2. QED
    BY <2>1
<1>2. CASE RecoverEnds \/ LoopEnds \/ BudgetBlocks \/ SettleEnds \/ SettleOverspent
           \/ ToolSettleEnds
  BY <1>2 DEF RecoverEnds, Terminate, NoWrite, ledger, Keep, LoopEnds, BudgetBlocks,
      SettleEnds, SettleOverspent, ToolSettleEnds
<1>3. CASE RecoverMaxSteps \/ RecoverStaleStep \/ LoopMaxSteps \/ PreflightFails
           \/ SettleFatal \/ CommitCompletes
  BY <1>3 DEF RecoverMaxSteps, Conclude, Write, NoCont, Release, Keep, RecoverStaleStep,
      LoopMaxSteps, PreflightFails, SettleFatal, CommitCompletes
<1>4. CASE RecoverReturns \/ LoopWaits \/ CommitRefused
  BY <1>4 DEF RecoverReturns, NoWrite, ledger, Release, NoCont, Keep, LoopWaits,
      CommitRefused
<1>5. CASE RecoverBackoff
  BY <1>5 DEF RecoverBackoff, ResumeBackoff, Write, Drive, NoCont, Keep
<1>6. CASE RecoverDrives
  BY <1>6 DEF RecoverDrives, Drive, NoCont, NoWrite, ledger, Keep
<1>7. CASE LoopTools
  BY <1>7 DEF LoopTools, Write, Goto, local, Keep
<1>8. CASE LoopAdvance
  BY <1>8 DEF LoopAdvance, Routing, Looping, AtInputBoundary, NoWrite, ledger, Keep
<1>9. CASE PrepareAborted
  BY <1>9 DEF PrepareAborted, FinalizeAborted, Terminate, NoWrite, ledger, Release, NoCont,
      Keep
<1>10. CASE RestartBeforeOpen
  BY <1>10 DEF RestartBeforeOpen, NoWrite, ledger, Drive, NoCont, Release, Keep
<1>11. CASE PrepareFails
  BY <1>11 DEF PrepareFails, NoWrite, ledger, Keep
<1>12. CASE BoundaryFails
  BY <1>12 DEF BoundaryFails, FinalizeAborted, Terminate, NoWrite, ledger, Release, NoCont
<1>13. CASE OpenTurn
  BY <1>13 DEF OpenTurn, Write, Goto, local, TurnInput, ResumeMode, NoCont
<1>14. CASE ProviderAnswers
  BY <1>14 DEF ProviderAnswers, NoWrite, ledger, Keep
<1>15. CASE SettleDeferred
  BY <1>15 DEF SettleDeferred, Defer, Write, Steering, NoCont, Drive
<1>16. CASE SettleFinal
  BY <1>16 DEF SettleFinal, Goto, local, NoWrite, ledger, Keep
<1>17. CASE SettleTools
  BY <1>17 DEF SettleTools, Write, ToolsRequested, NoCont, Drive, Keep
<1>18. CASE SettleRetry
  <2>1. ResumeMode(origin) = purpose /\ purpose' = purpose
    BY <1>18 DEF SettleRetry, SettlingRetry, Settling, Keep
  <2>2. ASSUME NEW s, Conclude(s) PROVE Purposeful'
    BY <2>1, <2>2 DEF Conclude, Write, Release, NoCont
  <2>3. ASSUME NEW t, NEW a, NEW late, Checkpoint(t, a, late) PROVE Purposeful'
    BY <2>1, <2>3 DEF Checkpoint, Write, Release, NoCont
  <2>4. QED
    BY <1>18, <2>2, <2>3 DEF SettleRetry
<1>19. CASE CommitDeferred
  BY <1>19 DEF CommitDeferred, Defer, Write, Steering, NoCont, Drive
<1>20. CASE ToolsFinish
  BY <1>20 DEF ToolsFinish, NoWrite, ledger
<1>21. CASE ToolsFail
  BY <1>21 DEF ToolsFail, FinalizeAborted, Terminate, NoWrite, ledger, Release, NoCont,
      Conclude, Write
<1>22. CASE ToolsAborted
  BY <1>22 DEF ToolsAborted, FinalizeAborted, Terminate, NoWrite, ledger, Release, NoCont,
      Keep
<1>23. CASE ToolsSettle
  BY <1>23 DEF ToolsSettle, ToolOutcome, Write, Drive, Snapshot, Hold, Keep, outside,
        AwaitsTools, Continuations
<1>24. CASE CleanupConfirmed
  BY <1>24 DEF CleanupConfirmed, NoWrite, ledger
<1>25. CASE CleanupUnconfirmed
  BY <1>25 DEF CleanupUnconfirmed, NoWrite, ledger, Release, NoCont
<1>26. CASE Seal
  BY <1>26 DEF Seal, Conclude, Write, NoCont, Release, Keep
<1>27. CASE ApprovalResumes
  BY <1>27 DEF ApprovalResumes, Write, Drive, Hold, Keep, outside, Continuations, StatusAt
<1>28. CASE Start
  BY <1>28 DEF Start, Terminate, NoWrite, ledger, Write, NoCont, Drive, Keep
<1>29. CASE Recover
  BY <1>29 DEF Recover, NoWrite, ledger, Keep
<1>30. CASE ResolveApproval
  BY <1>30 DEF ResolveApproval, Terminate, NoWrite, ledger
<1>31. CASE ContinueResource
  BY <1>31 DEF ContinueResource, Terminate, Write, NoWrite, ledger, Drive, Keep, outside,
        Continuations
<1>32. CASE CancelLocked
  BY <1>32 DEF CancelLocked, driver, local, ledger, Terminate, NoWrite
<1>33. CASE DeadlineLocked
  BY <1>33 DEF DeadlineLocked, driver, local, ledger, Terminate, NoWrite
<1>34. CASE RetryTimerFires
  <2>1. CASE NoWrite /\ UNCHANGED driver
    BY <1>34, <2>1 DEF RetryTimerFires, NoWrite, ledger, driver, local, Keep
  <2>2. CASE Terminate("TIMEOUT")
    BY <1>34, <2>2 DEF RetryTimerFires, Terminate, NoWrite, ledger, Keep
  <2>3. CASE ResumeBackoff /\ cont.type \in Backoff
    <3>1. cont'.type = "WAITING_RETRY" /\ cont'.mode = cont.mode
      BY <2>3 DEF ResumeBackoff, Write, Continuations
    <3>2. pc' = "loop" /\ purpose' = purpose
      BY <1>34, <2>3 DEF RetryTimerFires, ResumeBackoff, Drive, Keep
    <3>3. QED
      BY <2>3, <3>1, <3>2
  <2>4. QED
    BY <1>34, <2>1, <2>2, <2>3 DEF RetryTimerFires
<1>35. CASE Exit
  BY <1>35 DEF Exit, Stop, NoWrite, ledger, Release, NoCont
<1>36. CASE Crash
  BY <1>36 DEF Crash, Stop, NoWrite, ledger, Release, NoCont
<1>37. CASE UNCHANGED vars
  BY <1>37 DEF vars, ledger, local, timers, outside, driver
<1> QED
  BY <1>1, <1>2, <1>3, <1>4, <1>5, <1>6, <1>7, <1>8, <1>9, <1>10, <1>11, <1>12, <1>13,
     <1>14, <1>15, <1>16, <1>17, <1>18, <1>19, <1>20, <1>21, <1>22, <1>23, <1>24, <1>25,
     <1>26, <1>27, <1>28, <1>29, <1>30, <1>31, <1>32, <1>33, <1>34, <1>35, <1>36, <1>37
     DEF Next, Drives, Environment

\* Corrections: a batch is a prefix of what is pending.
LEMMA QueuedStep ==
    Valued /\ CountsOK /\ Queued /\ [Next]_vars => Queued'
<1> SUFFICES ASSUME stage \in [Inputs -> Stages], CountsOK, Queued, [Next]_vars
             PROVE  Queued'
  BY DEF Valued, ValuesOK
<1> USE InputsAssumption, BatchAssumption DEF CountsOK, Queued, CorrectionsInOrder, Inputs, Stages
<1>1. CASE RecoverEnds \/ RecoverMaxSteps \/ RecoverBackoff \/ RecoverStaleStep
           \/ RecoverDrives \/ RecoverReturns \/ LoopEnds \/ LoopWaits \/ LoopMaxSteps
           \/ LoopTools \/ LoopAdvance \/ PreflightFails \/ PrepareAborted
           \/ RestartBeforeOpen \/ PrepareFails \/ BudgetBlocks \/ BoundaryFails
           \/ ProviderAnswers \/ SettleEnds \/ SettleOverspent \/ SettleFinal \/ SettleTools
           \/ SettleFatal \/ SettleRetry \/ CommitRefused \/ CommitCompletes \/ ToolsFinish
           \/ ToolsFail \/ ToolsAborted \/ ToolSettleEnds \/ ToolsSettle \/ CleanupConfirmed
           \/ CleanupUnconfirmed \/ Seal \/ ApprovalResumes \/ Start \/ Recover
           \/ ResolveApproval \/ ExpireApproval \/ ContinueResource \/ RequestCancellation
           \/ CancelAborts \/ CancelLocked \/ DeadlinePasses \/ DeadlineFires
           \/ DeadlineLocked \/ BackoffElapses \/ RetryTimerFires \/ BeginDrain
           \/ CheckpointActive \/ Exit \/ Crash \/ Restart
  <2>1. UNCHANGED <<accepted, stage>>
    BY <1>1 DEF RecoverEnds, Terminate, Keep, outside, RecoverMaxSteps, RecoverBackoff,
        ResumeBackoff, Drive, Snapshot, RecoverStaleStep, RecoverDrives, RecoverReturns,
        LoopEnds, LoopWaits, LoopMaxSteps, LoopTools, LoopAdvance, PreflightFails,
        PrepareAborted, FinalizeAborted, RestartBeforeOpen, PrepareFails, BudgetBlocks,
        BoundaryFails, ProviderAnswers, SettleEnds, SettleOverspent, SettleFinal,
        SettleTools, SettleFatal, SettleRetry, CommitRefused, CommitCompletes, ToolsFinish,
        ToolsFail, ToolsAborted, ToolSettleEnds, ToolsSettle, CleanupConfirmed,
        CleanupUnconfirmed, Seal, ApprovalResumes, Start, Recover, ResolveApproval,
        ExpireApproval, ContinueResource, RequestCancellation, Beside, CancelAborts,
        CancelLocked, DeadlinePasses, DeadlineFires, DeadlineLocked, BackoffElapses,
        RetryTimerFires, BeginDrain, CheckpointActive, Exit, Stop, Crash, Restart
  <2>2. QED
    BY <2>1
<1>2. CASE LoopHandoff
  BY <1>2 DEF LoopHandoff, Batch, Recorded, Snapshot, outside
<1>3. CASE OpenTurn
  BY <1>3 DEF OpenTurn, outside
<1>4. CASE SettleDeferred
  BY <1>4 DEF SettleDeferred, Defer, Recorded, Batch, Drive, Snapshot, outside
<1>5. CASE CommitDeferred
  BY <1>5 DEF CommitDeferred, Defer, Recorded, Batch, Drive, Snapshot, outside
<1>6. CASE AcceptInput
  BY <1>6 DEF AcceptInput
<1>7. CASE UNCHANGED vars
  BY <1>7 DEF vars, ledger, local, timers, outside, driver
<1> QED
  BY <1>1, <1>2, <1>3, <1>4, <1>5, <1>6, <1>7
     DEF Next, Drives, Environment

\* Completion and corrections: the completion transaction decides.
LEMMA SkippedStep ==
    Valued /\ NoCorrectionSkipped /\ [Next]_vars => NoCorrectionSkipped'
<1> SUFFICES ASSUME stage \in [Inputs -> Stages], NoCorrectionSkipped,
                 verdict # "COMPLETED", [Next]_vars
             PROVE  NoCorrectionSkipped'
  BY DEF Valued, ValuesOK
<1> USE DEF NoCorrectionSkipped, Unassigned
<1>1. CASE RecoverEnds \/ RecoverDrives \/ RecoverReturns \/ LoopEnds \/ LoopWaits
           \/ LoopAdvance \/ PrepareAborted \/ RestartBeforeOpen \/ PrepareFails
           \/ BudgetBlocks \/ BoundaryFails \/ ProviderAnswers \/ SettleEnds
           \/ SettleOverspent \/ SettleFinal \/ CommitRefused \/ ToolsFinish \/ ToolsAborted
           \/ ToolSettleEnds \/ CleanupConfirmed \/ CleanupUnconfirmed \/ Recover
           \/ ResolveApproval \/ ExpireApproval \/ RequestCancellation \/ CancelAborts
           \/ CancelLocked \/ DeadlinePasses \/ DeadlineFires \/ DeadlineLocked
           \/ BackoffElapses \/ BeginDrain \/ CheckpointActive \/ Exit \/ Crash \/ Restart
  <2>1. UNCHANGED <<status, stage>>
    BY <1>1 DEF RecoverEnds, Terminate, NoWrite, ledger, Keep, RecoverDrives,
        RecoverReturns, LoopEnds, LoopWaits, LoopAdvance, PrepareAborted, FinalizeAborted,
        RestartBeforeOpen, PrepareFails, BudgetBlocks, BoundaryFails, ProviderAnswers,
        SettleEnds, SettleOverspent, SettleFinal, CommitRefused, ToolsFinish, ToolsAborted,
        ToolSettleEnds, CleanupConfirmed, CleanupUnconfirmed, Recover, ResolveApproval,
        ExpireApproval, RequestCancellation, Beside, CancelAborts, CancelLocked,
        DeadlinePasses, DeadlineFires, DeadlineLocked, BackoffElapses, BeginDrain,
        CheckpointActive, Exit, Stop, Crash, Restart
  <2>2. QED
    BY <2>1
<1>2. CASE RecoverMaxSteps \/ RecoverStaleStep \/ LoopMaxSteps \/ PreflightFails
           \/ SettleFatal \/ CommitCompletes
  BY <1>2 DEF RecoverMaxSteps, Conclude, Write, Keep, RecoverStaleStep, LoopMaxSteps, Batch,
      PreflightFails, SettleFatal, CommitCompletes
<1>3. CASE RecoverBackoff
  BY <1>3 DEF RecoverBackoff, ResumeBackoff, Write, Keep
<1>4. CASE LoopHandoff
  BY <1>4 DEF LoopHandoff, Batch, Recorded, NoWrite, ledger
<1>5. CASE LoopTools
  BY <1>5 DEF LoopTools, Batch, Write, Keep
<1>6. CASE OpenTurn
  BY <1>6 DEF OpenTurn, Write
<1>7. CASE SettleDeferred
  BY <1>7 DEF SettleDeferred, Defer, Write, Recorded, Batch
<1>8. CASE SettleTools
  BY <1>8 DEF SettleTools, Write, Keep
<1>9. CASE SettleRetry
  BY <1>9 DEF SettleRetry, Conclude, Write, Checkpoint, Keep
<1>10. CASE CommitDeferred
  BY <1>10 DEF CommitDeferred, Defer, Write, Recorded, Batch
<1>11. CASE ToolsFail
  BY <1>11 DEF ToolsFail, FinalizeAborted, Terminate, NoWrite, ledger, Conclude, Write
<1>12. CASE ToolsSettle
  BY <1>12 DEF ToolsSettle, Write, ToolOutcome, Keep
<1>13. CASE Seal
  BY <1>13 DEF Seal, Conclude, Write, Keep
<1>14. CASE ApprovalResumes
  BY <1>14 DEF ApprovalResumes, Write, Keep
<1>15. CASE Start
  BY <1>15 DEF Start, Terminate, NoWrite, ledger, Write, Keep
<1>16. CASE ContinueResource
  BY <1>16 DEF ContinueResource, Terminate, NoWrite, ledger, Write, Keep
<1>17. CASE AcceptInput
  BY <1>17 DEF AcceptInput, Underway, Waiting, ledger
<1>18. CASE RetryTimerFires
  BY <1>18 DEF RetryTimerFires, NoWrite, ledger, Terminate, ResumeBackoff, Write, Keep
<1>19. CASE UNCHANGED vars
  BY <1>19 DEF vars, ledger, local, timers, outside, driver
<1> QED
  BY <1>1, <1>2, <1>3, <1>4, <1>5, <1>6, <1>7, <1>8, <1>9, <1>10, <1>11, <1>12, <1>13,
     <1>14, <1>15, <1>16, <1>17, <1>18, <1>19
     DEF Next, Drives, Environment

\* Completion and cancellation, in the same transaction.
LEMMA CancelStep ==
    Valued /\ CancelWins /\ [Next]_vars => CancelWins'
<1> SUFFICES ASSUME CancelWins, verdict # "COMPLETED", [Next]_vars
             PROVE  CancelWins'
  BY DEF Valued, ValuesOK
<1> USE DEF CancelWins, Terminal
<1>1. CASE RecoverEnds \/ RecoverDrives \/ RecoverReturns \/ LoopEnds \/ LoopWaits
           \/ LoopHandoff \/ LoopAdvance \/ PrepareAborted \/ RestartBeforeOpen
           \/ PrepareFails \/ BudgetBlocks \/ BoundaryFails \/ ProviderAnswers \/ SettleEnds
           \/ SettleOverspent \/ SettleFinal \/ CommitRefused \/ ToolsFinish \/ ToolsAborted
           \/ ToolSettleEnds \/ CleanupConfirmed \/ CleanupUnconfirmed \/ Recover
           \/ ResolveApproval \/ ExpireApproval \/ AcceptInput \/ CancelAborts
           \/ CancelLocked \/ DeadlinePasses \/ DeadlineFires \/ DeadlineLocked
           \/ BackoffElapses \/ BeginDrain \/ CheckpointActive \/ Exit \/ Crash \/ Restart
  <2>1. UNCHANGED <<status, intent>>
    BY <1>1 DEF RecoverEnds, Terminate, NoWrite, ledger, Keep, outside, RecoverDrives,
        Drive, RecoverReturns, LoopEnds, LoopWaits, LoopHandoff, LoopAdvance,
        PrepareAborted, FinalizeAborted, RestartBeforeOpen, PrepareFails, BudgetBlocks,
        BoundaryFails, ProviderAnswers, SettleEnds, SettleOverspent, SettleFinal,
        CommitRefused, ToolsFinish, ToolsAborted, ToolSettleEnds, CleanupConfirmed,
        CleanupUnconfirmed, Recover, ResolveApproval, ExpireApproval, AcceptInput,
        CancelAborts, Beside, CancelLocked, DeadlinePasses, DeadlineFires, DeadlineLocked,
        BackoffElapses, BeginDrain, CheckpointActive, Exit, Stop, Crash, Restart
  <2>2. QED
    BY <2>1
<1>2. CASE RecoverMaxSteps \/ RecoverStaleStep \/ LoopMaxSteps \/ PreflightFails
           \/ SettleFatal \/ CommitCompletes
  BY <1>2 DEF RecoverMaxSteps, Conclude, Write, Keep, outside, RecoverStaleStep,
      LoopMaxSteps, PreflightFails, SettleFatal, CommitCompletes
<1>3. CASE RecoverBackoff
  BY <1>3 DEF RecoverBackoff, ResumeBackoff, Write, Drive, Keep, outside
<1>4. CASE LoopTools
  BY <1>4 DEF LoopTools, Write, Keep, outside
<1>5. CASE OpenTurn
  BY <1>5 DEF OpenTurn, Write, outside
<1>6. CASE SettleDeferred
  BY <1>6 DEF SettleDeferred, Defer, Write, Drive, outside
<1>7. CASE SettleTools
  BY <1>7 DEF SettleTools, Write, Drive, Keep, outside
<1>8. CASE SettleRetry
  BY <1>8 DEF SettleRetry, Conclude, Write, Checkpoint, Keep, outside
<1>9. CASE CommitDeferred
  BY <1>9 DEF CommitDeferred, Defer, Write, Drive, outside
<1>10. CASE ToolsFail
  BY <1>10 DEF ToolsFail, FinalizeAborted, Terminate, NoWrite, ledger, Conclude, Write,
      outside
<1>11. CASE ToolsSettle
  BY <1>11 DEF ToolsSettle, Write, ToolOutcome, Drive, Keep, outside
<1>12. CASE Seal
  BY <1>12 DEF Seal, Conclude, Write, Keep, outside
<1>13. CASE ApprovalResumes
  BY <1>13 DEF ApprovalResumes, Write, Drive, Keep, outside
<1>14. CASE Start
  BY <1>14 DEF Start, Terminate, NoWrite, ledger, Write, Drive, Keep, outside
<1>15. CASE ContinueResource
  BY <1>15 DEF ContinueResource, Terminate, NoWrite, ledger, Write, Drive, Keep, outside
<1>16. CASE RequestCancellation
  BY <1>16 DEF RequestCancellation, Beside, ledger
<1>17. CASE RetryTimerFires
  BY <1>17 DEF RetryTimerFires, NoWrite, ledger, Terminate, ResumeBackoff, Write, Drive,
      Keep, outside
<1>18. CASE UNCHANGED vars
  BY <1>18 DEF vars, ledger, local, timers, outside, driver
<1> QED
  BY <1>1, <1>2, <1>3, <1>4, <1>5, <1>6, <1>7, <1>8, <1>9, <1>10, <1>11, <1>12, <1>13,
     <1>14, <1>15, <1>16, <1>17, <1>18
     DEF Next, Drives, Environment

-----------------------------------------------------------------------------
(* The inductive invariant *)

\* A Run that was just submitted satisfies every layer.
LEMMA InitIInv == Init => IInv
<1> SUFFICES ASSUME Init PROVE IInv
  OBVIOUS
<1> USE DEF Init
<1>1. Valued /\ FlagsOK
  BY NoContType DEF Valued, ValuesOK, VerdictKnown, FlagsOK, Statuses, Stages, ResumeModes
<1>2. Shaped
  BY DEF Shaped, StatusAt, BoundaryAt, StepAt, LostAt, Terminal
<1>3. Counted
  BY StepsAssumption, InputsAssumption, FaultsAssumption, DrainsAssumption
     DEF Counted, CountsOK, Budgeted, Waiting
<1>4. Witnessed /\ Authorized /\ Accounted /\ Approvals
  BY DEF Witnessed, Authorized, EndsByAuthority, Accounted, StepLossExplained, Approvals,
         NoOrphanApproval
<1>5. Fresh /\ Purposeful
  BY DEF Fresh, Purposeful, RetryKeepsPurpose, NoCont, Backoff
<1>6. Queued
  BY InputsAssumption DEF Queued, CorrectionsInOrder, Inputs
<1>7. NoCorrectionSkipped /\ CancelWins
  BY DEF NoCorrectionSkipped, CancelWins
<1>8. QED
  BY <1>1, <1>2, <1>3, <1>4, <1>5, <1>6, <1>7 DEF IInv

\* Every reachable state, for every value of the constants, satisfies all layers.
THEOREM Invariance == Spec => []IInv
<1>1. IInv /\ [Next]_vars => IInv'
  BY ValuesStep, FlagsStep, StatusStep, BoundaryStep, StepStep, LostStep, CountsStep, BudgetedStep,
     WitnessedStep, AuthorizedStep, AccountedStep, ApprovalsStep, FreshStep, PurposefulStep,
     QueuedStep, SkippedStep, CancelStep
     DEF IInv, Shaped, Counted
<1>2. QED
  BY <1>1, InitIInv, PTL DEF Spec

-----------------------------------------------------------------------------
(* Theorems *)

\* Every variable keeps its type, for every value of the constants.
THEOREM TypeCorrectness == Spec => []TypeOK
<1>1. IInv => TypeOK
  BY DEF IInv, Valued, Counted, TypeOK
<1>2. QED
  BY <1>1, Invariance, PTL

\* No Step is opened and no wait begun without a Step left (maxSteps is enforced
\* before the work, at every boundary).
THEOREM StepsAreBudgeted == Spec => []StepBudget
<1>1. IInv => StepBudget
  BY DEF IInv, Counted, Budgeted, StepBudget
<1>2. QED
  BY <1>1, Invariance, PTL

\* Every commit passes assertRunExecutionInvariant.
THEOREM SnapshotsAreCoherent == Spec => []SnapshotCoherent
<1>1. IInv => SnapshotCoherent
  BY DEF IInv, Shaped, StatusAt, BoundaryAt, StepAt, SnapshotCoherent, Terminal, Backoff
<1>2. QED
  BY <1>1, Invariance, PTL

\* A model call whose driver is gone is not issued a second time.
THEOREM LostStepsAreNotResent == Spec => []LostStepNotResent
<1>1. IInv => LostStepNotResent
  BY DEF IInv, Shaped, StatusAt, LostAt, LostStepNotResent
<1>2. QED
  BY <1>1, Invariance, PTL

\* An abandoned Step implies a fault, a shutdown or a cancellation.
THEOREM LossesAreExplained == Spec => []StepLossExplained
<1>1. IInv => StepLossExplained
  BY DEF IInv, Accounted
<1>2. QED
  BY <1>1, Invariance, PTL

\* CANCELLED needs an intent, TIMEOUT the deadline.
THEOREM EndsAreAuthorized == Spec => []EndsByAuthority
<1>1. IInv => EndsByAuthority
  BY DEF IInv, Authorized
<1>2. QED
  BY <1>1, Invariance, PTL

\* A Run ended from outside leaves no approval pending.
THEOREM ApprovalsAreWithdrawn == Spec => []NoOrphanApproval
<1>1. IInv => NoOrphanApproval
  BY DEF IInv, Approvals
<1>2. QED
  BY <1>1, Invariance, PTL

\* Retry provenance survives every chain of retries and cooldowns.
THEOREM RetriesKeepTheirPurpose == Spec => []RetryKeepsPurpose
<1>1. IInv => RetryKeepsPurpose
  BY DEF IInv, Purposeful
<1>2. QED
  BY <1>1, Invariance, PTL

\* Corrections are handed over first in, first out, for every batch limit.
THEOREM CorrectionsKeepTheirOrder == Spec => []CorrectionsInOrder
<1>1. IInv => CorrectionsInOrder
  BY DEF IInv, Queued
<1>2. QED
  BY <1>1, Invariance, PTL

\* COMPLETED implies that every accepted correction was in a model turn.
THEOREM CorrectionsAreNotSkipped == Spec => []NoCorrectionSkipped
<1>1. IInv => NoCorrectionSkipped
  BY DEF IInv
<1>2. QED
  BY <1>1, Invariance, PTL

\* COMPLETED implies that nobody had cancelled.
THEOREM CancellationWins == Spec => []CancelWins
<1>1. IInv => CancelWins
  BY DEF IInv
<1>2. QED
  BY <1>1, Invariance, PTL

-----------------------------------------------------------------------------
(* What a step does to a Tool batch *)

\* LoopTools is the only way into a batch.
LEMMA EntersTools ==
    ASSUME [Next]_vars, pc # "tools", pc' = "tools" PROVE LoopTools
<1>1. CASE Drives
  BY <1>1 DEF Drives, RecoverEnds, Terminate, RecoverMaxSteps, Conclude, Release,
         RecoverBackoff, ResumeBackoff, Drive, RecoverStaleStep, RecoverDrives,
         RecoverReturns, LoopEnds, LoopWaits, LoopHandoff, LoopMaxSteps, Goto, LoopAdvance,
         PreflightFails, PrepareAborted, FinalizeAborted, RestartBeforeOpen, PrepareFails,
         BudgetBlocks, BoundaryFails, OpenTurn, ProviderAnswers, SettleEnds,
         SettleOverspent, SettleDeferred, Defer, SettleFinal, SettleTools, SettleFatal,
         SettleRetry, Checkpoint, CommitRefused, CommitDeferred, CommitCompletes,
         ToolsFinish, ToolsFail, ToolsAborted, ToolSettleEnds, ToolsSettle,
         CleanupConfirmed, CleanupUnconfirmed, Seal, ApprovalResumes
<1>2. CASE Environment
  BY <1>2 DEF Environment, Start, Terminate, Drive, Recover, ResolveApproval,
         ExpireApproval, driver, ContinueResource, AcceptInput, RequestCancellation,
         CancelAborts, CancelLocked, DeadlinePasses, DeadlineFires, DeadlineLocked,
         BackoffElapses, RetryTimerFires, ResumeBackoff, BeginDrain, CheckpointActive, Exit,
         Stop, Release, Crash, Restart
<1>3. CASE UNCHANGED vars
  BY <1>3 DEF vars, driver
<1>4. QED
  BY <1>1, <1>2, <1>3 DEF Next

\* Only a batch no Tool of which may have run is dispatched as new work.
THEOREM BatchesAreDispatchedFresh == Spec => FreshDispatch
<1>1. Fresh /\ [Next]_vars =>
        [pc # "tools" /\ pc' = "tools" /\ mode = "EXECUTE" => batch = "fresh"]_vars
  BY EntersTools DEF Fresh, LoopTools, Routing, Looping
<1>2. QED
  BY <1>1, Invariance, PTL DEF Spec, IInv, FreshDispatch
=============================================================================
