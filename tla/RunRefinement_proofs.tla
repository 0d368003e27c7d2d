---------------------- MODULE RunRefinement_proofs ----------------------
(***************************************************************************)
(* RunLifecycle implements RunContract: the initial states map to initial  *)
(* states, and every step to a step of the contract or to a stutter.       *)
(***************************************************************************)
EXTENDS RunLifecycle_proofs

\* What a step of the Run is to the contract.
Answered == Contract!Next \/ UNCHANGED Contract!vars

\* A step that touches neither status, intent nor queue is a stutter.
LEMMA Stutters == ASSUME UNCHANGED <<status, intent, stage>> PROVE Answered
  BY DEF Answered, Contract!vars, Unassigned

\* A settlement is a move along the transition table.
LEMMA Moves ==
    ASSUME NEW s, <<status, s>> \in Contract!Transitions, status' = s,
           UNCHANGED <<intent, stage>>,
           s = "COMPLETED" => ~intent /\ ~Unassigned
    PROVE  Answered
<1>1. s \in Contract!Statuses
  BY DEF Contract!Transitions, Contract!Statuses, Contract!Underway, Contract!Terminal
<1>2. Unassigned' = Unassigned
  BY DEF Unassigned
<1>3. Contract!Move(s)
  BY <1>2 DEF Contract!Move
<1>4. QED
  BY <1>1, <1>3 DEF Answered, Contract!Next

\* A Run under way may settle as anything but COMPLETED, and as that if nothing is owed.
LEMMA RunningConcludes ==
    ASSUME NEW s \in Terminal, status = "RUNNING", Conclude(s), UNCHANGED <<intent, stage>>,
           s = "COMPLETED" => ~intent /\ ~Unassigned
    PROVE  Answered
<1>1. <<status, s>> \in Contract!Transitions
  BY DEF Terminal, Contract!Transitions, Contract!Terminal, Contract!Statuses,
         Contract!Underway
<1>2. status' = s
  BY DEF Conclude, Write
<1>3. QED
  BY <1>1, <1>2, Moves

\* A correction that is recorded and in no turn yet is still owed.
LEMMA HandoffKeepsDebt ==
    ASSUME stage \in [Inputs -> Stages], NEW ids \in SUBSET Inputs, stage' = Recorded(ids),
           Unassigned
    PROVE  Unassigned'
<1>1. PICK i \in Inputs : stage[i] \in {"PENDING", "RECORDED"}
  BY DEF Unassigned
<1>2. stage'[i] \in {"PENDING", "RECORDED"}
  BY <1>1 DEF Recorded
<1>3. QED
  BY <1>2 DEF Unassigned

\* A deferred final answer leaves the Run in debt.
LEMMA DeferAnswers ==
    ASSUME stage \in [Inputs -> Stages], Unassigned, Defer PROVE Answered
<1>1. UNCHANGED <<status, intent>> /\ stage' = Recorded(Batch(accepted))
  BY DEF Defer, Write, outside
<1>2. Batch(accepted) \in SUBSET Inputs
  BY DEF Batch
<1>3. Unassigned'
  BY <1>1, <1>2, HandoffKeepsDebt
<1>4. QED
  BY <1>1, <1>3 DEF Answered, Contract!vars

\* The Run ends with a verdict that may end it.
LEMMA SealAnswers ==
    ASSUME StatusAt, Authorized, ValuesOK, VerdictKnown, Seal PROVE Answered
<1>1. status \in Statuses /\ status \notin Terminal
  BY DEF StatusAt, Seal, ValuesOK
<1>2. /\ verdict \in {"CANCELLED", "TIMEOUT", "BUDGET_EXCEEDED"}
      /\ verdict = "BUDGET_EXCEEDED" => status = "RUNNING"
      /\ status = "PENDING" => verdict = "CANCELLED"
  BY DEF Seal, ValuesOK, VerdictKnown, Authorized
<1>3. <<status, verdict>> \in Contract!Transitions
  BY <1>1, <1>2
     DEF Statuses, Underway, Waiting, Contract!Transitions, Contract!Terminal,
         Contract!Statuses, Contract!Underway
<1>4. status' = verdict /\ UNCHANGED <<intent, stage>>
  BY DEF Seal, Conclude, Write, Keep, outside
<1>5. QED
  BY <1>2, <1>3, <1>4, Moves

-----------------------------------------------------------------------------

\* Every step of the Run is a step of the contract or a stutter.
LEMMA StepAnswers ==
    ASSUME Valued, StatusAt, BoundaryAt, StepAt, Counted, Authorized, [Next]_vars
    PROVE  Answered
<1> USE DEF Valued
<1>1. CASE RecoverEnds \/ RecoverDrives \/ RecoverReturns \/ LoopEnds \/ LoopWaits \/ LoopAdvance
           \/ PrepareAborted \/ RestartBeforeOpen \/ PrepareFails \/ BudgetBlocks
           \/ BoundaryFails \/ ProviderAnswers \/ SettleEnds \/ SettleOverspent
           \/ SettleFinal \/ CommitRefused \/ ToolsFinish \/ ToolsAborted \/ ToolSettleEnds
           \/ CleanupConfirmed \/ CleanupUnconfirmed \/ Recover \/ ResolveApproval
           \/ ExpireApproval \/ CancelAborts \/ CancelLocked \/ DeadlinePasses
           \/ DeadlineFires \/ DeadlineLocked \/ BackoffElapses \/ BeginDrain
           \/ CheckpointActive \/ Exit \/ Crash \/ Restart
  <2>1. UNCHANGED <<status, intent, stage>>
    BY <1>1 DEF RecoverEnds, Terminate, NoWrite,
        ledger, Keep, outside, RecoverDrives, RecoverReturns, LoopEnds, LoopWaits,
        LoopAdvance, PrepareAborted, FinalizeAborted, RestartBeforeOpen, PrepareFails,
        BudgetBlocks, BoundaryFails, ProviderAnswers, SettleEnds, SettleOverspent,
        SettleFinal, CommitRefused, ToolsFinish, ToolsAborted, ToolSettleEnds,
        CleanupConfirmed, CleanupUnconfirmed, Recover, ResolveApproval, ExpireApproval,
        CancelAborts, Beside, CancelLocked, DeadlinePasses, DeadlineFires, DeadlineLocked,
        BackoffElapses, BeginDrain, CheckpointActive, Exit, Stop, Crash, Restart
  <2>2. QED
    BY <2>1, Stutters
<1>2. CASE RecoverBackoff \/ LoopTools \/ SettleTools \/ RetryTimerFires
  <2>1. UNCHANGED <<status, intent, stage>>
    BY <1>2 DEF RecoverBackoff, ResumeBackoff, Write, Keep, outside, LoopTools, SettleTools,
        RetryTimerFires, NoWrite, ledger, Terminate
  <2>2. QED
    BY <2>1, Stutters
<1>3. CASE RecoverMaxSteps
  <2>1. status = "RUNNING"
    <3>1. status \in Underway \/ status = "PENDING" \/ status \in Terminal
      BY DEF ValuesOK, Statuses
    <3>2. steps \in 0..MaxSteps /\ ~(steps < MaxSteps)
      BY <1>3, StepsAssumption DEF RecoverMaxSteps, Counted, CountsOK
    <3>3. status \notin Waiting
      BY <3>2 DEF Counted, Budgeted
    <3>4. QED
      BY <1>3, <3>1, <3>3 DEF RecoverMaxSteps, Recovering, StatusAt, Underway
  <2>2. QED
    BY <1>3, <2>1, RunningConcludes DEF RecoverMaxSteps, Keep, outside, Terminal
<1>4. CASE RecoverStaleStep
  BY <1>4, RunningConcludes DEF RecoverStaleStep, StepAt, Keep, outside, Terminal
<1>5. CASE LoopMaxSteps
  BY <1>5, RunningConcludes DEF LoopMaxSteps, StatusAt, Keep, outside, Terminal, Routing
<1>6. CASE PreflightFails
  BY <1>6, RunningConcludes DEF PreflightFails, StatusAt, Keep, outside, Terminal
<1>7. CASE SettleFatal
  BY <1>7, RunningConcludes DEF SettleFatal, StatusAt, Keep, outside, Terminal, Settling
<1>8. CASE CommitCompletes
  BY <1>8, RunningConcludes DEF CommitCompletes, StatusAt, Keep, outside, Terminal
<1>9. CASE SettleRetry
  <2>1. status = "RUNNING" /\ UNCHANGED <<intent, stage>>
    BY <1>9 DEF SettleRetry, SettlingRetry, Settling, StatusAt, Keep, outside
  <2>2. ASSUME NEW t, NEW a, NEW late, Checkpoint(t, a, late) PROVE Answered
    BY <2>1, <2>2, Stutters DEF Checkpoint, Write
  <2>3. CASE Conclude("MAX_STEPS_REACHED") \/ Conclude("FAILED")
    BY <2>1, <2>3, RunningConcludes DEF Terminal
  <2>4. QED
    BY <1>9, <2>2, <2>3 DEF SettleRetry
<1>10. CASE ToolsFail
  <2>1. status = "RUNNING" /\ UNCHANGED <<intent, stage>>
    BY <1>10 DEF ToolsFail, StatusAt, outside
  <2>2. CASE Conclude("FAILED")
    BY <2>1, <2>2, RunningConcludes DEF Terminal
  <2>3. CASE FinalizeAborted \/ NoWrite
    BY <2>1, <2>3, AbortWritesNothing, Stutters DEF NoWrite, ledger
  <2>4. QED
    BY <1>10, <2>2, <2>3 DEF ToolsFail
<1>11. CASE ToolsSettle
  <2>1. status = "RUNNING" /\ UNCHANGED <<intent, stage>>
    BY <1>11 DEF ToolsSettle, StatusAt, Keep, outside
  <2>2. status' \in {"RUNNING", "WAITING_APPROVAL", "WAITING_RESOURCE"}
    BY <1>11, <2>1 DEF ToolsSettle, ToolOutcome, Write
  <2>3. CASE status' = "RUNNING"
    BY <2>1, <2>3, Stutters
  <2>4. CASE status' # "RUNNING"
    <3>1. <<status, status'>> \in Contract!Transitions
      BY <2>1, <2>2, <2>4
         DEF Contract!Transitions, Contract!Statuses, Contract!Underway, Contract!Terminal
    <3>2. QED
      BY <2>1, <2>2, <3>1, Moves
  <2>5. QED
    BY <2>3, <2>4
<1>12. CASE Seal
  BY <1>12, SealAnswers
<1>13. CASE ApprovalResumes
  <2>1. /\ status = "WAITING_APPROVAL" /\ UNCHANGED <<intent, stage>>
        /\ status' \in {status, "RUNNING"}
    BY <1>13 DEF ApprovalResumes, Write, StatusAt, Keep, outside
  <2>2. <<status, "RUNNING">> \in Contract!Transitions
    BY <2>1 DEF Contract!Transitions
  <2>3. QED
    BY <2>1, <2>2, Moves, Stutters
<1>14. CASE Start
  <2>1. /\ status = "PENDING" /\ UNCHANGED <<intent, stage>>
        /\ status' \in {status, "RUNNING"}
    BY <1>14 DEF Start, Terminate, NoWrite, ledger, Write, Keep, outside
  <2>2. <<status, "RUNNING">> \in Contract!Transitions
    BY <2>1 DEF Contract!Transitions
  <2>3. QED
    BY <2>1, <2>2, Moves, Stutters
<1>15. CASE ContinueResource
  <2>1. /\ status = "WAITING_RESOURCE" /\ UNCHANGED <<intent, stage>>
        /\ status' \in {status, "RUNNING"}
    BY <1>15 DEF ContinueResource, Terminate, NoWrite, ledger, Write, Keep, outside
  <2>2. <<status, "RUNNING">> \in Contract!Transitions
    BY <2>1 DEF Contract!Transitions
  <2>3. QED
    BY <2>1, <2>2, Moves, Stutters
<1>16. CASE SettleDeferred \/ CommitDeferred
  BY <1>16, DeferAnswers DEF SettleDeferred, CommitDeferred, ValuesOK
<1>17. CASE LoopHandoff
  <2>1. UNCHANGED <<status, intent>> /\ stage' = Recorded(Batch(seen)) /\ Batch(seen) # {}
    BY <1>17 DEF LoopHandoff, NoWrite, ledger, outside
  <2>2. Batch(seen) \in SUBSET Inputs /\ Unassigned
    BY <2>1 DEF Batch, Unassigned
  <2>3. Unassigned'
    BY <2>1, <2>2, HandoffKeepsDebt DEF ValuesOK
  <2>4. QED
    BY <2>1, <2>2, <2>3 DEF Answered, Contract!vars
<1>18. CASE OpenTurn
  <2>1. status = "RUNNING" /\ UNCHANGED <<status, intent>>
    BY <1>18 DEF OpenTurn, Write, StatusAt, outside
  <2>2. Unassigned' => Unassigned
    <3>1. PICK carried \in SUBSET {i \in Inputs : stage[i] = "RECORDED"} :
            stage' = [i \in Inputs |-> IF i \in carried THEN "ASSIGNED" ELSE stage[i]]
      BY <1>18 DEF OpenTurn
    <3>2. QED
      BY <3>1 DEF Unassigned
  <2>3. CASE Unassigned' = Unassigned
    BY <2>1, <2>3 DEF Answered, Contract!vars
  <2>4. CASE ~Unassigned'
    BY <2>1, <2>4 DEF Answered, Contract!Next, Contract!Discharge
  <2>5. QED
    BY <2>2, <2>3, <2>4 DEF Unassigned
<1>19. CASE AcceptInput
  <2>1. status \in Underway /\ ~intent /\ UNCHANGED <<status, intent>>
    BY <1>19 DEF AcceptInput, ledger
  <2>2. accepted + 1 \in Inputs
    BY <1>19, InputsAssumption DEF AcceptInput, Counted, CountsOK, Inputs
  <2>3. Unassigned'
    BY <1>19, <2>2 DEF AcceptInput, Unassigned, ValuesOK
  <2>4. QED
    BY <2>1, <2>3
       DEF Answered, Contract!Next, Contract!AcceptInput, Underway, Waiting, Contract!Underway
<1>20. CASE RequestCancellation
  <2>1. status \notin Terminal /\ intent' = TRUE /\ UNCHANGED <<status, stage>>
    BY <1>20 DEF RequestCancellation, Beside, ledger
  <2>2. Unassigned' = Unassigned
    BY <2>1 DEF Unassigned
  <2>3. QED
    BY <2>1, <2>2
       DEF Answered, Contract!Next, Contract!RequestCancellation, Terminal, Contract!Terminal
<1>21. CASE UNCHANGED vars
  BY <1>21, Stutters DEF vars, ledger, outside
<1> QED
  BY <1>1, <1>2, <1>3, <1>4, <1>5, <1>6, <1>7, <1>8, <1>9, <1>10, <1>11, <1>12, <1>13,
     <1>14, <1>15, <1>16, <1>17, <1>18, <1>19, <1>20, <1>21 DEF Next, Drives, Environment

\* Status only moves along RUN_STATUS_TRANSITIONS; no completion overtakes a
\* cancellation or an accepted correction.
THEOREM Refinement == Spec => ImplementsContract
<1>1. Init => Contract!Init
  BY DEF Init, Contract!Init, Unassigned
<1>2. IInv /\ [Next]_vars => [Contract!Next]_(Contract!vars)
  BY StepAnswers DEF Answered, IInv, Shaped
<1>3. QED
  BY <1>1, <1>2, Invariance, PTL DEF Spec, ImplementsContract, Contract!Spec
=========================================================================
