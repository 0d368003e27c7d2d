---------------------------- MODULE RunContract ----------------------------
(***************************************************************************)
(* What one Caelush Run promises, without saying how it is executed:       *)
(*                                                                         *)
(*   - its status only moves along RUN_STATUS_TRANSITIONS                  *)
(*     (packages/agent/src/run/state/run-state-machine.ts);                *)
(*   - a cancellation intent is never withdrawn, is only recorded for a    *)
(*     Run that is not settled, and forbids COMPLETED;                     *)
(*   - a Run that owes the user an accepted correction cannot complete,    *)
(*     and corrections are only owed while the Run is under way.           *)
(*                                                                         *)
(* RunLifecycle implements it: see RunLifecycle!Contract.                  *)
(***************************************************************************)

VARIABLES
    status,     \* AgentRun.status
    intent,     \* a durable RunCancellationIntent exists
    owed        \* some accepted Run input was in no model turn yet

vars == <<status, intent, owed>>

Terminal == {"COMPLETED", "FAILED", "CANCELLED", "TIMEOUT",
             "MAX_STEPS_REACHED", "BUDGET_EXCEEDED"}

Underway == {"RUNNING", "WAITING_APPROVAL", "WAITING_RESOURCE"}

Statuses == {"PENDING", "VERIFYING"} \cup Underway \cup Terminal

\* The allowed-transition matrix, row by row.
Transitions ==
    ({"PENDING"} \X {"RUNNING", "CANCELLED"})
      \cup ({"RUNNING"} \X ((Terminal \cup Statuses) \ {"PENDING", "RUNNING"}))
      \cup ({"WAITING_APPROVAL"} \X {"RUNNING", "FAILED", "CANCELLED", "TIMEOUT"})
      \cup ({"WAITING_RESOURCE"} \X
              {"RUNNING", "WAITING_APPROVAL", "FAILED", "CANCELLED", "TIMEOUT"})
      \cup ({"VERIFYING"} \X
              {"COMPLETED", "RUNNING", "FAILED", "CANCELLED", "TIMEOUT", "BUDGET_EXCEEDED"})

Init == status = "PENDING" /\ intent = FALSE /\ owed = FALSE

\* Move to another status; only a Run with no intent and no debt completes.
Move(s) ==
    /\ <<status, s>> \in Transitions
    /\ s = "COMPLETED" => ~intent /\ ~owed
    /\ status' = s
    /\ UNCHANGED <<intent, owed>>

RequestCancellation ==
    /\ status \notin Terminal
    /\ intent' = TRUE
    /\ UNCHANGED <<status, owed>>

AcceptInput ==
    /\ status \in Underway
    /\ ~intent
    /\ owed' = TRUE
    /\ UNCHANGED <<status, intent>>

\* A model turn was opened with every outstanding correction in it.
Discharge ==
    /\ status = "RUNNING"
    /\ owed' = FALSE
    /\ UNCHANGED <<status, intent>>

Next ==
    \/ \E s \in Statuses : Move(s)
    \/ RequestCancellation
    \/ AcceptInput
    \/ Discharge

Spec == Init /\ [][Next]_vars
=============================================================================
