-------------------------- MODULE MCToolExecution --------------------------
(***************************************************************************)
(* Three calls of a turn for TLC: two the model may have got wrong or that *)
(* may share a window, and one that changes the world.                     *)
(***************************************************************************)
EXTENDS ToolExecution

MCBatches == {<<"PARALLEL_SAFE", "PARALLEL_SAFE", "MAY_MUTATE">>,
              <<"PARALLEL_SAFE", "PARALLEL_SAFE", "PARALLEL_SAFE">>,
              <<"PARALLEL_SAFE", "READ_ONLY", "MAY_MUTATE">>,
              <<"PARALLEL_SAFE", "UNPREPARED", "MAY_MUTATE">>,
              <<"MODEL_REJECTED", "READ_ONLY", "MAY_MUTATE">>}

MCPolicy == <<{"ALLOW", "REQUIRE_APPROVAL"},
              {"ALLOW"},
              {"REQUIRE_APPROVAL", "DENY"}>>

MCKey == <<1, 2, 1>>

\* What comments of the repository say of Tool execution and it does not do.

\* packages/agent/src/tools/durable/durable-execution-coordinator.ts: no crash
\* can leave a RUNNING invocation whose budget was never started.
RunningHasBudget ==
    \A c \in Calls : invocation[c] = "RUNNING" => ledger[c] \in {"IN_FLIGHT", "CONSERVATIVE"}

\* packages/agent/src/tools/batch/batch-coordinator.ts: a later sibling never
\* runs before the decision on a call that is parked on approval.
SiblingWaitsForDecision ==
    \A b, c \in Calls : b < c /\ approval[b] = "PENDING" => effects[c] = 0
=============================================================================
