--------------------------- MODULE MCRunLifecycle ---------------------------
(***************************************************************************)
(* What comments of the repository say of a Run and RunController does not *)
(* do. Each claim has a run in which TLC refutes it; README.md explains    *)
(* the counterexamples.                                                    *)
(***************************************************************************)
EXTENDS RunLifecycle

\* Somebody recovers an idle Run for ever. The daemon promises less (RunRecovery),
\* so that what fails here fails there.
TirelessSpec == Spec /\ Fairness /\ WF_vars(Recover)

\* packages/agent/src/run/continuation/continuation.ts: the steering checkpoint
\* is consumed by opening the next Step, and a restart re-reads it. A Run that
\* owes corrections is therefore always driven on or ended.
SteeringResumes ==
    cont.type = "WAITING_STEERING" ~> cont.type # "WAITING_STEERING"

\* apps/daemon/src/execution/run-liveness-sweeper.ts: once the approval expires,
\* the recovery the sweeper asks for resumes the Run.
ExpiredApprovalResumes ==
    status = "WAITING_APPROVAL" /\ approval = "EXPIRED" ~> status # "WAITING_APPROVAL"

\* packages/agent/src/run/default-run-transition-planner.ts: the observation
\* policy is snapshotted with the Tool requests, so that a later projection of
\* their results never falls back to what a restarted process defaults to.
ToolBoundaryKeepsPolicy ==
    cont.type \in {"WAITING_TOOL_RESULTS", "WAITING_RESOURCE"} => cont.policy

\* packages/core/src/run-controller.ts, prepareForShutdown: the aborted model
\* attempt is checkpointed and the driver gone before it returns.
RestartAbortSettles ==
    abort = "MANAGED_RESTART" ~> abort # "MANAGED_RESTART"

\* apps/daemon/src/daemon.ts, close: Core has committed every managed checkpoint
\* before the daemon goes on closing. A managed shutdown of a Run nobody
\* cancelled leaves no model attempt open.
ShutdownLeavesNoStep == lost => faults > 0 \/ intent \/ expired
=============================================================================
