---------------------------- MODULE RunRecovery -----------------------------
(***************************************************************************)
(* Who takes a Run up again when its driver is gone: the reconciliation    *)
(* that runs once after the daemon has started, and the liveness sweeper,  *)
(* which keeps looking but gives up after MaxSweeps attempts of one status *)
(* episode. An attempt is spent also when the recovery does nothing, so    *)
(* that a Run in a healthy wait uses them up. Both forget everything with  *)
(* the process. The Run itself is RunLifecycle's.                          *)
(***************************************************************************)
EXTENDS RunLifecycle

CONSTANT MaxSweeps      \* maxAttemptsPerRun of the liveness policy

ASSUME SweepsAssumption == MaxSweeps \in Nat

VARIABLES
    reconciled,     \* the reconciliation of this daemon has looked at the Run
    watched,        \* Observation.status, "NONE" when there is no observation
    attempts        \* Observation.attempts

memory   == <<reconciled, watched, attempts>>
sweptVars == <<vars, memory>>

Nothing == reconciled' = FALSE /\ watched' = "NONE" /\ attempts' = 0

SweptInit == Init /\ reconciled = FALSE /\ watched = "NONE" /\ attempts = 0

-----------------------------------------------------------------------------
(* Mutated forms of what follows *)

SweepObservesRunning ==
    /\ up /\ ~draining /\ reconciled
    /\ ~supervised /\ status = "RUNNING" /\ watched # status
    /\ watched' = status /\ attempts' = 0
    /\ UNCHANGED <<vars, reconciled>>

-----------------------------------------------------------------------------
(* The requests for a recovery *)

\* Supervisor.recover. A driver the Supervisor does not know of (a timer, a
\* cancellation) holds the lock: the recovery fails as busy.
AskRecovery == IF pc = "idle" THEN Recover ELSE UNCHANGED vars

\* reconcileStaleRuns, once per daemon, with nothing remembered of the answer.
Reconcile ==
    /\ up /\ ~draining /\ ~reconciled
    /\ reconciled' = TRUE
    /\ IF status \in Underway /\ ~supervised THEN AskRecovery ELSE UNCHANGED vars
    /\ UNCHANGED <<watched, attempts>>

\* One tick of the sweeper. It starts after the reconciliation and is stopped
\* before the daemon drains.
Sweeping == up /\ ~draining /\ reconciled /\ status \in Underway

SweepSeesDriver ==
    /\ Sweeping /\ supervised /\ watched # "NONE"
    /\ watched' = "NONE" /\ attempts' = 0
    /\ UNCHANGED <<vars, reconciled>>

\* A status seen for the first time opens an episode: its silence is awaited.
SweepObserves ==
    /\ Sweeping /\ ~supervised /\ watched # status
    /\ watched' = status /\ attempts' = 0
    /\ UNCHANGED <<vars, reconciled>>

\* The silence window and the cooldown are over.
SweepRecovers ==
    /\ Sweeping /\ ~supervised /\ watched = status
    /\ attempts < MaxSweeps
    /\ attempts' = attempts + 1
    /\ AskRecovery
    /\ UNCHANGED <<watched, reconciled>>

-----------------------------------------------------------------------------

\* The Run's own steps. The API's call of Recover is among them.
RunSteps ==
    /\ Next
    /\ IF up' THEN UNCHANGED memory ELSE Nothing

SweptNext == RunSteps \/ Reconcile \/ SweepSeesDriver \/ SweepObserves \/ SweepRecovers

SweptSpec == SweptInit /\ [][SweptNext]_sweptVars

\* The interval timer ticks until the daemon closes. A user's recovery is
\* nobody's duty.
SweptFairness ==
    /\ Fairness
    /\ WF_sweptVars(Reconcile) /\ WF_sweptVars(SweepObserves) /\ WF_sweptVars(SweepRecovers)

FairSpec == SweptSpec /\ SweptFairness

-----------------------------------------------------------------------------
(* Liveness, under FairSpec *)

\* The sweeper has given the Run up, after a failure: nobody but the user or
\* the next daemon takes it up again.
Forsaken ==
    /\ up /\ pc = "idle" /\ status \in Underway
    /\ watched = status /\ attempts = MaxSweeps
    /\ faults > 0

\* Only a Run that is forsaken for good keeps its cancellation unserved, whatever
\* it was doing and even when the process dies between the request and the
\* termination. Its attempts were used up, by healthy waits also, before one
\* failure (a cleanup that is not confirmed) took its canceller's driver away.
CancelTerminates ==
    <>[](intent /\ status \in Underway) => <>[]Forsaken

\* Only such a Run outlives its deadline, in whatever wait it was: the timer
\* fires once, and a load after the deadline disarms it.
DeadlineTerminates ==
    <>[](expired /\ status \in Underway) => <>[]Forsaken

\* Only such a Run stays in a backoff, which its timer ends or, when a shutdown
\* disarmed the timer or the process took it along, the next daemon's
\* reconciliation.
BackoffEnds ==
    <>[](cont.type \in Backoff /\ ~cont.late) => <>[]Forsaken
=============================================================================
