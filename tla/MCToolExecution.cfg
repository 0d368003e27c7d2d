SPECIFICATION Spec
CONSTANTS
    N = 3
    Batches <- MCBatches
    Policy <- MCPolicy
    Key <- MCKey
    Windowed = TRUE
    MaxConcurrency = 2
    Limits = {2, 6}
    MaxCrashes = 2
INVARIANTS
    TypeOK
    HandlerRunsAtMostOnce
    UnapprovedNeverRan
    StartedIsAccounted
    PreflightSuffices
    SettledTurnReleases
    SettledTurnAnswersAll
    OutcomesAsAssumed
    BarrierHolds
    EffectsInOrder
PROPERTIES
    DecisionsStand
    ImplementsEffects
    TurnEnds
\* A settled turn stops.
CHECK_DEADLOCK FALSE
