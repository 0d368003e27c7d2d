SPECIFICATION Spec
CONSTANTS
    N = 3
    Batches <- MCBatches
    Policy <- MCPolicy
    Key <- MCKey
    Windowed = TRUE
    MaxConcurrency = 2
    Limits = {2, 6}
    MaxCrashes = 1
INVARIANT RunningHasBudget
CHECK_DEADLOCK FALSE
