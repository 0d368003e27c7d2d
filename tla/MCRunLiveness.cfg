SPECIFICATION FairSpec
CONSTANTS
    MaxSteps = 2
    MaxAttempts = 2
    MaxInputs = 1
    BatchMax = 1
    MaxFaults = 1
    MaxDrains = 1
    MaxSweeps = 1
PROPERTIES
    CancelTerminates
    DeadlineTerminates
    BackoffEnds
\* A settled Run stops for good.
CHECK_DEADLOCK FALSE
