SPECIFICATION TirelessSpec
CONSTANTS
    MaxSteps = 2
    MaxAttempts = 2
    MaxInputs = 1
    BatchMax = 1
    MaxFaults = 0
    MaxDrains = 1
PROPERTY
    RestartAbortSettles
\* A settled Run stops for good.
CHECK_DEADLOCK FALSE
