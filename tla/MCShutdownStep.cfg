SPECIFICATION Spec
CONSTANTS
    MaxSteps = 2
    MaxAttempts = 2
    MaxInputs = 0
    BatchMax = 1
    MaxFaults = 0
    MaxDrains = 1
INVARIANT
    ShutdownLeavesNoStep
\* A settled Run stops for good.
CHECK_DEADLOCK FALSE
