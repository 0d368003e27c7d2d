SPECIFICATION TirelessSpec
CONSTANTS
    MaxSteps = 2
    MaxAttempts = 2
    MaxInputs = 1
    BatchMax = 1
    MaxFaults = 1
    MaxDrains = 0
PROPERTY
    SteeringResumes
\* A settled Run stops for good.
CHECK_DEADLOCK FALSE
