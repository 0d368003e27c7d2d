SPECIFICATION TirelessSpec
CONSTANTS
    MaxSteps = 2
    MaxAttempts = 2
    MaxInputs = 0
    BatchMax = 1
    MaxFaults = 0
    MaxDrains = 0
PROPERTY
    ExpiredApprovalResumes
\* A settled Run stops for good.
CHECK_DEADLOCK FALSE
