SPECIFICATION Spec
CONSTANTS
    MaxSteps = 3
    MaxAttempts = 2
    MaxInputs = 2
    BatchMax = 1
    MaxFaults = 1
    MaxDrains = 1
INVARIANTS
    TypeOK
    NoCorrectionSkipped
    CancelWins
    LostStepNotResent
    StepBudget
    CorrectionsInOrder
    SnapshotCoherent
    NoOrphanApproval
    StepLossExplained
    RetryKeepsPurpose
    EndsByAuthority
PROPERTIES
    FreshDispatch
    ImplementsContract
\* A settled Run stops for good.
CHECK_DEADLOCK FALSE
