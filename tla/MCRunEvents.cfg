SPECIFICATION Spec
CONSTANTS
    PageSize = 2
    MaxPending = 2
    MaxSeen = 3
    MaxAttempts = 2
    WireSize = 1
    MaxEvents = 5
    MaxInFlight = 3
    MaxTransients = 2
    MaxBreaks = 2
INVARIANTS
    TypeOK
    MissesOnlySilent
    OrderVerified
PROPERTIES
    ImplementsFeed
    CatchesUp
\* Once every event is delivered nothing need happen.
CHECK_DEADLOCK FALSE
