SPECIFICATION Spec
CONSTANTS
    Patches <- MCPatches
    Files <- MCFiles
    Dir <- MCDir
    InitialDirs = {"src"}
    Repetitive = {}
    MaxFaults = 3
    MaxEdits = 2
INVARIANTS
    TypeOK
    SuccessIsApplied
    FailureIsClean
    SingleFaultRecovers
    WorkspaceIsPrefix
    MatchedIsApplied
\* A patch is answered and that is all.
CHECK_DEADLOCK FALSE
