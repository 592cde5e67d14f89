SPECIFICATION FairSpec
CONSTANTS
    MaxSteps = 3
    MaxRetries = 1
    MaxCheckpoints = 2
    PlanLengths = {0, 4}
    EventCategories = {"failed_actions"}
    Injectable = {"nudge", "escalate_to_user"}
    Options <- MCOptions
INVARIANTS
    TypeOK
    ReportedInOrder
    ContextTellsReports
    RetriesBeforeGivingUp
    NewestIsCurrent
    CheckpointsCapped
    NothingLeftBehind
    VerdictIsEarned
PROPERTIES
    RollbackIsClean
    KeepsPromise
    RunEnds
