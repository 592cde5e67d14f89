\* The TUI with its chat tab and one more client, four requests in all.
SPECIFICATION FairSpec
CONSTANTS
    Clients = {"tui", "api", "chat"}
    Chat = "chat"
    Presets = {"p"}
    InitialPresets = {}
    MaxSlots = 1
    ParallelSlots = {1, 2}
    InitialSettings <- MCSettings
    Updates <- MCUpdates
    MaxEntries = 2
    MaxRequests = 4
    MaxSpawns = 3
    MaxCrashes = 1
    MaxTasks = 1
    MaxBreaks = 1
INVARIANTS
    TypeOK
    DecidedOnce
    LimitExceededOnlyByOverlap
    RunAgainOnlyAfterFailure
PROPERTIES
    GuardedOnlyByApproval
    EveryoneIsAnswered
CHECK_DEADLOCK FALSE
