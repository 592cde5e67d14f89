CONSTANTS
    MaxMessages = 3
    History = 3
    MaxBacklog = 2
    Concurrency = 2
    MaxEvents = 2
    MaxCrashes = 1
    MaxOthers = 1
    MaxRefused = 1
    Followed = {2}
SPECIFICATION FairSpec
INVARIANTS
    TypeOK
    HandledOnceInOrder
    NoEventLost
    MissedOnlyByOverlap
PROPERTY PostedAreAnswered
CHECK_DEADLOCK FALSE
