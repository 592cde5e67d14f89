\* Two jobs of any kind that a tool call can add, one restart, saves that may
\* fail.
SPECIFICATION FairSpec
CONSTANTS
    MaxJobs = 2
    MaxRestarts = 1
    MaxFailures = 2
    Kinds = {"once", "every", "daily", "naive"}
    SaveFaults = {"refused"}
INVARIANTS
    TypeOK
    FreeAfterPoll
PROPERTIES
    OverIsOver
    DueJobsFire
