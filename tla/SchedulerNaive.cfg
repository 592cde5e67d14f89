\* Two jobs, no restart, every save succeeds.
SPECIFICATION FairSpec
CONSTANTS
    MaxJobs = 2
    MaxRestarts = 0
    MaxFailures = 3
    Kinds = {"every", "naive"}
    SaveFaults = {}
PROPERTY
    DueJobsAreTriggered
