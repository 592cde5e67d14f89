\* One interval job, one restart, every save succeeds.
SPECIFICATION FairSpec
CONSTANTS
    MaxJobs = 1
    MaxRestarts = 1
    MaxFailures = 3
    Kinds = {"every"}
    SaveFaults = {}
PROPERTY
    JobsSurviveRestarts
