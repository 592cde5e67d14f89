\* Two different calls, one or two per response; the default thresholds.
SPECIFICATION FairSpec
CONSTANTS
    MaxRepeated = 3
    MaxFailed = 3
    MaxNoProgress = 3
    MaxEmpty = 2
    MaxGiveUp = 1
    HistoryLength = 3
    ProgressLength = 3
    Steps = 3
    MaxRetries = 2
    MaxIterations = 2
    Calls = {c1, c2}
    Batches <- MCBatches
    Outputs = {o1, o2}
    Answers = {a1}
INVARIANTS
    TypeOK
    NoRunaway
    FailuresStop
PROPERTIES
    GivenUpRunsNoTools
    StepEnds
CHECK_DEADLOCK FALSE
