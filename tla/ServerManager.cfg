\* The watchdog, the slowdown monitor, auto-start, one emergency stop.
SPECIFICATION FairSpec
CONSTANTS
    Callers = {}
    Stoppers = {"emergency"}
    Processes = {p1, p2, p3}
    NoProcess = none
    MaxRestarts = 2
    Hour = 1
    SlowPolls = 2
    CanFail = TRUE
INVARIANTS
    TypeOK
    RestartsLimited
    OneAtATime
    StopsWhatItFound
PROPERTIES
    StopLeavesNone
    ServerComesBack
