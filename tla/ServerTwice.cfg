\* As ServerManager.cfg, with a restart by the API as well, without failures.
SPECIFICATION Spec
CONSTANTS
    Callers = {"api"}
    Stoppers = {"emergency"}
    Processes = {p1, p2, p3}
    NoProcess = none
    MaxRestarts = 2
    Hour = 1
    SlowPolls = 2
    CanFail = FALSE
INVARIANT
    OneServer
