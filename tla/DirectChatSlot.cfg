CONSTANTS
    Turns = {t1, t2}
    Concurrency = 2
    MaxIterations = 2
    MaxTries = 2
    MinMessages = 3
    Kept = 2
    NoTurn = NoTurn
SPECIFICATION Spec
INVARIANT SlotUsedByOne
CHECK_DEADLOCK FALSE
