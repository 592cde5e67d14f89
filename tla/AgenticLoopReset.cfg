SPECIFICATION Spec
CONSTANTS
    MaxSteps = 2
    MaxRetries = 1
    MaxCheckpoints = 2
    PlanLengths = {2}
    EventCategories = {"failed_actions"}
    Injectable = {}
    Options <- MCDefaultOptions
INVARIANT ResetStepsAreRetried
