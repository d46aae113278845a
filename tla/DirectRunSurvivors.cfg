CONSTANTS
    Envs <- MCReporting
    Listeners <- MCListeners
    Statuses <- MCStatuses
    Samples <- MCSamples
    Limit = 1
    MayFork = TRUE
    Faults = {"kill", "try_wait"}
SPECIFICATION Spec
INVARIANT
    SurvivorsAreCounted
