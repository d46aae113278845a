CONSTANTS
    Envs <- MCEnvs
    Listeners <- MCListeners
    Statuses <- MCStatuses
    Samples <- MCSamples
    Limit = 1
    MayFork = TRUE
    Faults = {"handler", "spawn", "try_wait", "kill", "wait", "panic", "report"}
SPECIFICATION FairSpec
INVARIANTS
    NoProcessLeftBehind
    VerdictStands
PROPERTY
    StopsWhenAsked
