CONSTANTS
    Envs <- MCEnvs
    Listeners = {"int"}
    Statuses <- MCStatuses
    Samples = {2}
    Limit = 1
    MayFork = FALSE
    Faults = {}
    Codes = {1, 300}
    Workers = {"go"}
    Decoys = {"decoy"}
    MaxRecords = 0
    MaxCode = 511
SPECIFICATION FairSpec
INVARIANTS
    HonestRunSucceeds
    StateKeptWhileRunning
PROPERTY
    SessionEnds
ACTION_CONSTRAINT
    MCOneCause
