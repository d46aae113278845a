CONSTANTS
    Envs <- MCQuiet
    Listeners = {}
    Statuses <- MCStatuses
    Samples = {1}
    Limit = 1
    MayFork = FALSE
    Faults = {"bind", "spawn", "try_wait", "kill", "wait", "transport"}
    Codes = {1, 300}
    Workers = {"any"}
    Decoys = {}
    MaxRecords = 4
    MaxCode = 255
SPECIFICATION Spec
INVARIANTS
    CompletionIsProven
    JoinsOnlyTheDead
