SPECIFICATION Spec
CONSTANTS
    SafeParts <- MCSafeParts
    SafeNames <- MCSafeNames
    Options <- MCOptions
    Manifests <- MCManifests
    Reports = {"r1", "r2"}
    Trees = {"fixed", "other"}
    Procs = {p1, p2}
    Forking = {p1}
    Codes = {0}
    Faults <- MCFaults
INVARIANTS
    SamplesAreAsLabelled
    WorkloadRestored
    WorktreesAccountedFor
    KilledIsReported
    OrphansAreCounted
PROPERTY
    ExecutionEnds
CHECK_DEADLOCK FALSE
