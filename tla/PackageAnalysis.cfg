SPECIFICATION FairSpec
CONSTANTS
    Pkgs <- MCPkgs
    Imports <- MCFork
    Initial = {m, n}
    Analyzers = {F, L, Insp}
    Configured = {F, L}
    Requires <- MCRequires
    FactUsers = {F}
    LoadSlots = 2
    Preloaded = {}
    Broken = {}
    Unparsed = {}
    BadExport = {}
    NoVersion = {}
    FailureKinds = {"plain", "panic"}
    MaxRuns = 1
    m = m
    n = n
    r = r
    s = s
    t = t
    F = F
    L = L
    Insp = Insp
INVARIANTS
    RunsOnGoodDeps
    FreedAfterLastUse
    InputsComplete
    CleanReportMeansAnalyzed
PROPERTIES
    Terminates
