SPECIFICATION Spec
CONSTANTS
    Pkgs <- MCPkgs
    Imports <- MCTwoChains
    Initial = {m, n}
    Analyzers = {F, L, Insp}
    Configured = {F, L}
    Requires <- MCFreeRequires
    FactUsers = {F}
    LoadSlots = 2
    Preloaded = {r}
    Broken = {t}
    Unparsed = {t}
    BadExport = {t}
    NoVersion = {s}
    FailureKinds = {}
    MaxRuns = 2
    m = m
    n = n
    r = r
    s = s
    t = t
    F = F
    L = L
    Insp = Insp
INVARIANTS
    CleanReportMeansAnalyzed
    ErrorsShowOnRepeatedRuns
