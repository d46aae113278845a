SPECIFICATION Spec
CONSTANTS
    Pkgs <- MCPkgs
    Imports <- MCChain
    Initial = {m}
    Analyzers = {F, L, Insp}
    Configured = {F, L}
    Requires <- MCRequires
    FactUsers = {F}
    LoadSlots = 2
    Preloaded = {}
    Broken = {}
    Unparsed = {}
    BadExport = {}
    NoVersion = {s}
    FailureKinds = {}
    MaxRuns = 1
    m = m
    n = n
    r = r
    s = s
    t = t
    F = F
    L = L
    Insp = Insp
INVARIANT
    LoadErrorsAreReported
