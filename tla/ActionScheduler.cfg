SPECIFICATION FairSpec
CONSTANTS
    Pkgs <- MCPkgs
    Actions <- MCActions
    PkgOf <- MCPkgOf
    Deps <- MCDeps
    PoolSize = 2
    p1 = p1
    p2 = p2
    p3 = p3
    a = a
    b = b
    c = c
    d = d
    x = x
    y = y
    z = z
INVARIANTS
    NothingOutlivesTheCall
    UnschedulableMeansCycle
    OkMeansComplete
PROPERTIES
    ImplementsActionGraph
    NoLaunchAfterFirstError
    PoolDrains
