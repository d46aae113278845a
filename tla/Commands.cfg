SPECIFICATION Spec
CONSTANTS
    Worlds <- MCWorlds
    MaxMigrations = 2
    Runners = {"p", "q"}
    Inputs <- MCInputs
    MaxTries = 2
    Linted = {"a", "b", "c"}
    External = {"x"}
    ImportsOf <- MCImportsOf
    Outside = {"c"}
    Versions = {"v1", "v2", "bad"}
    MaxChanges = 2
    MaxCacheRuns = 3
INVARIANTS
    MigrationKeepsLinters
    MigratedConfigLoads
    V1ConfigSurvives
    ExitCodeIsHonest
    CleanExitMeansItCompiles
    NarrowingHidesNothing
    UnusedDirectivesHideNothing
    CachedIssuesAreFresh
PROPERTIES
    RunnersFinish
CHECK_DEADLOCK FALSE
