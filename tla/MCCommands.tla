----------------------------- MODULE MCCommands -----------------------------
(* The commands of golangci-lint that work on a configuration: a migration    *)
(* with the run that follows it, one or two runs at once, or runs one after   *)
(* the other over the same cache.                                             *)
EXTENDS MCMigrate, MCLintRun, ResultCache

commandVars == <<migrateVars, lintVars, cacheVars>>

\* a imports b, which imports c and the external x.
MCImportsOf == [p \in AllPackages |->
    CASE p = "a" -> {"b", "unsafe"} [] p = "b" -> {"c", "x"} [] OTHER -> {}]

Init == \/ MigrateInit /\ LintIdle /\ CacheIdle
        \/ MigrateIdle /\ LintInit /\ CacheIdle
        \/ MigrateIdle /\ LintIdle /\ CacheInit

Next == \/ MigrateNext /\ UNCHANGED <<lintVars, cacheVars>>
        \/ LintNext /\ UNCHANGED <<migrateVars, cacheVars>>
        \/ CacheNext /\ UNCHANGED <<migrateVars, lintVars>>

Spec == Init /\ [][Next]_commandVars /\ LintFairness
=============================================================================
