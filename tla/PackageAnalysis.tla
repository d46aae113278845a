-------------------------- MODULE PackageAnalysis --------------------------
(***************************************************************************)
(* runner.analyze (pkg/goanalysis/runner.go) and loadingPackage            *)
(* (runner_loadingpackage.go): one goroutine per package waits for the     *)
(* imports, takes a slot of loadSem, loads the package, runs its action    *)
(* graph, persists the facts, cancels everything after an error, and frees *)
(* what no importer needs any more.  The graphs run as ActionGraph says.   *)
(* action.analyze is runner_checker.go, the facts cache is                 *)
(* runner_action_cache.go.                                                 *)
(*                                                                         *)
(* The facts of an action are abstracted to the set of packages they       *)
(* describe.  An error is "wrapped" when errors.Unwrap finds a cause in    *)
(* it, "plain" or "panic" when not.                                        *)
(***************************************************************************)
EXTENDS ActionDag

CONSTANTS
    LoadSlots,    \* GOMAXPROCS, the capacity of loadSem
    Preloaded,    \* packages with TypesInfo already there
    Broken,       \* packages that do not compile by themselves
    Unparsed,     \* those of them with errors before type checking
    BadExport,    \* packages whose export data is missing or unreadable
    NoVersion,    \* loadFromSource fails: no Go version for the package
    FailureKinds, \* how an analyzer may fail
    MaxRuns       \* how often golangci-lint is run

ASSUME AnalysisAssumption ==
    /\ LoadSlots \in Nat \ {0}
    /\ Preloaded \cup Broken \cup BadExport \cup NoVersion \subseteq Pkgs
    /\ Unparsed \subseteq Broken
    /\ FailureKinds \subseteq {"plain", "wrapped", "panic"}
    /\ MaxRuns \in Nat \ {0}

VARIABLES
    status, ctxDone, live, outcome,   \* see ActionGraph
    gp,          \* where each package's goroutine is
    sem,         \* slots taken in loadSem
    types,       \* pkg.Types: "nil", "export" or "source"
    illTyped,    \* pkg.IllTyped
    pkgErrors,   \* pkg.Errors is not empty
    dependents,  \* lp.dependents
    calls,       \* decUse calls that a goroutine still has to make: <<r, q>> is one of
                 \* q because r is freed, or q's own when r = q
    needSource,  \* act.needAnalyzeSource
    pass,        \* act.pass # nil
    ran,         \* the action's Analyzer.Run was called (a history variable)
    err,         \* act.Err
    result,      \* act.Result # nil
    facts,       \* act.objectFacts and act.packageFacts
    hasDeps,     \* act.Deps # nil
    cache,       \* the facts on disk, by action: "none", "whole", or "partial" when
                 \* the action that left them had failed
    report,      \* what runner.run returned
    runs         \* how many processes have analyzed the packages

G == INSTANCE ActionGraph WITH Pkgs <- LoadingPackages

gvars == <<status, ctxDone, live, outcome>>
pvars == <<types, illTyped, pkgErrors>>
avars == <<pass, ran, err, result, hasDeps>>
out   == <<report, runs>>
vars  == <<gvars, gp, sem, pvars, dependents, calls, needSource, avars, facts, cache, out>>

ActionsOf(p) == {k \in Actions : k[2] = p}

\* What loadWithFacts finds in pkg.Types, IllTyped and Errors.
StartTypes    == [p \in LoadingPackages |-> IF p \in Preloaded THEN "source" ELSE "nil"]
StartIllTyped == [p \in LoadingPackages |-> p \in Preloaded \cap Broken]
StartCounts   == [p \in LoadingPackages |-> 1 + Cardinality(Importers(p))]
NoCalls       == [p \in LoadingPackages |-> {}]

Init ==
    /\ G!GInit
    /\ gp = [p \in LoadingPackages |-> "idle"]
    /\ sem = 0
    /\ types = StartTypes /\ illTyped = StartIllTyped /\ pkgErrors = StartIllTyped
    /\ dependents = StartCounts /\ calls = NoCalls
    /\ needSource = {k \in Actions : k[2] \in Initial}
    /\ pass = {} /\ ran = {} /\ result = {}
    /\ err = [k \in Actions |-> "none"]
    /\ facts = [k \in Actions |-> {}]
    /\ hasDeps = Actions
    /\ \E stored \in SUBSET {k \in Actions : UsesFacts(k) /\ k[2] \notin Initial} :
          cache = [k \in Actions |-> IF k \in stored THEN "whole" ELSE "none"]
    /\ report = "none"
    /\ runs = 1

Goto(p, from, to) == gp[p] = from /\ gp' = [gp EXCEPT ![p] = to]

\* analyzeRecursive: called by runner.analyze and by every importer; the
\* first call does the work.
Enter(p) ==
    /\ Goto(p, "idle", "wait")
    /\ p \in Initial \/ \E r \in Importers(p) : gp[r] # "idle"
    /\ UNCHANGED <<gvars, sem, pvars, dependents, calls, needSource, avars, facts, cache, out>>

\* wg.Wait(): all imports are done.
ImportsDone(p) == \A q \in Imports[p] : gp[q] = "done"

Join(p) ==
    /\ Goto(p, "wait", "select")
    /\ ImportsDone(p)
    /\ UNCHANGED <<gvars, sem, pvars, dependents, calls, needSource, avars, facts, cache, out>>

\* analyze: case <-ctx.Done().
MutSkip(p) ==
    /\ Goto(p, "select", "wait")
    /\ ctxDone
    /\ UNCHANGED <<gvars, sem, pvars, dependents, calls, needSource, avars, facts, cache, out>>
Skip(p) ==
    /\ Goto(p, "select", "done")
    /\ ctxDone
    /\ UNCHANGED <<gvars, sem, pvars, dependents, calls, needSource, avars, facts, cache, out>>

\* analyze: case loadSem <- struct{}{}; chosen even when ctx is done.
Acquire(p) ==
    /\ Goto(p, "select", "load")
    /\ sem < LoadSlots
    /\ sem' = sem + 1
    /\ UNCHANGED <<gvars, pvars, dependents, calls, needSource, avars, facts, cache, out>>

\* Facts an action takes over from the imported packages (inheritFacts).
Inherited(k) == UNION {facts[d] : d \in VerticalDeps(k)}

\* readCachedFacts: the actions of an imported package without cached facts.
Missing(p) == {k \in ActionsOf(p) : p \notin Initial /\ UsesFacts(k) /\ cache[k] = "none"}

\* markDepsForAnalyzingSource: what they require is analyzed as well.
Marked(p) == Reachable(Missing(p), [k \in ActionsOf(p) |-> HorizontalDeps(k)])

\* loadFromSource finds errors in p itself or meets an import it cannot use.
CompileErrors(p) ==
    p \in Broken \/ \E q \in Imports[p] : pkgErrors[q] \/ types[q] = "nil"

\* Nobody has set pkg.Types when the files of an initial package are parsed.
Untyped(p) == p \in Unparsed \cap Initial

\* loadFromSource returns an error: no Go version to check the package with.
SourceFails(p) == p \in NoVersion \ Unparsed

\* The effect of loadFromSource on the package, unless it fails; `extra` are
\* errors the caller adds.
FromSource(p, extra) ==
    /\ ~SourceFails(p)
    /\ types' = IF Untyped(p) THEN types ELSE [types EXCEPT ![p] = "source"]
    /\ pkgErrors' = [pkgErrors EXCEPT ![p] = CompileErrors(p) \/ extra]
    /\ illTyped' = [illTyped EXCEPT ![p] =
            CompileErrors(p) \/ \E q \in Imports[p] : illTyped[q]]

\* applyCachedFacts, for the actions that stay with their cached facts.
MutApplyCachedFacts(p, kept) ==
    facts' = [k \in Actions |-> IF k \in kept /\ UsesFacts(k) THEN {p} ELSE facts[k]]
ApplyCachedFacts(p, kept) ==
    facts' = [k \in Actions |-> IF k \in kept /\ UsesFacts(k)
                                THEN Inherited(k) \cup {q \in {p} : cache[k] = "whole"}
                                ELSE facts[k]]

MutExportReadable(p) == TRUE
ExportReadable(p) == p \notin BadExport /\ \A q \in Imports[p] : types[q] # "nil"

\* The package is loaded: runActionGraph is called.
CallGraph(p) ==
    /\ Goto(p, "load", "graph")
    /\ live' = IF ctxDone THEN live ELSE live \cup {p}

\* loadWithFacts returns an error: every action of the package gets it.
LoadFails(p, from) ==
    /\ from = "source" /\ SourceFails(p)
    /\ Goto(p, "load", "dec")
    /\ calls' = [calls EXCEPT ![p] = {<<p, p>>}]
    /\ types' = [types EXCEPT ![p] = "source"]
    /\ illTyped' = [illTyped EXCEPT ![p] = TRUE]
    /\ err' = [k \in Actions |-> IF k[2] = p THEN "wrapped" ELSE err[k]]
    /\ UNCHANGED <<live, pkgErrors, facts>>

\* loadWithFacts for a package with types.
LoadPreloaded(p) ==
    /\ p \in Preloaded
    /\ CallGraph(p)
    /\ needSource' = needSource \cup Marked(p)
    /\ ApplyCachedFacts(p, {k \in ActionsOf(p) : p \notin Initial /\ k \notin Missing(p)})
    /\ UNCHANGED <<status, ctxDone, outcome, sem, pvars, dependents, calls, avars, cache, out>>

\* loadWithFacts for an initial package.
LoadInitial(p) ==
    /\ p \in Initial \ Preloaded
    /\ \/ LoadFails(p, "source")
       \/ /\ CallGraph(p)
          /\ FromSource(p, FALSE)
          /\ UNCHANGED <<calls, err, facts>>
    /\ UNCHANGED <<status, ctxDone, outcome, sem, dependents, needSource, pass, ran, result,
                   hasDeps, cache, out>>

\* loadImportedPackageWithFacts.
LoadImported(p) ==
    LET marked == Marked(p)
        kept   == ActionsOf(p) \ (needSource \cup marked)
    IN  /\ p \notin Initial \cup Preloaded
        /\ needSource' = needSource \cup marked
        /\ \/ LoadFails(p, IF Missing(p) # {} \/ ~ExportReadable(p) THEN "source" ELSE "export")
           \/ /\ CallGraph(p)
              /\ \/ /\ Missing(p) # {}
                    /\ FromSource(p, FALSE)
                    /\ ApplyCachedFacts(p, kept)
                 \/ /\ Missing(p) = {} /\ ExportReadable(p)
                    /\ types' = [types EXCEPT ![p] = "export"]
                    /\ ApplyCachedFacts(p, kept)
                    /\ UNCHANGED <<illTyped, pkgErrors>>
                 \/ /\ Missing(p) = {} /\ ~ExportReadable(p)
                    /\ FromSource(p, TRUE)
                    /\ UNCHANGED facts
              /\ UNCHANGED <<calls, err>>
        /\ UNCHANGED <<status, ctxDone, outcome, sem, dependents, pass, ran, result, hasDeps,
                       cache, out>>

\* action.analyze notices a failed dependency only through errors.Unwrap.
FailedPrerequisites(k) == \E d \in Deps[k] : err[d] = "wrapped"

\* A worker begins action.analyze.
StartAction(k) ==
    LET called == k \in needSource /\ ~FailedPrerequisites(k)
    IN  /\ gp[k[2]] = "graph"
        /\ G!Start(k)
        /\ pass' = IF called THEN pass \cup {k} ELSE pass
        /\ ran' = IF called /\ ~illTyped[k[2]] THEN ran \cup {k} ELSE ran
        /\ facts' = IF called THEN [facts EXCEPT ![k] = Inherited(k)] ELSE facts
        /\ UNCHANGED <<gp, sem, pvars, dependents, calls, needSource, err, result, hasDeps,
                       cache, out>>

\* How action.analyze can end.
Ends(k) ==
    IF k \in ran THEN {"none"} \cup FailureKinds
    ELSE {IF k \in needSource THEN "wrapped" ELSE "none"}

\* action.analyzeSafe returns.  The facts of a failed run are incomplete.
FinishAction(k) ==
    /\ G!Finish(k)
    /\ \E e \in Ends(k) :
          /\ err' = [err EXCEPT ![k] = e]
          /\ status'[k] = (IF e = "none" THEN "ok" ELSE "err")
          /\ result' = IF k \in ran /\ e = "none" THEN result \cup {k} ELSE result
          /\ facts' = IF k \in ran /\ e = "none" /\ UsesFacts(k)
                      THEN [facts EXCEPT ![k] = @ \cup {k[2]}] ELSE facts
    /\ UNCHANGED <<gp, sem, pvars, dependents, calls, needSource, pass, ran, hasDeps, cache, out>>

\* runActionGraph returns.
ReturnGraph(p) ==
    /\ Goto(p, "graph", "persist")
    /\ G!Return(p)
    /\ UNCHANGED <<sem, pvars, dependents, calls, needSource, avars, facts, cache, out>>

\* if err != nil { cancel() }
MutCancels(p) == FALSE
Cancels(p) == outcome[p] \in {"failed", "unschedulable"}

\* persistFactsToCache, and the end of analyze.
Persist(p) ==
    LET analyzed == {k \in ActionsOf(p) : UsesFacts(k) /\ k \in needSource}
    IN  /\ Goto(p, "persist", "dec")
        /\ cache' = [k \in Actions |->
                CASE k \notin analyzed -> cache[k]
                  [] k \in analyzed \ pass -> "none"
                  [] k \in analyzed \cap pass -> IF err[k] = "none" THEN "whole" ELSE "partial"]
        /\ IF Cancels(p) THEN G!Cancel ELSE UNCHANGED gvars
        /\ calls' = [calls EXCEPT ![p] = {<<p, p>>}]
        /\ UNCHANGED <<sem, pvars, dependents, needSource, avars, facts, out>>

\* if dependents != 0 { return }
MutLastUseEarly(q) == dependents[q] = (IF Cardinality(Importers(q)) > 1 THEN 2 ELSE 1)
LastUse(q) == dependents[q] = 1

\* The actions whose pass, result and dependencies decUse drops.
MutSpent(q) == ActionsOf(q)
Spent(q) == ActionsOf(q) \cap pass

\* Whom a freed package no longer needs.
Unused(q) == Imports[q]

\* One call of decUse, by p's goroutine on its own package or on a package
\* that it reached through freed importers.
DecUse(p, q) ==
    LET freed == LastUse(q)
    IN  /\ gp[p] = "dec"
        /\ \E r \in LoadingPackages :
              /\ <<r, q>> \in calls[p]
              /\ calls' = [calls EXCEPT ![p] = (@ \ {<<r, q>>}) \cup
                              (IF freed THEN {q} \X Unused(q) ELSE {})]
        /\ dependents' = [dependents EXCEPT ![q] = @ - 1]
        /\ pass' = pass \ Spent(q)
        /\ hasDeps' = hasDeps \ Spent(q)
        /\ result' = result \ Spent(q)
        /\ types' = IF freed THEN [types EXCEPT ![q] = "nil"] ELSE types
        /\ facts' = [k \in Actions |-> IF freed /\ k[2] = q THEN {} ELSE facts[k]]
        /\ UNCHANGED <<gvars, gp, sem, illTyped, pkgErrors, needSource, ran, err, cache, out>>

\* <-loadSem, and the return from analyzeOnce.
Release(p) ==
    /\ Goto(p, "dec", "done")
    /\ calls[p] = {}
    /\ sem' = sem - 1
    /\ UNCHANGED <<gvars, pvars, dependents, calls, needSource, avars, facts, cache, out>>

\* visitAll in extractDiagnostics.
Extracted == Reachable(Roots, [k \in Actions |-> IF k \in hasDeps THEN Deps[k] ELSE {}])

\* wg.Wait() in runner.analyze returned: extractDiagnostics.
Extract ==
    /\ report = "none"
    /\ \A p \in Initial : gp[p] = "done"
    /\ report' = IF \E k \in Extracted : err[k] = "panic" THEN "panic"
                 ELSE IF \E k \in Extracted : err[k] # "none" THEN "errors" ELSE "diagnostics"
    /\ UNCHANGED <<gvars, gp, sem, pvars, dependents, calls, needSource, avars, facts, cache, runs>>

\* Another process analyzes the same packages.
Again ==
    /\ report # "none" /\ runs < MaxRuns
    /\ runs' = runs + 1 /\ report' = "none"
    /\ status' = [k \in Actions |-> "pending"] /\ ctxDone' = FALSE /\ live' = {}
    /\ outcome' = [p \in LoadingPackages |-> "none"]
    /\ gp' = [p \in LoadingPackages |-> "idle"] /\ sem' = 0
    /\ types' = StartTypes /\ illTyped' = StartIllTyped /\ pkgErrors' = StartIllTyped
    /\ dependents' = StartCounts /\ calls' = NoCalls
    /\ needSource' = {k \in Actions : k[2] \in Initial}
    /\ pass' = {} /\ ran' = {} /\ result' = {} /\ hasDeps' = Actions
    /\ err' = [k \in Actions |-> "none"] /\ facts' = [k \in Actions |-> {}]
    /\ UNCHANGED cache

Finished == report # "none" /\ UNCHANGED vars

Goroutine(p) ==
    \/ Enter(p) \/ Join(p) \/ Skip(p) \/ Acquire(p)
    \/ LoadPreloaded(p) \/ LoadInitial(p) \/ LoadImported(p)
    \/ ReturnGraph(p) \/ Persist(p) \/ Release(p)
    \/ \E q \in LoadingPackages : DecUse(p, q)

Next ==
    \/ \E p \in LoadingPackages : Goroutine(p)
    \/ \E k \in Actions : StartAction(k) \/ FinishAction(k)
    \/ Extract \/ Again \/ Finished

Spec == Init /\ [][Next]_vars

\* Goroutines run, analyzers terminate and the pool takes what is ready.
Fairness ==
    /\ \A p \in LoadingPackages : WF_vars(Goroutine(p))
    /\ \A k \in Actions : WF_vars(StartAction(k) \/ FinishAction(k))
    /\ WF_vars(Extract)

FairSpec == Spec /\ Fairness
-----------------------------------------------------------------------------
\* Every variable keeps its type; in particular decUse never counts the
\* users of a package below zero and every slot of loadSem is given back once.
TypeOK ==
    /\ gp \in [LoadingPackages ->
                {"idle", "wait", "select", "load", "graph", "persist", "dec", "done"}]
    /\ sem \in 0..LoadSlots
    /\ types \in [LoadingPackages -> {"nil", "export", "source"}]
    /\ illTyped \in [LoadingPackages -> BOOLEAN]
    /\ pkgErrors \in [LoadingPackages -> BOOLEAN]
    /\ dependents \in [LoadingPackages -> Nat]
    /\ calls \in [LoadingPackages -> SUBSET (LoadingPackages \X LoadingPackages)]
    /\ needSource \subseteq Actions /\ pass \subseteq Actions /\ ran \subseteq Actions
    /\ result \subseteq Actions /\ hasDeps \subseteq Actions
    /\ cache \in [Actions -> {"none", "whole", "partial"}] /\ runs \in 1..MaxRuns
    /\ err \in [Actions -> {"none", "plain", "wrapped", "panic"}]
    /\ facts \in [Actions -> SUBSET LoadingPackages]
    /\ status \in [Actions -> {"pending", "running", "ok", "err"}]
    /\ ctxDone \in BOOLEAN
    /\ live \subseteq LoadingPackages
    /\ outcome \in [LoadingPackages -> {"none", "ok", "failed", "unschedulable"}]
    /\ report \in {"none", "diagnostics", "errors", "panic"}

\* Analyzer.Run is executing.
Analyzing(k) == status[k] = "running" /\ k \in ran

\* An analyzer never runs on top of a failed one.  action.analyze itself
\* overlooks an error that errors.Unwrap cannot open (a plain error, a
\* panic); only the order of cancel() and of the importers' graphs helps.
RunsOnGoodDeps ==
    \A k \in Actions : Analyzing(k) =>
        \A d \in Deps[k] : err[d] = "none" /\ status[d] = "ok"

\* decUse frees a package after its last use.  While an analyzer runs, neither
\* the types nor the facts of the package and its imports are freed, whoever
\* finishes in the meantime; and an undisturbed analysis ends with everything
\* freed.
NoUseAfterFree ==
    \A k \in Actions : Analyzing(k) =>
        \A q \in Imports[k[2]] \cup {k[2]} : types[q] # "nil" /\ dependents[q] > 0
EverythingFreed ==
    report # "none" /\ ~ctxDone =>
        /\ sem = 0 /\ pass = {}
        /\ \A p \in LoadingPackages : dependents[p] = 0 /\ types[p] = "nil"
FreedAfterLastUse == NoUseAfterFree /\ EverythingFreed

\* Everything p imports, directly or not.
AllImports(p) == Reachable(Imports[p], Imports)

\* An analyzer finds the results of all analyzers it requires, and one that
\* uses facts those of all packages below, whichever of them were analyzed now
\* and whichever came from the cache.
InputsComplete ==
    \A k \in Actions : Analyzing(k) =>
        /\ HorizontalDeps(k) \subseteq result
        /\ UsesFacts(k) => AllImports(k[2]) \subseteq facts[k]

\* When the report names no error, every configured analyzer ran on every
\* initial package: extractDiagnostics still reaches the failure that kept
\* an analyzer from running, after decUse has cut the dependencies.
CleanReportMeansAnalyzed == report = "diagnostics" => Roots \subseteq ran

\* "Don't need to write error to errCh, it will be extracted and reported on
\* another layer": a package that cannot be loaded shows in the report.
LoadErrorsAreReported ==
    report = "diagnostics" => \A k \in Actions : err[k] = "none"

\* "If we try to save to cache even if we have compilation errors we won't see
\* them on repeated runs": a run that reports no error has not relied on what an
\* analyzer left that had failed.
ErrorsShowOnRepeatedRuns ==
    report = "diagnostics" => \A k \in Actions : cache[k] # "partial"

\* The analysis ends: no package waits for a slot that a waiting package
\* holds, and every import is analyzed even when nobody runs any more.
Terminates == <>(report # "none")
=============================================================================
