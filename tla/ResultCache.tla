----------------------------- MODULE ResultCache -----------------------------
(***************************************************************************)
(* runAnalyzers (pkg/goanalysis/runners.go) with the issues of earlier     *)
(* runs: runners_cache.go stores the issues of a package under a key that  *)
(* internal/cache/cache.go builds from its sources, its imports, the salt  *)
(* of the process and the names of the analyzers.  Between the runs the    *)
(* user edits, changes settings and linters or moves the module; a run may *)
(* be killed while it saves.                                               *)
(*                                                                         *)
(* SHA-256 is abstracted to the tuple of what is written to it.  What the  *)
(* analyzers find in a package is abstracted to everything it depends on,  *)
(* with the file it is found in.                                           *)
(***************************************************************************)
EXTENDS Reachability

CONSTANTS
    Linted,     \* the packages of the module, which are linted
    External,   \* packages of other modules, with a BuildID
    ImportsOf,  \* package -> the packages it imports, "unsafe" among them
    Outside,    \* packages of the module whose file is generated elsewhere (cgo)
    Versions,   \* contents of a package; "bad" does not compile
    MaxChanges,  \* how often the user changes something
    MaxCacheRuns \* how often golangci-lint is run

AllPackages == Linted \cup External

ASSUME CacheAssumption ==
    /\ IsFiniteSet(AllPackages) /\ Linted \cap External = {}
    /\ "unsafe" \notin AllPackages
    /\ ImportsOf \in [AllPackages -> SUBSET (AllPackages \cup {"unsafe"})]
    /\ Acyclic([p \in AllPackages |-> ImportsOf[p] \ {"unsafe"}])
    /\ "v1" \in Versions

VARIABLES
    sources,    \* package -> its contents
    home,       \* the directory of the module
    setup,      \* linters.settings, run.build-tags, go.mod, the version of the program
    analyzers,  \* the analyzers of the enabled linters
    stored,     \* key -> encoded issues
    cachePc,    \* where the process is, "idle" between two
    found,      \* package -> its issues, for the packages that have been looked at
    errs,       \* the packages that could not be analyzed
    unsaved,    \* the packages whose issues are still to be saved
    changes, cacheRuns

workspace == <<sources, home, setup, analyzers, changes>>
pending   == <<found, errs, unsaved>>
cacheVars == <<workspace, pending, stored, cachePc, cacheRuns>>

\* Everything p is built from.
Closure(p) == Reachable({p}, [q \in AllPackages |-> ImportsOf[q] \cap AllPackages])

-----------------------------------------------------------------------------
(* The key.                                                                *)

\* initHashSalt: with the settings, all of them, and the build tags.
HashSalt == setup

\* toRelativePath and toAbsolutePath: the place of a file of package p.
FileOf(p) == IF p \in Outside THEN <<"elsewhere", p>> ELSE <<home, p>>
ToRelativePath(p, file) == IF file = <<home, p>> THEN <<"relative", p>> ELSE file
ToAbsolutePath(file) == IF file[1] = "relative" THEN <<home, file[2]>> ELSE file

\* hashSources.
HashSources(p) ==
    IF p \in External THEN <<"buildid", sources[p]>>
    ELSE <<"file", ToRelativePath(p, FileOf(p)), sources[p]>>

\* HashModeNeedOnlySelf.
OnlySelf(p) == <<HashSalt, p, HashSources(p)>>

\* HashModeNeedAllDeps; the hash is that of the direct dependencies, written on.
MutAllDeps(p) ==
    LET imports == ImportsOf[p] \ {"unsafe"}
    IN  <<OnlySelf(p), {<<q, OnlySelf(q)>> : q \in imports}>>
AllDeps(p) ==
    LET H[q \in AllPackages] ==
            LET imports == ImportsOf[q] \ {"unsafe"}
            IN  <<OnlySelf(q), {<<i, OnlySelf(i)>> : i \in imports}, {<<i, H[i]>> : i \in imports}>>
    IN  H[p]

\* buildKey: pkgActionID and Subkey, with getIssuesCacheKey.  The process
\* remembers the hashes (pkgHashes); nothing is edited while it runs.
IssuesKey(p) == <<HashSalt, p, AllDeps(p), analyzers>>

-----------------------------------------------------------------------------
(* One run.                                                                *)

\* What an analysis of p finds, and the packages that do not compile.
FreshIssues(p) ==
    [of |-> [q \in Closure(p) |-> sources[q]], setup |-> setup, by |-> analyzers, file |-> FileOf(p)]
IllTyped == {p \in Linted : \E q \in Closure(p) : sources[q] = "bad"}

CacheStart ==
    /\ sources = [p \in AllPackages |-> "v1"] /\ home = "here" /\ setup = 1 /\ analyzers = {"a"}
    /\ stored = <<>> /\ changes = 0 /\ cacheRuns = 0
    /\ found = <<>> /\ errs = {} /\ unsaved = {}
CacheInit == CacheStart /\ cachePc = "idle"

\* Nobody runs golangci-lint over a cache.
CacheIdle == CacheStart /\ cachePc = "off"

\* runAnalyzers begins with the issues that the cache has.
LoadIssuesFromCache ==
    /\ cachePc = "idle" /\ cacheRuns < MaxCacheRuns
    /\ cachePc' = "analyze" /\ cacheRuns' = cacheRuns + 1
    /\ found' = [p \in {q \in Linted : IssuesKey(q) \in DOMAIN stored} |->
            [stored[IssuesKey(p)] EXCEPT !.file = ToAbsolutePath(@)]]
    /\ errs' = {} /\ unsaved' = {}
    /\ UNCHANGED <<workspace, stored>>

\* runner.run on the packages that are not cached.  A package that does not
\* compile fails and cancels the analysis of others, which are then not among
\* the found ones; issues are saved only if there was no error at all.
RunAnalyzers ==
    LET missing == Linted \ DOMAIN found
    IN  /\ cachePc = "analyze" /\ cachePc' = "save"
        /\ errs' \in SUBSET (missing \cap IllTyped)
        /\ \E analyzed \in SUBSET (missing \ IllTyped) :
            /\ errs' = {} => analyzed = missing
            /\ found' = [p \in DOMAIN found \cup analyzed |->
                            IF p \in analyzed THEN FreshIssues(p) ELSE found[p]]
        /\ unsaved' = IF errs' = {} THEN missing ELSE {}
        /\ UNCHANGED <<workspace, stored, cacheRuns>>

\* An analyzer fails and there is no typecheck issue to report instead, or the
\* process is killed: nothing is returned and nothing saved.
AnalysisFails ==
    /\ cachePc = "analyze" /\ DOMAIN found # Linted
    /\ cachePc' = "idle" /\ found' = <<>> /\ errs' = {} /\ unsaved' = {}
    /\ UNCHANGED <<workspace, stored, cacheRuns>>

\* saveIssuesToCache: the workers take the packages in any order.
SaveIssuesToCache(p) ==
    /\ cachePc = "save" /\ p \in unsaved
    /\ unsaved' = unsaved \ {p}
    /\ stored' = [k \in DOMAIN stored \cup {IssuesKey(p)} |->
            IF k = IssuesKey(p) THEN [found[p] EXCEPT !.file = ToRelativePath(p, @)] ELSE stored[k]]
    /\ UNCHANGED <<workspace, found, errs, cachePc, cacheRuns>>

\* A Put that fails is logged.
SaveFails(p) ==
    /\ cachePc = "save" /\ p \in unsaved
    /\ unsaved' = unsaved \ {p}
    /\ UNCHANGED <<workspace, found, errs, stored, cachePc, cacheRuns>>

ReturnIssues ==
    /\ cachePc = "save" /\ unsaved = {}
    /\ cachePc' = "idle"
    /\ UNCHANGED <<workspace, pending, stored, cacheRuns>>

KilledWhileSaving ==
    /\ cachePc = "save" /\ unsaved # {}
    /\ cachePc' = "idle" /\ unsaved' = {} /\ found' = <<>> /\ errs' = {}
    /\ UNCHANGED <<workspace, stored, cacheRuns>>

\* The user, between two runs.
ChangeSomething ==
    /\ cachePc = "idle" /\ cacheRuns < MaxCacheRuns /\ changes < MaxChanges
    /\ changes' = changes + 1
    /\ found' = <<>> /\ errs' = {}
    /\ \/ /\ \E p \in AllPackages : \E v \in Versions \ {sources[p]} : sources' = [sources EXCEPT ![p] = v]
          /\ UNCHANGED <<home, setup, analyzers>>
       \/ home' = (IF home = "here" THEN "there" ELSE "here") /\ UNCHANGED <<sources, setup, analyzers>>
       \/ setup' = 3 - setup /\ UNCHANGED <<sources, home, analyzers>>
       \/ analyzers' = (IF analyzers = {"a"} THEN {"a", "b"} ELSE {"a"}) /\ UNCHANGED <<sources, home, setup>>
    /\ UNCHANGED <<unsaved, stored, cachePc, cacheRuns>>

CacheNext ==
    \/ LoadIssuesFromCache \/ RunAnalyzers \/ AnalysisFails \/ ReturnIssues \/ KilledWhileSaving \/ ChangeSomething
    \/ \E p \in Linted : SaveIssuesToCache(p) \/ SaveFails(p)

CacheSpec == CacheInit /\ [][CacheNext]_cacheVars
-----------------------------------------------------------------------------
\* "A cached data is invalidated when package, or it's dependencies change":
\* whatever was changed, moved, changed back, killed or failed before, a run
\* answers as a run without a cache would.  A package has the issues of its
\* present sources at their present place or none, the latter only if the run
\* reports that something does not compile, and such a package is reported
\* again and again, though not always all of them: the first cancels the others.
CachedIssuesAreFresh ==
    cachePc = "save" =>
        /\ found = [p \in DOMAIN found |-> FreshIssues(p)]
        /\ DOMAIN found \subseteq Linted \ IllTyped
        /\ errs \subseteq IllTyped
        /\ errs = {} => DOMAIN found = Linted
=============================================================================
