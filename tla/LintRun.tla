------------------------------ MODULE LintRun ------------------------------
(***************************************************************************)
(* The command `golangci-lint run`, pkg/commands/run.go, with the lint     *)
(* runner, the package loader and the selection of changed packages of     *)
(* pkg/lint: from the flags to the exit code.  Several runners share one   *)
(* lock file in the temporary directory.                                   *)
(*                                                                         *)
(* What a runner is started with is a record, its input:                   *)
(*   cfg, flags, opts, used   the configuration, as ConfigLoader has it    *)
(*   limits, fix, diff        the options of issues; diff is "off", "on"   *)
(*                            or "broken" (git or the patch cannot be read)*)
(*   issuesCode               --issues-exit-code                           *)
(*   parallel, serial         --allow-parallel-runners and -serial-        *)
(*   timeout, failOnWarnings, oldGo, narrow                                *)
(*   pkgs                     what go list answers for the arguments       *)
(*   deps                     the packages these import                    *)
(*   files, found, names      the tree, what each linter would report for  *)
(*                            it, and the order of the names               *)
(*   faults                   whether calls of the system fail             *)
(***************************************************************************)
EXTENDS Processors, LinterCatalog

CONSTANTS Runners,   \* the processes
          Inputs,    \* which of them are started, and with what
          MaxTries   \* how often the lock is tried within five seconds

\* What is decoded has its type.  Compile errors come from the packages only,
\* not from a linter, and a custom linter has a name of its own.
ASSUME LintAssumption ==
    \A ins \in Inputs : \A p \in DOMAIN ins :
        /\ IsList(ins[p].pkgs) /\ IsList(ins[p].found)
        /\ \A n \in DOMAIN ins[p].found :
            {"linter", "edits"} \subseteq DOMAIN ins[p].found[n] /\ ins[p].found[n].linter # "typecheck"
        /\ ins[p].limits.same \in Nat /\ ins[p].limits.linter \in Nat
        /\ ins[p].cfg.custom \cap NamesOf(Catalog) = {}

VARIABLES in,        \* in[p]: what p was started with
          rpc,       \* rpc[p]: its next step
          run,       \* run[p]: what it has found out so far
          lockPath,  \* the file at the path of the lock, 0 when there is none
          locked     \* the runners that hold a lock, each with its file

lintVars == <<in, rpc, run, lockPath, locked>>

Success == 0
WarningInTest == 2
Failure == 3
TimeoutCode == 4
NoGoFiles == 5
ErrorWasLogged == 7

\* What a runner knows at the start.
NewRun ==
    [linters |-> {}, groups |-> {}, kept |-> <<>>, issues |-> <<>>, out |-> <<>>,
     printed |-> FALSE, lintError |-> FALSE, logged |-> FALSE, warned |-> FALSE, expired |-> FALSE,
     code |-> 0, fd |-> 0, tries |-> 0, fixed |-> {}]

Started ==
    /\ rpc = [p \in Runners |-> IF p \in DOMAIN in THEN "start" ELSE "absent"]
    /\ run = [p \in Runners |-> NewRun]
    /\ lockPath = 0
    /\ locked = {}

LintInit == in \in Inputs /\ Started

\* Nobody runs golangci-lint.
LintIdle == in = <<>> /\ Started

\* Runner p goes on at pc with r for what it knows.
To(p, pc, r) == rpc' = [rpc EXCEPT ![p] = pc] /\ run' = [run EXCEPT ![p] = r]

NoLocks == UNCHANGED <<in, lockPath, locked>>

-----------------------------------------------------------------------------
(***************************************************************************)
(* Packages.  A package has its id, the package it is the test variant of  *)
(* ("" for none), its import path, whether it is the generated main of a   *)
(* test, its files, its imports and an error: "" or "compile", or one of   *)
(* the two that stop the loader, "no Go files" and "cannot find".          *)
(***************************************************************************)
\* findLoadMode: with one linter that needs types go list compiles.
NeedsTypes(linters) == \E lc \in linters : "analysis" \in lc.opts

\* filterTestMainPackages, then filterDuplicatePackages.
FilterTestMainPackages(pkgs) == Filter(pkgs, LAMBDA p : ~p.testMain)

FilterDuplicatePackages(pkgs) ==
    LET withTests == {p.variantOf : p \in ToSet(pkgs)} \ {""}
    IN Filter(pkgs, LAMBDA p : p.variantOf # "" \/ p.path \notin withTests)

\* errorReachability: the package or anything it imports has a load error.
HasErrors(input, pkg) ==
    LET all == ToSet(input.pkgs) \cup input.deps
        reach[n \in Nat] ==
            IF n = 0 THEN {pkg}
            ELSE LET near == reach[n - 1] IN near \cup {q \in all : \E r \in near : q.id \in r.imports}
    IN \E q \in reach[Cardinality(all)] : q.error # ""

MutChangedPackages(input, types, pkgs) ==
    Filter(pkgs, LAMBDA p : \/ types /\ p.error # ""
                            \/ \E f \in p.files : input.files[f].changed # {})

\* Packages with a changed file and packages that cannot be compiled; what go
\* list has not compiled has no errors yet.
ChangedPackages(input, types, pkgs) ==
    Filter(pkgs, LAMBDA p : \/ types /\ HasErrors(input, p)
                            \/ \E f \in p.files : input.files[f].changed # {})

ModuleFilesChanged(input) == \E f \in DOMAIN input.files : input.files[f].kind = "mod" /\ input.files[f].changed # {}

NarrowToChanges(input, types, pkgs) ==
    IF ~input.narrow \/ input.diff # "on" \/ ModuleFilesChanged(input) THEN pkgs
    ELSE ChangedPackages(input, types, pkgs)

\* What a group of linters reports for the packages: the issues in their
\* files, or only compile errors for what does not compile.
LinterIssues(input, names, pkgs) ==
    LET files == UNION {p.files : p \in ToSet(pkgs)}
        broken == Filter(pkgs, LAMBDA p : HasErrors(input, p))
        compile == [n \in DOMAIN broken |->
            [linter |-> "typecheck", file |-> CHOOSE f \in broken[n].files : input.files[f].kind = "go", line |-> 1,
             text |-> "does not compile", source |-> "", edits |-> <<>>, expect |-> "", severity |-> "", path |-> "relative"]]
        broke == UNION {p.files : p \in ToSet(broken)}
    IN (IF "typecheck" \in names THEN compile ELSE <<>>)
       \o Filter(input.found, LAMBDA i :
              /\ i.linter \in names
              /\ \/ input.files[i.file].kind = "mod"
                 \/ \E f \in files \ broke : i.file \in {f, input.files[f].claims})

\* The processors in their order: to the paths, to the diff, from the fixer on.
ProcessPaths(input, pkgs, issues) ==
    LET files == input.files
        compiled == UNION {p.files : p \in ToSet(pkgs)}
        a == FilenameUnadjuster(files, compiled, Cgo(files, PathAbsoluter(issues)))
    IN ExclusionPaths(Loaded(input.cfg, input.flags), files, PathRelativity(InvalidIssue(files, a)))

BeforeFixer(input, linters, pkgs, issues) ==
    LET files == input.files
        cfg == Loaded(input.cfg, input.flags)
        a == GeneratedFileFilter(cfg, files, ProcessPaths(input, pkgs, issues))
    IN Diff(input.diff, files, NolintFilter(files, NamesOf(linters), ExclusionRules(cfg, files, a)))

AfterFixer(input, issues) ==
    LET cfg == Loaded(input.cfg, input.flags)
        a == MaxPerFileFromLinter(input.fix, UniqByLine(input.limits, issues))
        b == MaxFromLinter(input.limits, MaxSameIssues(input.limits, a))
        c == Severity(cfg.severity, input.severityRules, input.files, b)
    IN SortResults(cfg, input.names, PathPrettifier(cfg, c))

-----------------------------------------------------------------------------
(***************************************************************************)
(* Before the analysis.                                                    *)
(***************************************************************************)
Known(input) == Catalog \cup {PluginLinter(n, TRUE) : n \in input.cfg.custom}

\* persistentPreRunE: tracing, then the configuration.
RLoadConfig(p) ==
    LET i == in[p]
        ok == LoadOk(i.cfg, i.flags, i.opts, i.used)
    IN /\ rpc[p] = "start"
       /\ \/ ok /\ To(p, "prerun", run[p])
          \/ (~ok \/ i.faults) /\ To(p, "exited", [run[p] EXCEPT !.code = Failure])
       /\ NoLocks

\* preRunE: linters, printer, caches, salt.  It ends with the lock, so that no
\* error follows it; after an error nothing else runs, not even postRun.
RPreRun(p) ==
    LET i == in[p]
        ok == NamesAreKnown(Known(i), Loaded(i.cfg, i.flags))
    IN /\ rpc[p] = "prerun"
       /\ \/ ok /\ To(p, IF i.parallel THEN "select" ELSE "open", run[p])
          \/ (~ok \/ i.faults) /\ To(p, "exited", [run[p] EXCEPT !.code = Failure])
       /\ NoLocks

\* One try of TryLockContext: it opens or creates the file at the path...
ROpenLock(p) ==
    LET used == {lockPath} \cup {run[q].fd : q \in Runners} \cup {l[2] : l \in locked}
        fresh == CHOOSE n \in 1..(Cardinality(used) + 1) : n \notin used
        fd == IF lockPath = 0 THEN fresh ELSE lockPath
    IN /\ rpc[p] = "open"
       /\ To(p, "flock", [run[p] EXCEPT !.fd = fd])
       /\ lockPath' = fd
       /\ UNCHANGED <<in, locked>>

MutFree(p) == locked = {} /\ \A q \in Runners : rpc[q] # "killed" \/ run[q].fd # lockPath

Free(p) == ~ \E l \in locked : l[2] = run[p].fd

\* ... and locks it, or closes it and waits for a second; without
\* --allow-serial-runners for five of them at most.
RFlock(p) ==
    /\ rpc[p] = "flock"
    /\ IF Free(p)
       THEN To(p, "select", run[p]) /\ locked' = locked \cup {<<p, run[p].fd>>}
       ELSE /\ UNCHANGED locked
            /\ IF in[p].serial THEN To(p, "open", [run[p] EXCEPT !.fd = 0])
               ELSE IF run[p].tries < MaxTries
               THEN To(p, "open", [run[p] EXCEPT !.fd = 0, !.tries = @ + 1])
               ELSE To(p, "exited", [run[p] EXCEPT !.fd = 0, !.code = Failure])
    /\ UNCHANGED <<in, lockPath>>

-----------------------------------------------------------------------------
(***************************************************************************)
(* The analysis: execute, runAndPrint and runAnalysis.                     *)
(***************************************************************************)
\* "Running error": logged, and the code of the error unless one is set.
RunError(p, r, code) == To(p, "finish", [r EXCEPT !.logged = TRUE, !.code = code])

\* GetEnabledLintersMap and GetOptimizedLinters: only here it turns out that a
\* group is unknown.
RSelectLinters(p) ==
    LET i == in[p]
        cfg == Loaded(i.cfg, i.flags)
        linters == BuildLinters(Known(i), cfg, cfg.formatters)
    IN /\ rpc[p] = "select"
       /\ IF KnownGroup(cfg.group)
          THEN To(p, "load", [run[p] EXCEPT !.linters = linters, !.groups = OptimizedLinters(linters, i.oldGo)])
          ELSE RunError(p, run[p], Failure)
       /\ NoLocks

\* ContextBuilder.Build: go list may fail or be stopped by the timeout.
RLoadPackages(p) ==
    LET i == in[p]
        types == NeedsTypes(run[p].linters)
        pkgs == FilterTestMainPackages(i.pkgs)
        loads == FilterDuplicatePackages(pkgs)
        Has(error) == \E q \in ToSet(i.pkgs) : q.error = error
    IN /\ rpc[p] = "load"
       /\ \/ (i.faults \/ run[p].expired \/ Has("cannot find")) /\ RunError(p, run[p], Failure)
          \/ (loads = <<>> \/ Has("no Go files")) /\ RunError(p, run[p], NoGoFiles)
          \/ /\ loads # <<>> /\ ~Has("no Go files") /\ ~Has("cannot find")
             /\ To(p, "build", [run[p] EXCEPT !.kept = NarrowToChanges(i, types, loads)])
       /\ NoLocks

\* NewRunner: there must be something besides typecheck.
RBuildRunner(p) ==
    /\ rpc[p] = "build"
    /\ IF NamesOf(run[p].linters) \subseteq {"typecheck"}
       THEN RunError(p, run[p], Failure)
       ELSE To(p, "lint", run[p])
    /\ NoLocks

\* Runner.Run, one linter: a noop warns; an error is kept for the end, a panic
\* is logged as well, and the other linters still run.
RLinter(p) ==
    LET i == in[p]
        Old(g) == \E lc \in run[p].linters : lc.name \in g /\ Noop(lc, i.oldGo)
        Rest(g) == [run[p] EXCEPT !.groups = @ \ {g}]
    IN /\ rpc[p] = "lint"
       /\ \E g \in run[p].groups :
            \/ Old(g) /\ To(p, "lint", [Rest(g) EXCEPT !.warned = TRUE])
            \/ ~Old(g) /\ To(p, "lint", [Rest(g) EXCEPT !.issues = @ \o LinterIssues(i, g, run[p].kept)])
            \/ /\ ~Old(g) /\ (i.faults \/ run[p].expired)
               /\ \E panic \in BOOLEAN :
                    To(p, "lint", [Rest(g) EXCEPT !.lintError = TRUE, !.warned = TRUE, !.logged = @ \/ panic])
       /\ NoLocks

\* processLintResults: what the runner knows afterwards, for every choice of
\* the fixer.
Processed(i, r) ==
    LET before == BeforeFixer(i, r.linters, r.kept, r.issues)
        warns == \/ i.diff = "broken"
                 \/ GeneratedFilterFails(Loaded(i.cfg, i.flags), i.files, ProcessPaths(i, r.kept, r.issues))
    IN {[r EXCEPT !.out = AfterFixer(i, o.issues), !.fixed = o.fixed, !.warned = @ \/ (r.issues # <<>> /\ warns)] :
            o \in FixerOutcomes(i.fix, i.files, i.names, before)}

\* Also after errors of linters; these are returned then.
RProcess(p) ==
    /\ rpc[p] = "lint" /\ run[p].groups = {}
    /\ \E after \in Processed(in[p], run[p]) :
         IF after.lintError THEN RunError(p, after, Failure) ELSE To(p, "print", after)
    /\ NoLocks

\* Print, then setExitCodeIfIssuesFound.
RPrint(p) ==
    /\ rpc[p] = "print"
    /\ \/ To(p, "finish", [run[p] EXCEPT !.printed = TRUE,
                                         !.code = IF run[p].out # <<>> THEN in[p].issuesCode ELSE @])
       \/ in[p].faults /\ RunError(p, run[p], Failure)
    /\ NoLocks

MutExitCode(p) ==
    CASE run[p].code # Success -> run[p].code
      [] in[p].failOnWarnings /\ run[p].warned -> WarningInTest
      [] run[p].logged -> ErrorWasLogged
      [] OTHER -> Success

\* setupExitCode: the timeout overrides everything.
ExitCode(p) ==
    CASE run[p].expired -> TimeoutCode
      [] ~run[p].expired /\ run[p].code # Success -> run[p].code
      [] OTHER -> IF in[p].failOnWarnings /\ run[p].warned THEN WarningInTest
                  ELSE IF run[p].logged THEN ErrorWasLogged ELSE Success

RFinish(p) ==
    /\ rpc[p] = "finish"
    /\ To(p, IF in[p].parallel THEN "post" ELSE "unlock", [run[p] EXCEPT !.code = ExitCode(p)])
    /\ NoLocks

\* The timeout of --timeout, at any time of the analysis.
RExpire(p) ==
    /\ rpc[p] \in {"select", "load", "build", "lint", "print", "finish"}
    /\ in[p].timeout /\ ~run[p].expired
    /\ To(p, rpc[p], [run[p] EXCEPT !.expired = TRUE])
    /\ NoLocks

-----------------------------------------------------------------------------
(***************************************************************************)
(* The end.                                                                *)
(***************************************************************************)
\* releaseFileLock: unlock the file, then remove whatever is at the path.
RUnlock(p) ==
    /\ rpc[p] = "unlock"
    /\ To(p, "remove", [run[p] EXCEPT !.fd = 0])
    /\ locked' = {l \in locked : l[1] # p}
    /\ UNCHANGED <<in, lockPath>>

RRemove(p) ==
    /\ rpc[p] = "remove"
    /\ To(p, "post", run[p])
    /\ lockPath' = 0
    /\ UNCHANGED <<in, locked>>

\* persistentPostRunE: an error when profiles are written replaces the code.
RPostRun(p) ==
    /\ rpc[p] = "post"
    /\ \/ To(p, "exited", run[p])
       \/ in[p].faults /\ To(p, "exited", [run[p] EXCEPT !.code = Failure])
    /\ NoLocks

\* A signal: the system releases the lock, the file stays.
RKill(p) ==
    /\ rpc[p] \notin {"absent", "exited", "killed"} /\ in[p].faults
    /\ To(p, "killed", run[p])
    /\ locked' = {l \in locked : l[1] # p}
    /\ UNCHANGED <<in, lockPath>>

Ended(p) == rpc[p] \in {"absent", "exited", "killed"}

RStep(p) ==
    \/ RLoadConfig(p) \/ RPreRun(p) \/ ROpenLock(p) \/ RFlock(p)
    \/ RSelectLinters(p) \/ RLoadPackages(p) \/ RBuildRunner(p) \/ RLinter(p) \/ RProcess(p)
    \/ RPrint(p) \/ RFinish(p) \/ RUnlock(p) \/ RRemove(p) \/ RPostRun(p)

LintNext == \E p \in Runners : RStep(p) \/ RExpire(p) \/ RKill(p)

\* Without fairness, for what may never happen.
LintSpec == LintInit /\ [][LintNext]_lintVars

\* A process that has not ended can always go on, and does: this is weak
\* fairness of RStep(p), written without ENABLED.  Nobody has to time out or to
\* be killed.
LintFairness == \A p \in Runners : []<>Ended(p) \/ []<><<RStep(p)>>_lintVars

-----------------------------------------------------------------------------
(***************************************************************************)
(* Properties.                                                             *)
(***************************************************************************)
\* A runner exits with 0 only if the analysis was completed in time and shown,
\* and nothing was found; or the user asked for 0 in spite of issues.
ExitCodeIsHonest ==
    \A p \in Runners : rpc[p] = "exited" /\ run[p].code = Success =>
        /\ run[p].printed /\ ~run[p].expired /\ ~run[p].lintError /\ ~run[p].logged
        /\ run[p].out # <<>> => in[p].issuesCode = Success

\* A runner that exits with 0 has seen that what it was given compiles, also if
\* only the packages with changes were analysed; in spite of exclusions, of
\* nolint, of the diff and of the limits.
CleanExitMeansItCompiles ==
    \A p \in Runners :
        /\ rpc[p] = "exited" /\ run[p].code = Success
        /\ in[p].issuesCode # Success /\ NeedsTypes(run[p].linters)
        => \A q \in ToSet(FilterDuplicatePackages(FilterTestMainPackages(in[p].pkgs))) : ~HasErrors(in[p], q)

\* The packages that narrowToChanges drops have no issue that the diff would
\* have left: the same is shown as for an analysis of all packages.
NarrowingHidesNothing ==
    \A p \in Runners :
        LET i == in[p] r == run[p]
            all == FilterDuplicatePackages(FilterTestMainPackages(i.pkgs))
            issues == LinterIssues(i, NamesOf(r.linters), all)
        IN rpc[p] = "finish" /\ r.printed /\ ~i.fix /\ ~i.oldGo /\ NeedsTypes(r.linters)
           => ToSet(r.out) = ToSet(AfterFixer(i, BeforeFixer(i, r.linters, all, issues)))

\* The tree without what nolintlint has called unused in file f: the directive
\* at line n, or one of the linters that it names.
Without(input, f, n, linter) ==
    LET Stays(d) == d.from # n \/ (d.linters # {linter} /\ d.linters # {})
        kept == Filter(input.files[f].directives, Stays)
    IN [input EXCEPT !.files[f].directives =
            [k \in DOMAIN kept |-> IF kept[k].from = n THEN [kept[k] EXCEPT !.linters = @ \ {linter}] ELSE kept[k]]]

\* A directive that is reported as unused can be removed: no issue shows up
\* that it had hidden.
UnusedDirectivesHideNothing ==
    \A p \in Runners :
        LET i == in[p] r == run[p]
            Shown(input) == {x \in ToSet(BeforeFixer(input, r.linters, r.kept, r.issues)) : x.linter # "nolintlint"}
        IN rpc[p] = "print" =>
             \A u \in {x \in ToSet(r.out) : x.linter = "nolintlint" /\ x.expect # ""} :
                Shown(Without(i, u.file, u.line, u.expect)) = Shown(i)

\* Every runner comes to its end, whoever holds the lock and also after its
\* holder was killed.
RunnersFinish == \A p \in Runners : <>Ended(p)
=============================================================================
