---------------------------- MODULE BenchMatrix ----------------------------
(***************************************************************************)
(* A run of the benchmark harness scripts/bench/baseline from its options  *)
(* to its exit: run() with its preparation stages, then the steps that     *)
(* BenchPlan derives, each with the outcomes that the file system, git and *)
(* the benchmarked process can produce.  The first error ends the run; the *)
(* deferred calls that are registered by then are made on the way out.     *)
(* The two binaries come from scripts/bench/build_pair, which runs first.  *)
(*                                                                         *)
(* The edited file of a workload is 0 (as checked out), n > 0 (after edit  *)
(* n) or Torn (a failed write).  A scenario that mutates runs with --fix,  *)
(* which may rewrite the edited file and others: in a worktree of its own  *)
(* in a compatibility run, in the workload itself otherwise.  A cache      *)
(* directory is the set of source states that were analysed with it.       *)
(***************************************************************************)
EXTENDS BenchPlan

CONSTANTS
    Options,    \* command lines
    Manifests,  \* manifest files
    Reports,    \* contents of normalized diagnostic reports
    Trees       \* contents that --fix can leave in a worktree

\* Numbers are numbers and lists are lists in a decoded manifest and in parsed
\* options, and a field that the file leaves out has its zero value.
ASSUME MatrixAssumption ==
    /\ \A o \in Options : o.runs \in Int /\ IsList(o.modes) /\ IsList(o.concurrency)
    /\ \A m \in Manifests :
        /\ {"runs", "concurrency", "workloads", "scenarios"} \subseteq DOMAIN m
        /\ m.runs \in Int
        /\ IsList(m.concurrency) /\ IsList(m.workloads) /\ IsList(m.scenarios)
        /\ \A i \in DOMAIN m.workloads :
            {"targets", "profileModule"} \subseteq DOMAIN m.workloads[i] /\ IsList(m.workloads[i].targets)

Torn    == -1
Corrupt == -2

VARIABLES
    opts, manifest,     \* the command line and the file it names
    stage,              \* index in Stages, or "plan", "unwind", "exit"
    plan,               \* the steps that are left
    failed,             \* run() will return an error
    binaries,           \* label -> commit of the binary file, or None
    logs,               \* names of the files under logs/
    cache,              \* cache directory -> source states analysed with it
    content,            \* workload name -> state of its edited file
    pending,            \* workloads whose restore is deferred
    writeFailed,        \* a write of the edited file failed
    rewritten,          \* <<workload name, "edited" or "others">>: what --fix has
                        \* changed in the workload itself
    readFixed,          \* workloads whose editor has read a file that --fix changed
    trees,              \* worktrees <<case, label>> that exist
    created,            \* worktrees of the current mutation case, in order
    kept,               \* worktrees whose removal failed
    inputs,             \* label -> diagnostics.Input of each run of the case
    outDirs,            \* comparison directories
    summaries,          \* summary.json files: [dir, match, named]
    sample              \* what the last execution was labelled and found

input   == <<opts, manifest>>
control == <<stage, plan, failed>>
work    == <<content, pending, writeFailed, rewritten, readFixed>>
compat  == <<trees, created, kept, inputs, outDirs, summaries>>
runs    == <<logs, cache, sample>>
matrixVars    == <<input, binaries, control, work, compat, runs>>

\* A source state that --fix has no part in.
Unfixed(n) == [edit |-> n, fixed |-> {}]

NoSample == [label |-> None, cache |-> {}, source |-> Unfixed(0)]

\* Applied overrides, as validateManifest and the rest of run() see them.
M    == applyManifestOverrides(manifest, opts)
Step == Head(plan)

MatrixInit ==
    /\ opts \in Options
    /\ manifest \in Manifests
    /\ stage = "build" /\ plan = <<>> /\ failed = FALSE
    /\ binaries \in {[l \in {"upstream", "fork"} |-> None], [l \in {"upstream", "fork"} |-> "old"]}
    /\ logs = {} /\ cache = <<>>
    /\ content = [i \in {manifest.workloads[k].name : k \in DOMAIN manifest.workloads} |-> 0]
    /\ pending = {} /\ writeFailed = FALSE /\ rewritten = {} /\ readFixed = {}
    /\ trees = {} /\ created = <<>> /\ kept = {}
    /\ inputs = <<>> /\ outDirs = {} /\ summaries = {}
    /\ sample = NoSample

\* Nobody runs the harness.
MatrixIdle ==
    /\ opts = <<>> /\ manifest = <<>> /\ stage = "exit" /\ plan = <<>> /\ failed = FALSE
    /\ binaries = <<>> /\ logs = {} /\ cache = <<>> /\ content = <<>>
    /\ pending = {} /\ writeFailed = FALSE /\ rewritten = {} /\ readFixed = {} /\ trees = {} /\ created = <<>> /\ kept = {}
    /\ inputs = <<>> /\ outDirs = {} /\ summaries = {} /\ sample = NoSample

(* ------------------------------ build_pair --------------------------- *)

\* buildCommit for both targets, upstream first.  A build that fails or times
\* out leaves the file of an earlier pair in place, and pair.json, which no run
\* reads, is written only at the end; the worktree is removed in either case.
BuildPair ==
    /\ stage = "build"
    /\ \E built \in {<<>>, <<"upstream">>, <<"upstream", "fork">>} : \E wrote \in BOOLEAN :
        /\ wrote => Len(built) = 2
        /\ binaries' = [l \in DOMAIN binaries |-> IF Contains(built, l) THEN "new" ELSE binaries[l]]
        /\ stage' = IF wrote THEN "parseOptions" ELSE "exit"
        /\ failed' = ~wrote
    /\ UNCHANGED <<input, plan, work, compat, runs>>

(* ------------------------------- run() ------------------------------- *)

Stages == <<"parseOptions", "loadManifest", "validateManifest", "prepareBinaries",
            "resolveGoToolchain", "prepareOutputDir", "prepareWorkloads", "filterScenarios",
            "collectMetadata", "openResults", "plan">>

\* The file decodes without unknown fields and without trailing data.
loadManifest == manifest.decodes

\* Every binary that is asked for is an executable file.
prepareBinaries == \A i \in DOMAIN configuredBinaries(opts) : binaries[configuredBinaries(opts)[i]] # None

\* The go command is of the version that the manifest requires.
resolveGoToolchain == manifest.toolchain

\* Results are never mixed with those of another run.
prepareOutputDir == ~opts.outExists

\* What the stage refuses; every stage but the pure ones can also meet an
\* error of the file system, of git or of the go command.
Refuses(s) ==
    CASE s = "parseOptions" -> ~validateOptions(opts)
      [] s = "loadManifest" -> ~loadManifest
                               \/ (opts.concurrency # <<>> /\ ~PositiveInts(opts.concurrency))
      [] s = "validateManifest" -> ~validateManifest(M)
      [] s = "prepareBinaries" -> ~prepareBinaries
      [] s = "resolveGoToolchain" -> ~resolveGoToolchain
      [] s = "prepareOutputDir" -> ~prepareOutputDir
      [] s = "prepareWorkloads" -> prepareWorkloads(M.workloads, opts) = <<>>
      [] s = "filterScenarios" -> filterScenarios(M.scenarios, opts) = <<>>
      [] OTHER -> FALSE

PureStages == {"parseOptions", "validateManifest", "filterScenarios"}

Prepare ==
    \E i \in 1..(Len(Stages) - 1) :
        /\ stage = Stages[i]
        /\ \E broken \in BOOLEAN :
            /\ Stages[i] \in PureStages => ~broken
            /\ failed' = (broken \/ Refuses(Stages[i]))
            /\ stage' = IF failed' THEN "exit" ELSE Stages[i + 1]
            /\ plan' = IF stage' = "plan" THEN runAll(opts, M) ELSE <<>>
        /\ UNCHANGED <<input, binaries, work, compat, runs>>

(* ------------------------------ one step ----------------------------- *)

Running(op) == stage = "plan" /\ plan # <<>> /\ Step.op = op

Succeeds == plan' = Tail(plan) /\ UNCHANGED <<stage, failed>>
Fails    == stage' = "unwind" /\ failed' = TRUE /\ plan' = <<>>
Ends(ok) == IF ok THEN Succeeds ELSE Fails

Cache(dir) == IF dir \in DOMAIN cache THEN cache[dir] ELSE {}

\* runMutationCompatibility runs a mutating scenario in a worktree of its own.
Isolated(step) == opts.compatibility /\ step.scenario.mutates

\* The worktree of a mutation case is a fresh checkout; every other run finds
\* the workload itself.
Source(step) ==
    LET w == step.workload.name
    IN  IF Isolated(step) THEN Unfixed(0)
        ELSE [edit |-> content[w], fixed |-> {f \in {"edited", "others"} : <<w, f>> \in rewritten}]

\* Mutant of FixesWorkload: a mutation case is not isolated.
MutFixesWorkload(step) == step.scenario.mutates

\* buildRunArgs passes --fix=true and workingDirectory is in the workload.
FixesWorkload(step) == step.scenario.mutates /\ ~Isolated(step)

\* What a started run may rewrite.
Rewritable(step) ==
    IF ~FixesWorkload(step) THEN {}
    ELSE {<<step.workload.name, f>> :
             f \in IF step.workload.edit = None THEN {"others"} ELSE {"edited", "others"}}

\* Exit codes 0, 1 (issues), 3 (failure) and 4 (timeout); the reason is what
\* BenchExecution derives; cancel takes a cancellation timer.
Outcomes(step) ==
    [code : {0, 1, 3, 4},
     reason : {"", "rss_limit", "timeout"}
              \cup (IF step.purpose = "compatibility-cancel" THEN {"cancel"} ELSE {}),
     slow : BOOLEAN, survivors : {0, 1}]

\* recordExecution: is the finished run good enough to go on?  The purposes of
\* runCompatibility are the ones that begin with "compatibility".
recordExecution(step, out) ==
    /\ out.reason = "" \/ step.purpose = "compatibility-cancel"
    /\ out.code = 0 \/ opts.compatibility

\* What the caller of execute then requires of an interrupted run.
Interrupted(step, out) ==
    CASE step.purpose = "compatibility-timeout" -> out.code = 4
      [] step.purpose = "compatibility-cancel" -> out.reason = "cancel" /\ ~out.slow
      [] OTHER -> TRUE

\* The report file of a run: always complete unless the process was stopped.
ReportOf(step, out) ==
    IF out.code \in {0, 1} /\ out.reason = "" THEN Reports
    ELSE Reports \cup {"missing", "invalid"}

\* compatibilityInput, with the changes that Diff finds between the snapshot
\* before and the worktree after the run, and the match of the expected files.
compatibilityInput(step, out, report, tree) ==
    [code |-> out.code,
     termination |-> CASE step.purpose = "compatibility-timeout" -> "cli_timeout"
                       [] step.purpose = "compatibility-cancel" -> out.reason
                       [] OTHER -> "",
     optional |-> step.scenario.mode \in {"timeout", "cancel"},
     survivors |-> out.survivors, report |-> report, tree |-> tree,
     expected |-> step.scenario.expected = {} \/ tree = "fixed",
     case |-> <<step.workload.name, step.scenario.name>>]

\* runMutationBinary compares the worktree with the snapshot that was captured
\* before; no other run is expected to change files.
ChangesOf(step) == IF step.scenario.mutates THEN Trees ELSE {None}

\* Mutant of Starts: the log is truncated instead of created exclusively.
MutStarts(step) == step.scenario.useConfig => step.workload.config

\* executeControlled up to the start of the process: the arguments need the
\* configuration that the scenario asks for, and the log must not exist yet.
Starts(step) ==
    /\ step.scenario.useConfig => step.workload.config
    /\ step.log \notin logs

\* A started run analyses the source with its cache, whatever its outcome.
Analysed(steps) ==
    /\ logs' = logs \cup {s.log : s \in steps}
    /\ cache' = [d \in {s.cache : s \in steps} |->
                    Cache(d) \cup {Source(s) : s \in {x \in steps : x.cache = d}}] @@ cache

Execution ==
    /\ Running("execute")
    /\ \/ \* refused, or an I/O error around the process
          /\ Fails
          /\ ~Starts(Step) => rewritten' = rewritten
          /\ UNCHANGED <<runs, inputs>>
       \/ /\ Starts(Step)
          /\ Analysed({Step})
          /\ sample' = [label |-> <<Step.mode, Step.purpose>>, cache |-> Cache(Step.cache),
                        source |-> Source(Step)]
          /\ \E out \in Outcomes(Step) :
                /\ Ends(recordExecution(Step, out) /\ Interrupted(Step, out))
                /\ IF opts.compatibility /\ failed' = FALSE
                   THEN \E report \in ReportOf(Step, out) :
                        \E tree \in ChangesOf(Step) :
                            inputs' = (Step.bin :> <<compatibilityInput(Step, out, report, tree)>>)
                                      @@ inputs
                   ELSE inputs' = inputs
    /\ \E f \in SUBSET Rewritable(Step) : rewritten' = rewritten \cup f
    /\ UNCHANGED <<input, binaries, content, pending, writeFailed, readFixed,
                   trees, created, kept, outDirs, summaries>>

\* runParallelBinary: two executions of one binary on one cache.
Parallel ==
    /\ Running("parallel")
    /\ \/ Fails /\ UNCHANGED <<runs, inputs>>
       \/ /\ \A i \in 1..2 : Starts(Step.runs[i])
          /\ Analysed({Step.runs[1], Step.runs[2]})
          /\ \E out \in [1..2 -> [code : {0, 1}, reason : {""}, slow : {FALSE}, survivors : {0, 1}]] :
             \E report \in [1..2 -> Reports] :
                /\ Ends(\A i \in 1..2 : recordExecution(Step.runs[i], out[i]))
                /\ inputs' = (Step.bin :> [i \in 1..2 |->
                        compatibilityInput(Step.runs[i], out[i], report[i], None)]) @@ inputs
          /\ sample' = NoSample
    /\ UNCHANGED <<input, binaries, work, trees, created, kept, outDirs, summaries>>

\* corruptCacheData overwrites every data file of the directory and the run is
\* given up when it has none.
CorruptCache ==
    /\ Running("corrupt")
    /\ \/ Fails /\ UNCHANGED cache
       \/ /\ Cache(Step.cache) # {}
          /\ cache' = (Step.cache :> {Unfixed(Corrupt)}) @@ cache
          /\ Succeeds
    /\ UNCHANGED <<input, binaries, work, compat, logs, sample>>

(* ------------------------- edits of a workload ----------------------- *)

\* newWorkloadEditor reads the original, which is whatever the file holds.
OpenEditor ==
    /\ Running("open")
    /\ LET w == Step.workload.name
       IN  \/ Fails /\ UNCHANGED readFixed
           \/ /\ Succeeds
              /\ readFixed' = IF <<w, "edited">> \in rewritten THEN readFixed \cup {w} ELSE readFixed \ {w}
    /\ UNCHANGED <<input, binaries, content, pending, writeFailed, rewritten, compat, runs>>

DeferRestore ==
    /\ Running("defer")
    /\ pending' = pending \cup {Step.workload.name}
    /\ Succeeds
    /\ UNCHANGED <<input, binaries, content, writeFailed, rewritten, readFixed, compat, runs>>

\* A write of the edited files of ws from what their editors have read, which
\* undoes what --fix has changed there since.
Overwrites(ws) ==
    rewritten' = {x \in rewritten : ~(x[1] \in ws /\ x[2] = "edited")} \cup {<<w, "edited">> : w \in ws \cap readFixed}

\* os.WriteFile truncates before it writes.
ApplyEdit ==
    /\ Running("apply")
    /\ \E ok \in BOOLEAN :
        /\ content' = [content EXCEPT ![Step.workload.name] = IF ok THEN Step.iter ELSE Torn]
        /\ writeFailed' = (writeFailed \/ ~ok)
        /\ Ends(ok)
    /\ Overwrites({Step.workload.name})
    /\ UNCHANGED <<input, binaries, pending, readFixed, compat, runs>>

\* The deferred restore of a function that returns normally.
RestoreEdit ==
    /\ Running("restore")
    /\ \E ok \in BOOLEAN :
        /\ content' = [content EXCEPT ![Step.workload.name] = IF ok THEN 0 ELSE Torn]
        /\ writeFailed' = (writeFailed \/ ~ok)
        /\ pending' = pending \ {Step.workload.name}
        /\ Ends(ok)
    /\ Overwrites({Step.workload.name})
    /\ UNCHANGED <<input, binaries, readFixed, compat, runs>>

(* -------------------------- mutation cases --------------------------- *)

\* createCompatibilityWorktree fails: git adds nothing, as it does where a
\* worktree exists already, or the new worktree has another revision, no
\* configuration or local changes and is removed at once.
WorktreeFails(tree) ==
    /\ Fails
    /\ UNCHANGED created
    /\ \/ UNCHANGED <<trees, kept>>
       \/ /\ tree \notin trees    \* nor removed
          /\ trees' = trees \cup {tree} /\ kept' = kept \cup {tree}

\* prepareMutationWorktrees: the snapshots of the two must be equal.
AddWorktree ==
    /\ Running("worktree")
    /\ LET tree == <<Step.case, Step.label>>
       IN  \/ WorktreeFails(tree)
           \/ /\ tree \notin trees
              /\ trees' = trees \cup {tree}
              /\ created' = Append(created, tree)
              /\ UNCHANGED kept
              /\ \E identical \in BOOLEAN : Ends(identical)
    /\ UNCHANGED <<input, binaries, work, inputs, outDirs, summaries, runs>>

LoadExpected ==
    /\ Running("expected")
    /\ \E ok \in BOOLEAN : Ends(ok)
    /\ UNCHANGED <<input, binaries, work, compat, runs>>

compareChangeSets(a, b) == a.tree = b.tree

compareExpectedResults(a, b) == a.expected /\ b.expected

\* newSummary: Match of two inputs.  A report that is absent on both sides
\* matches, one that cannot be read does not.
Match(a, b) ==
    /\ a.report = b.report /\ a.report # "invalid"
    /\ a.code = b.code /\ a.termination = b.termination
    /\ a.survivors = 0 /\ b.survivors = 0
    /\ compareChangeSets(a, b)
    /\ compareExpectedResults(a, b)

\* captureReport: a report may be absent or unreadable only after a stop.
captureReport(in) == in.report \in {"missing", "invalid"} => in.optional

\* Mutant of Retains: the schema version of the summary is not looked at.
MutRetains(compared, match) == ~match

\* retain of runMutationCompatibility: CompareFiles returned an error with a
\* summary that it wrote, and the summary says that the case differs.
Retains(compared, match) == compared /\ ~match

\* CompareFiles, and what runMutationCompatibility makes of its result.
CompareFiles ==
    /\ Running("compare")
    /\ LET dir == <<Step.case, Step.run>>
           i   == IF Step.run = 0 THEN 1 ELSE Step.run
           a   == inputs["upstream"][i]
           b   == inputs["fork"][i]
           Keep(compared, match) ==
               created' = IF Retains(compared, match) THEN <<>> ELSE created
       IN  \/ \* an I/O error: the summary is the zero value
              Fails /\ Keep(FALSE, FALSE) /\ UNCHANGED <<outDirs, summaries>>
           \/ /\ captureReport(a) /\ captureReport(b) /\ dir \notin outDirs
              /\ outDirs' = outDirs \cup {dir}
              /\ summaries' = summaries \cup
                    {[dir |-> dir, match |-> Match(a, b),
                      named |-> IF Match(a, b) THEN {} ELSE Range(created)]}
              /\ Keep(TRUE, Match(a, b))
              /\ Ends(Match(a, b))
    /\ UNCHANGED <<input, binaries, work, trees, kept, inputs, runs>>

\* removeCompatibilityWorktrees; a removal that fails leaves the worktree.
RemoveCreated ==
    /\ \E f \in SUBSET Range(created) :
        /\ trees' = trees \ (Range(created) \ f)
        /\ kept' = kept \cup f
        /\ failed' = (failed \/ f # {})
    /\ created' = <<>>

RemoveWorktrees ==
    /\ Running("remove")
    /\ RemoveCreated
    /\ IF failed' THEN stage' = "unwind" /\ plan' = <<>> ELSE plan' = Tail(plan) /\ UNCHANGED stage
    /\ UNCHANGED <<input, binaries, work, inputs, outDirs, summaries, runs>>

(* -------------------------------- exit ------------------------------- *)

\* runProfiles refuses a profile module that is not among the targets.
RefuseProfile ==
    /\ Running("fail")
    /\ Fails
    /\ UNCHANGED <<input, binaries, work, compat, runs>>

\* Mutant of Unwind: the restore is made only when the runs succeed.
MutUnwind ==
    /\ stage = "unwind" /\ stage' = "exit"
    /\ RemoveCreated
    /\ UNCHANGED <<input, binaries, plan, work, inputs, outDirs, summaries, runs>>

\* Deferred calls of the functions that return with the error.  An error of
\* the restore does not replace it.
Unwind ==
    /\ stage = "unwind"
    /\ stage' = "exit"
    /\ \E ok \in BOOLEAN :
        /\ pending = {} => ok
        /\ content' = [w \in DOMAIN content |->
                        IF w \notin pending THEN content[w] ELSE IF ok THEN 0 ELSE Torn]
        /\ writeFailed' = (writeFailed \/ ~ok)
    /\ Overwrites(pending)
    /\ pending' = {}
    /\ RemoveCreated
    /\ UNCHANGED <<input, binaries, readFixed, plan, inputs, outDirs, summaries, runs>>

Finish ==
    /\ stage = "plan" /\ plan = <<>>
    /\ stage' = "exit"
    /\ UNCHANGED <<input, binaries, plan, failed, work, compat, runs>>

MatrixNext ==
    \/ BuildPair \/ Prepare
    \/ Execution \/ Parallel \/ CorruptCache
    \/ OpenEditor \/ DeferRestore \/ ApplyEdit \/ RestoreEdit
    \/ AddWorktree \/ LoadExpected \/ CompareFiles \/ RemoveWorktrees
    \/ RefuseProfile \/ Unwind \/ Finish

MatrixSpec == MatrixInit /\ [][MatrixNext]_matrixVars

(* ----------------------------- properties ---------------------------- *)

\* A scenario that mutates is measured: --fix rewrites the workload itself.
MeasuresFixes ==
    /\ ~opts.compatibility
    /\ \E i \in DOMAIN filterScenarios(M.scenarios, opts) : filterScenarios(M.scenarios, opts)[i].mutates

\* A name that filepath.Join resolves, so that two cases can share a cache.
DottedNames ==
    \/ \E i \in DOMAIN M.workloads : M.workloads[i].name \in {".", ".."}
    \/ \E i \in DOMAIN M.scenarios : M.scenarios[i].name \in {".", ".."}

\* A measurement means what its labels say, whatever ran before it: a cold run
\* and a seed start from an empty cache, a warm run has already been run on
\* these very sources, an edit run finds a cache of the pristine sources and an
\* edit that the cache has not seen, and every other run sees the file unedited.
\* What keeps two targets with the same safeName from sharing a cache is only
\* the exclusive creation of the log (cacheDir, artifactBase,
\* executeControlled).  The exceptions: names of dots, and runs on sources that
\* --fix has rewritten, which only a measured scenario that mutates does.
SamplesAreAsLabelled ==
    LET mode    == sample.label[1]
        purpose == sample.label[2]
        seed    == purpose \in {"warm-seed", "cpu-profile-seed", "heap-profile-seed", "trace-seed"}
        source  == sample.source
    IN  sample # NoSample =>
            /\ mode # "edit" \/ seed => source.edit = 0
            /\ mode = "edit" /\ ~seed => source.edit > 0
            /\ source.fixed # {} => MeasuresFixes
            /\ ~DottedNames =>
                  /\ mode = "cold" \/ seed => sample.cache = {}
                  /\ mode = "warm" /\ ~seed /\ source.fixed = {} =>
                        sample.cache = {Unfixed(IF opts.compatibility THEN Corrupt ELSE 0)}
                  /\ mode = "edit" /\ ~seed /\ source.fixed = {} =>
                        Unfixed(0) \in sample.cache /\ source \notin sample.cache

\* Whatever step fails, the harness leaves the edited file of every workload as
\* it found it, unless a write of it failed, and then it exits with an error
\* (the defers of runEditTimings and runProfile); and only a scenario that
\* mutates and is measured leaves files that --fix has rewritten, so that a
\* compatibility run leaves all of them alone (runMutationCompatibility).
WorkloadRestored ==
    stage = "exit" =>
        /\ \A w \in DOMAIN content : content[w] = 0 \/ (writeFailed /\ failed)
        /\ rewritten # {} => MeasuresFixes

\* The worktrees that are left are exactly the ones that a summary.json with a
\* mismatch names, and those that git refused to remove; a run that leaves any
\* reports an error (retain in runMutationCompatibility, newSummary).
WorktreesAccountedFor ==
    LET named == UNION {s.named : s \in summaries}
    IN  stage = "exit" =>
            /\ trees = named \cup kept
            /\ trees # {} => failed

=============================================================================
