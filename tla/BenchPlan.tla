----------------------------- MODULE BenchPlan -----------------------------
(***************************************************************************)
(* What scripts/bench/baseline will do for given options and a manifest:   *)
(* the validation of both, and the list of steps that the nested loops of  *)
(* runTimingMatrix, runProfiles and runCompatibility go through when no    *)
(* step fails.  BenchMatrix executes the list.                             *)
(*                                                                         *)
(* A name is a string; SafeParts gives the parts between dashes of its     *)
(* safeName, so that names joined with "-" collide in the model when they  *)
(* do in the program ("a/b" and "a_b", or "a-b" "c" and "a" "b-c").        *)
(***************************************************************************)
EXTENDS Loops, FiniteSets, TLC, SequencesExt

CONSTANTS
    SafeParts,  \* name -> sequence of the dash-separated parts of safeName(name)
    SafeNames   \* the names that safeName returns unchanged

Labels == <<"upstream", "fork">>
None   == "none"

(* ----------------------------- options ------------------------------- *)

\* Dropping repetitions keeps the first occurrence.
Compact(seq) ==
    Picked(seq, {i \in 1..Len(seq) : ~ \E j \in 1..(i - 1) : seq[j] = seq[i]})

parsePositiveInts(values) == Compact(values)

PositiveInts(values) == values # <<>> /\ \A i \in DOMAIN values : values[i] >= 1

parseCacheModes(values) == Compact(values)

ValidCacheModes(values) ==
    values # <<>> /\ \A i \in DOMAIN values : values[i] \in {"cold", "warm", "edit"}

validateCompatibilityOptions(o) ==
    o.compatibility =>
        /\ o.fork /\ o.upstream
        /\ o.workload # None
        /\ o.concurrency # <<>>
        /\ ~o.profiles

\* limits holds the values of the resource flags that are out of range.
validateOptions(o) ==
    /\ o.fork \/ o.upstream
    /\ o.runs >= 0
    /\ o.limits = {}
    /\ ValidCacheModes(o.modes)
    /\ o.order \in {"fork-first", "upstream-first"}
    /\ validateCompatibilityOptions(o)

applyManifestOverrides(m, o) ==
    [m EXCEPT !.runs = IF o.runs > 0 THEN o.runs ELSE @,
              !.concurrency = IF o.concurrency = <<>> THEN @ ELSE parsePositiveInts(o.concurrency)]

(* ----------------------------- manifest ------------------------------ *)

validateNames(items) ==
    /\ \A i \in DOMAIN items : items[i].name \in SafeNames
    /\ \A i, j \in DOMAIN items : items[i].name = items[j].name => i = j

validateEdit(e) == e # "escapes" /\ e # "no-counter"

validateWorkloads(ws) ==
    /\ validateNames(ws)
    /\ \A i \in DOMAIN ws :
        /\ ws[i].source \in {"url", "path"}
        /\ ws[i].sha
        /\ validateEdit(ws[i].edit)

SpecialModes == {"timeout", "cancel", "parallel", "corrupted-cache"}

\* args is the set of the argument kinds that the harness reserves for itself.
validateScenarioExecution(s) ==
    /\ s.mode \in SpecialModes \cup {""}
    /\ s.mode # "" => ~s.mutates
    /\ {"--fix", "--timeout", "--allow-parallel-runners", "--allow-serial-runners"} \cap s.args = {}

validateRelativePath(path) == path \notin {"", "/abs", ".."}

validateScenario(s) ==
    /\ validateScenarioExecution(s)
    /\ ~(s.useConfig /\ "--no-config" \in s.args)
    /\ s.workDir \notin {"/abs", ".."}
    /\ "" \notin s.packages
    /\ s.expected # {} => s.mutates
    /\ \A path \in s.expected : validateRelativePath(path)

validateScenarios(ss) ==
    validateNames(ss) /\ \A i \in DOMAIN ss : validateScenario(ss[i])

validateManifest(m) ==
    /\ m.schema = 1
    /\ m.goVersion # None
    /\ m.runs >= 1
    /\ PositiveInts(m.concurrency)
    /\ m.workloads # <<>>
    /\ m.scenarios # <<>>
    /\ validateWorkloads(m.workloads)
    /\ validateScenarios(m.scenarios)

(* ------------------------ prepared workloads ------------------------- *)

\* Without configured modules the root of the workload is the target.
resolveTargets(w) == IF w.targets = <<>> THEN [w EXCEPT !.targets = <<".">>] ELSE w

\* The module filter keeps one target and moves the profile module to it.
filterTargets(w, module) ==
    IF module = None THEN w
    ELSE LET kept == Filter(w.targets, LAMBDA t : t = module)
         IN  [w EXCEPT !.targets = IF kept = <<>> THEN <<>> ELSE <<kept[1]>>,
                       !.profileModule = IF kept = <<>> \/ Contains(kept, @) THEN @ ELSE kept[1]]

prepareWorkloads(ws, o) ==
    LET chosen == Filter(ws, LAMBDA w : o.workload \in {None, w.name})
        kept   == [i \in DOMAIN chosen |-> filterTargets(resolveTargets(chosen[i]), o.module)]
    IN  Filter(kept, LAMBDA w : w.targets # <<>>)

filterScenarios(ss, o) == Filter(ss, LAMBDA s : o.scenario \in {None, s.name})

configuredBinaries(o) ==
    Filter(IF o.order = "upstream-first" THEN <<"upstream", "fork">> ELSE <<"fork", "upstream">>,
         LAMBDA l : IF l = "fork" THEN o.fork ELSE o.upstream)

(* ------------------------------- names ------------------------------- *)

\* filepath.Join of safe names: "." is dropped and ".." takes one away.
JoinedPath(names) ==
    LET path[i \in 0..Len(names)] ==
            IF i = 0 THEN <<>>
            ELSE CASE names[i] = <<".">> -> path[i - 1]
                   [] names[i] = <<"..">> -> Front(path[i - 1])
                   [] OTHER -> Append(path[i - 1], names[i])
    IN  path[Len(names)]

cacheDir(bin, w, t, s, j, key) ==
    JoinedPath(<<<<"cache">>, <<bin>>, SafeParts[w], SafeParts[t], SafeParts[s],
                 <<"j" \o ToString(j)>>, <<key>>>>)

artifactBase(bin, w, t, s, j, iter, mode, purpose) ==
    FlattenSeq(<<<<bin>>, SafeParts[w], SafeParts[t], SafeParts[s],
                 <<"j" \o ToString(j), "i" \o ToString(iter), mode, purpose>>>>)

compatibilityCaseBase(w, t, s, j) ==
    FlattenSeq(<<SafeParts[w], SafeParts[t], SafeParts[s], <<"j" \o ToString(j)>>>>)

(* ------------------------------- steps ------------------------------- *)

\* One call of execute.
Execute(bin, w, t, s, j, iter, mode, purpose, key) ==
    [op |-> "execute", bin |-> bin, workload |-> w, scenario |-> s,
     iter |-> iter, mode |-> mode, purpose |-> purpose,
     cache |-> cacheDir(bin, w.name, t, s.name, j, key),
     log |-> artifactBase(bin, w.name, t, s.name, j, iter, mode, purpose)]

Edit(op, w, n) == [op |-> op, workload |-> w, iter |-> n]

runEditTimings(bin, w, t, s, j, runs) ==
    IF w.edit = None THEN <<>>
    ELSE <<Edit("open", w, 0), Edit("defer", w, 0),
           Execute(bin, w, t, s, j, 0, "edit", "warm-seed", "edit")>>
         \o Each(Upto(runs), LAMBDA i :
                <<Edit("apply", w, i), Execute(bin, w, t, s, j, i, "edit", "timing", "edit")>>)
         \o <<Edit("restore", w, 0)>>

runModeTimings(bin, w, t, s, j, runs, mode) ==
    IF mode = "edit" THEN runEditTimings(bin, w, t, s, j, runs)
    ELSE (IF mode = "warm"
          THEN <<Execute(bin, w, t, s, j, 0, mode, "warm-seed", "warm")>> ELSE <<>>)
         \o Each(Upto(runs), LAMBDA i :
                <<Execute(bin, w, t, s, j, i, mode, "timing",
                          IF mode = "cold" THEN "cold-" \o ToString(i) ELSE mode)>>)

runTimingMatrix(p) ==
    Each(p.workloads, LAMBDA w : Each(w.targets, LAMBDA t : Each(p.scenarios, LAMBDA s :
    Each(p.concurrency, LAMBDA j : Each(p.binaries, LAMBDA bin :
        (IF p.prepare THEN <<Execute(bin, w, t, s, j, 0, "prepare", "prepare", "prepare")>> ELSE <<>>)
        \o Each(p.modes, LAMBDA mode : runModeTimings(bin, w, t, s, j, p.runs, mode)))))))

\* Key of the cache of a profile and whether it is seeded first.
profileCache(purpose, mode) ==
    IF mode \in {"warm", "edit"} THEN <<purpose \o "-" \o mode, TRUE>> ELSE <<purpose, FALSE>>

\* In edit mode the restore is deferred only after the edit was written.
runProfile(bin, w, t, s, j, mode, purpose, key) ==
    LET run == Execute(bin, w, t, s, j, 1, mode, purpose, key)
    IN  IF mode # "edit" THEN <<run>>
        ELSE <<Edit("open", w, 0), Edit("apply", w, 1), Edit("defer", w, 0),
               run, Edit("restore", w, 0)>>

runProfiles(p) ==
    Each(p.workloads, LAMBDA w :
    LET t == IF w.profileModule = None THEN w.targets[1] ELSE w.profileModule
    IN  IF ~Contains(w.targets, t) THEN <<[op |-> "fail"]>>
        ELSE Each(p.scenarios, LAMBDA s : Each(p.binaries, LAMBDA bin : Each(p.modes, LAMBDA mode :
             IF mode = "edit" /\ w.edit = None THEN <<>>
             ELSE Each(<<"cpu-profile", "heap-profile", "trace">>, LAMBDA purpose :
                  LET cache == profileCache(purpose, mode)
                  IN  (IF cache[2]
                       THEN <<Execute(bin, w, t, s, p.profileConcurrency, 0, mode,
                                      purpose \o "-seed", cache[1])>> ELSE <<>>)
                      \o runProfile(bin, w, t, s, p.profileConcurrency, mode, purpose, cache[1]))))))

CompareCase(case, run) == [op |-> "compare", case |-> case, run |-> run]

runInterruptedCompatibility(w, t, s, j, case) ==
    LET purpose == "compatibility-" \o s.mode
    IN  Each(Labels, LAMBDA l : <<Execute(l, w, t, s, j, 1, "cold", purpose, purpose)>>)
        \o <<CompareCase(case, 0)>>

runParallelCompatibility(w, t, s, j, case) ==
    Each(Labels, LAMBDA l :
        <<[op |-> "parallel", bin |-> l,
           runs |-> [i \in 1..2 |-> Execute(l, w, t, s, j, 1, "cold",
                        "compatibility-parallel-" \o ToString(i), "compatibility-parallel")]]>>)
    \o <<CompareCase(case, 1), CompareCase(case, 2)>>

runCorruptedCacheCompatibility(w, t, s, j, case) ==
    LET key == "compatibility-corrupted-cache"
    IN  Each(Labels, LAMBDA l :
            <<Execute(l, w, t, s, j, 1, "cold", key \o "-seed", key),
              [op |-> "corrupt", cache |-> cacheDir(l, w.name, t, s.name, j, key)],
              Execute(l, w, t, s, j, 1, "warm", key, key)>>)
        \o <<CompareCase(case, 0)>>

runMutationCompatibility(w, t, s, j, case) ==
    Each(Labels, LAMBDA l : <<[op |-> "worktree", case |-> case, label |-> l]>>)
    \o <<[op |-> "expected"]>>
    \o Each(Labels, LAMBDA l :
           <<Execute(l, w, t, s, j, 1, "cold", "compatibility", "compatibility")>>)
    \o <<CompareCase(case, 0), [op |-> "remove", case |-> case]>>

runSpecialCompatibility(w, t, s, j, case) ==
    CASE s.mode \in {"timeout", "cancel"} -> runInterruptedCompatibility(w, t, s, j, case)
      [] s.mode = "parallel" -> runParallelCompatibility(w, t, s, j, case)
      [] s.mode = "corrupted-cache" -> runCorruptedCacheCompatibility(w, t, s, j, case)

runCompatibility(p) ==
    Each(p.workloads, LAMBDA w : Each(w.targets, LAMBDA t : Each(p.scenarios, LAMBDA s :
    Each(p.concurrency, LAMBDA j :
        LET case == compatibilityCaseBase(w.name, t, s.name, j)
        IN  CASE s.mode # "" -> runSpecialCompatibility(w, t, s, j, case)
              [] s.mode = "" /\ s.mutates -> runMutationCompatibility(w, t, s, j, case)
              [] OTHER ->
                  Each(Labels, LAMBDA l :
                      <<Execute(l, w, t, s, j, 1, "cold", "compatibility", "compatibility")>>)
                  \o <<CompareCase(case, 0)>>))))

\* The steps of runAll for the validated options and manifest.
runAll(o, m) ==
    LET p == [workloads |-> prepareWorkloads(m.workloads, o),
              scenarios |-> filterScenarios(m.scenarios, o),
              concurrency |-> m.concurrency, runs |-> m.runs,
              binaries |-> configuredBinaries(o), modes |-> parseCacheModes(o.modes),
              prepare |-> o.prepare, profileConcurrency |-> o.profileConcurrency]
    IN  IF o.compatibility THEN runCompatibility(p)
        ELSE runTimingMatrix(p) \o (IF o.profiles THEN runProfiles(p) ELSE <<>>)

=============================================================================
