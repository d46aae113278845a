------------------------------ MODULE MCBench ------------------------------
(***************************************************************************)
(* The benchmark harness: the matrix of its cases, or one case with its    *)
(* processes and goroutines.  Small command lines and manifests for        *)
(* BenchMatrix: a workload with two targets whose safe names collide, one  *)
(* with an edit, every kind of scenario, and one broken variant of each    *)
(* validated field.                                                        *)
(***************************************************************************)
EXTENDS BenchMatrix, BenchExecution

Names == {"w1", "w-2", "a/b", "a_b", ".", "..", "plain", "fix", "timeout", "cancel",
          "parallel", "corrupted-cache", "bad name"}

MCSafeParts == [n \in Names |->
    CASE n \in {"a/b", "a_b"} -> <<"a_b">>
      [] n = "w-2" -> <<"w", "2">>
      [] n = "bad name" -> <<"bad_name">>
      [] OTHER -> <<n>>]

MCSafeNames == Names \ {"a/b", "bad name"}

Workload(name, targets, edit) ==
    [name |-> name, source |-> "path", sha |-> TRUE, edit |-> edit, targets |-> targets,
     profileModule |-> None, config |-> name = "w1"]

Scenario(name, special, mutates) ==
    [name |-> name, mode |-> special, mutates |-> mutates, args |-> {}, useConfig |-> FALSE,
     workDir |-> "", packages |-> {}, expected |-> IF mutates THEN {"main.go"} ELSE {}]

Plain == Scenario("plain", "", FALSE)

Manifest(ws, ss) ==
    [schema |-> 1, goVersion |-> "go", decodes |-> TRUE, toolchain |-> TRUE, runs |-> 2,
     concurrency |-> <<1>>, workloads |-> ws, scenarios |-> ss]

Good == Manifest(<<Workload("w1", <<".">>, "edit"), Workload("w-2", <<"a/b">>, None)>>, <<Plain>>)

Colliding == Manifest(<<Workload("w1", <<"a/b", "a_b">>, "edit")>>, <<Plain>>)

Special == Manifest(<<Workload("w1", <<>>, None)>>,
    <<[Plain EXCEPT !.useConfig = TRUE], Scenario("fix", "", TRUE), Scenario("timeout", "timeout", FALSE),
      Scenario("cancel", "cancel", FALSE), Scenario("parallel", "parallel", FALSE),
      Scenario("corrupted-cache", "corrupted-cache", FALSE)>>)

\* A scenario that is measured while it changes its own sources.
Fixing == Manifest(<<Workload("w1", <<".">>, "edit")>>, <<Scenario("fix", "", TRUE)>>)

\* The caches of the two targets are one directory.
Dotted == Manifest(<<Workload("w1", <<"a_b", "w-2">>, None)>>, <<[Plain EXCEPT !.name = ".."]>>)

\* One field of a good manifest is wrong.
Broken ==
    {[Good EXCEPT !.schema = 2], [Good EXCEPT !.runs = 0], [Good EXCEPT !.concurrency = <<>>],
     [Good EXCEPT !.workloads = <<>>], [Good EXCEPT !.decodes = FALSE],
     [Good EXCEPT !.toolchain = FALSE], [Good EXCEPT !.workloads[1].sha = FALSE],
     [Good EXCEPT !.workloads[1].edit = "no-counter"], [Good EXCEPT !.workloads[2].name = "w1"],
     [Good EXCEPT !.workloads[2].profileModule = "a_b"],
     [Good EXCEPT !.scenarios[1].name = "bad name"], [Good EXCEPT !.scenarios[1].args = {"--fix"}],
     [Good EXCEPT !.scenarios[1].expected = {"main.go"}], [Good EXCEPT !.scenarios[1].workDir = ".."]}

MCManifests == {Good, Colliding, Special, Fixing, Dotted} \cup Broken

Timing ==
    [fork |-> TRUE, upstream |-> TRUE, order |-> "fork-first", runs |-> 0, limits |-> {},
     modes |-> <<"cold", "warm", "edit", "cold">>, workload |-> None, module |-> None,
     scenario |-> None, concurrency |-> <<>>, profiles |-> FALSE, compatibility |-> FALSE,
     prepare |-> TRUE, profileConcurrency |-> 1, outExists |-> FALSE]

MCOptions ==
    {Timing, [Timing EXCEPT !.profiles = TRUE, !.upstream = FALSE, !.runs = 1, !.prepare = FALSE],
     [Timing EXCEPT !.fork = FALSE, !.order = "upstream-first", !.concurrency = <<1, 2, 1>>,
                    !.workload = "w1", !.module = "a/b"],
     [Timing EXCEPT !.compatibility = TRUE, !.workload = "w1", !.concurrency = <<1>>],
     [Timing EXCEPT !.compatibility = TRUE], [Timing EXCEPT !.limits = {"--nice"}],
     [Timing EXCEPT !.concurrency = <<0>>], [Timing EXCEPT !.outExists = TRUE],
     [Timing EXCEPT !.scenario = "fix"]}

MCFaults == {"setup", "start", "wait", "record"}

Init == \/ MatrixInit /\ ExecIdle
        \/ MatrixIdle /\ ExecInit

Next == \/ MatrixNext /\ UNCHANGED execVars
        \/ ExecNext /\ UNCHANGED matrixVars

Spec == Init /\ [][Next]_<<matrixVars, execVars>> /\ ExecFairness
=============================================================================
