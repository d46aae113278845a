--------------------------- MODULE BenchExecution ---------------------------
(***************************************************************************)
(* One benchmarked process of scripts/bench/baseline: executeControlled    *)
(* and runControlledCommand with the goroutines that they start, for one   *)
(* execution or for the two simultaneous ones of a parallel case.          *)
(*                                                                         *)
(* Of a process tree the model keeps the root and one more member of its   *)
(* process group.  Times are abstracted to the order of events: the        *)
(* deadline of the run and the cancellation timer may fire at any moment.  *)
(***************************************************************************)
EXTENDS Integers, FiniteSets

CONSTANTS
    Procs,      \* the executions of a parallel case
    Forking,    \* those of them whose root starts another process
    Codes,      \* exit codes of the root process
    Faults      \* subset of {"setup", "start", "wait", "record"}

ASSUME BenchAssumption ==
    /\ Procs # {} /\ IsFiniteSet(Procs)
    /\ Forking \subseteq Procs /\ Forking # {}
    /\ Codes \subseteq Nat
    /\ Faults \subseteq {"setup", "start", "wait", "record"}

Modes == {"timing", "compatibility", "compatibility-cancel", "compatibility-parallel"}

VARIABLES
    mode,       \* the purpose of the case
    main,       \* place of each executeControlled
    ctx,        \* runCtx: "live", "canceled" or "deadline"
    root,       \* the root process: "none", "running", "exited", "killed"
    child,      \* the other member of the group: the same, or "orphan"
    status,     \* what cmd.Wait reports
    finished,   \* the channel is closed
    killer,     \* the goroutine of startCommand
    orphaned,   \* processTermination.orphaned
    canceller,  \* the goroutine of scheduleCancellation
    memory,     \* the goroutine of trackPeakTreeRSS
    exceeded,   \* memoryStats.exceeded, once sent
    stop,       \* stopMemory is closed
    stats,      \* terminationReason, exitCode, survivingProcesses
    results,    \* records in results.jsonl
    readies,    \* what is in the ready channel, and what has been taken
    started,    \* start is closed
    collector   \* place of runParallelBinary

tree    == <<root, child, status>>
threads == <<killer, orphaned, canceller, memory, exceeded, stop, finished>>
handshake    == <<readies, started, collector>>
execVars    == <<mode, main, ctx, tree, threads, stats, results, handshake>>

IsParallel == mode = "compatibility-parallel"
First    == CHOOSE p \in Forking : TRUE
Active   == {p \in Procs : main[p] # "unused"}

Killed   == -1
NoStatus == -2

NoStats == [reason |-> "none", code |-> 0, survivors |-> 0]

ExecStart(m) ==
    /\ mode = m
    /\ main = [p \in Procs |-> IF IsParallel \/ (m # "none" /\ p = First) THEN "setup" ELSE "unused"]
    /\ ctx = [p \in Procs |-> "live"]
    /\ root = [p \in Procs |-> "none"]
    /\ child = [p \in Procs |-> "none"]
    /\ status = [p \in Procs |-> NoStatus]
    /\ finished = [p \in Procs |-> FALSE]
    /\ killer = [p \in Procs |-> "none"]
    /\ orphaned = [p \in Procs |-> 0]
    /\ canceller = [p \in Procs |-> "none"]
    /\ memory = [p \in Procs |-> "none"]
    /\ exceeded = [p \in Procs |-> FALSE]
    /\ stop = [p \in Procs |-> FALSE]
    /\ stats = [p \in Procs |-> NoStats]
    /\ results = {}
    /\ readies = [sent |-> {}, taken |-> 0]
    /\ started = FALSE
    /\ collector = IF IsParallel THEN "ready" ELSE "none"

ExecInit == \E m \in Modes : ExecStart(m)

\* Nothing is executed.
ExecIdle == ExecStart("none")

Goto(p, from, to) == main[p] = from /\ main' = [main EXCEPT ![p] = to]

\* The deferred send: a failed execution reports on ready what it has not
\* reported yet.
SendReady(p) ==
    readies' = IF IsParallel THEN [readies EXCEPT !.sent = @ \cup {p}] ELSE readies

-----------------------------------------------------------------------------
(* executeControlled.                                                      *)

\* Cache directory, working directory, arguments, log file, cache size; then
\* the deadline starts and the execution is ready.
Setup(p) ==
    /\ Goto(p, "setup", IF IsParallel THEN "start" ELSE "spawn")
    /\ SendReady(p)
    /\ UNCHANGED <<mode, ctx, tree, threads, stats, results, started, collector>>

SetupFails(p) ==
    /\ "setup" \in Faults
    /\ Goto(p, "setup", "failed")
    /\ SendReady(p)
    /\ UNCHANGED <<mode, ctx, tree, threads, stats, results, started, collector>>

\* The first select of runControlledCommand.
AwaitStart(p) ==
    /\ \/ started /\ Goto(p, "start", "spawn")
       \/ ctx[p] # "live" /\ Goto(p, "start", "failed")
    /\ UNCHANGED <<mode, ctx, tree, threads, stats, results, handshake>>

\* startCommand, scheduleCancellation and trackPeakTreeRSS.
StartCommand(p) ==
    /\ ctx[p] = "live"
    /\ Goto(p, "spawn", "wait")
    /\ root' = [root EXCEPT ![p] = "running"]
    /\ killer' = [killer EXCEPT ![p] = "select"]
    /\ canceller' = [canceller EXCEPT ![p] =
            IF mode = "compatibility-cancel" THEN "select" ELSE "zero"]
    /\ memory' = [memory EXCEPT ![p] = "sample"]
    /\ UNCHANGED <<mode, ctx, child, status, orphaned, exceeded, stop, finished, stats,
                   results, handshake>>

StartFails(p) ==
    /\ ctx[p] # "live" \/ "start" \in Faults
    /\ Goto(p, "spawn", "failed")
    /\ UNCHANGED <<mode, ctx, tree, threads, stats, results, handshake>>

\* cmd.Wait returns when the root has ended; the output is a file, so nothing
\* else keeps it.
WaitReturns(p) ==
    /\ root[p] \in {"exited", "killed"}
    /\ Goto(p, "wait", "cancelled_at")
    /\ finished' = [finished EXCEPT ![p] = TRUE]
    /\ child' = [child EXCEPT ![p] = IF @ = "running" THEN "orphan" ELSE @]
    /\ UNCHANGED <<mode, ctx, root, status, killer, orphaned, canceller, memory, exceeded,
                   stop, stats, results, handshake>>

ReceiveCancelledAt(p) ==
    /\ canceller[p] \in {"zero", "sent"}
    /\ Goto(p, "cancelled_at", "terminated")
    /\ UNCHANGED <<mode, ctx, tree, threads, stats, results, handshake>>

ReceiveTermination(p) ==
    /\ killer[p] = "sent"
    /\ Goto(p, "terminated", "peak")
    /\ stop' = [stop EXCEPT ![p] = TRUE]
    /\ UNCHANGED <<mode, ctx, tree, killer, orphaned, canceller, memory, exceeded, finished,
                   stats, results, handshake>>

\* The order of the tests decides which of two reasons is named.
MutReason(p) ==
    CASE exceeded[p] -> "rss_limit"
      [] ctx[p] = "deadline" -> "timeout"
      [] OTHER -> ""
Reason(p) ==
    CASE exceeded[p] -> "rss_limit"
      [] ~exceeded[p] /\ canceller[p] = "sent" -> "cancel"
      [] ~exceeded[p] /\ canceller[p] # "sent" /\ ctx[p] = "deadline" -> "timeout"
      [] OTHER -> ""

\* The result of the sampler is there before it cancels.
Classify(p) ==
    /\ memory[p] \in {"cancel", "sent"}
    /\ Goto(p, "peak", "exit_wait")
    /\ stats' = [stats EXCEPT ![p].reason = Reason(p)]
    /\ UNCHANGED <<mode, ctx, tree, threads, results, handshake>>

\* waitForProcessExit: what was killed is gone within processExitWait; every
\* orphan was counted by the killer, and terminateResidualProcesses, which can
\* fail, finds none of the group.
CountSurvivors(p) ==
    /\ \/ /\ Goto(p, "exit_wait", "exit_code")
          /\ stats' = [stats EXCEPT ![p].survivors = orphaned[p]]
       \/ /\ "wait" \in Faults
          /\ Goto(p, "exit_wait", "failed")
          /\ UNCHANGED stats
    /\ UNCHANGED <<mode, ctx, tree, threads, results, handshake>>

\* commandExitCode; ExitCode() of a killed process is -1.
CommandExitCode(p) ==
    /\ \/ /\ Goto(p, "exit_code", "record")
          /\ stats' = [stats EXCEPT ![p].code = status[p]]
       \/ /\ "wait" \in Faults
          /\ Goto(p, "exit_code", "failed")
          /\ UNCHANGED stats
    /\ UNCHANGED <<mode, ctx, tree, threads, results, handshake>>

\* recordExecution: the record is written before the verdict on it.
Rejected(s) ==
    \/ s.reason # "" /\ mode # "compatibility-cancel"
    \/ s.code # 0 /\ mode = "timing"

RecordExecution(p) ==
    \/ /\ Goto(p, "record", IF Rejected(stats[p]) THEN "failed" ELSE "done")
       /\ results' = results \cup {p}
       /\ UNCHANGED <<mode, ctx, tree, threads, stats, handshake>>
    \/ /\ "record" \in Faults
       /\ Goto(p, "record", "failed")
       /\ UNCHANGED <<mode, ctx, tree, threads, stats, results, handshake>>

Returned(p) == main[p] \in {"done", "failed"}

-----------------------------------------------------------------------------
(* The goroutines.                                                         *)

Awake(p) == finished[p] \/ ctx[p] # "live"

\* terminateProcessTree: SIGKILL for the group, if there is one.
GroupAlive(p) == root[p] = "running" \/ child[p] \in {"running", "orphan"}

KillGroup(p) ==
    /\ root' = [root EXCEPT ![p] = IF @ = "running" THEN "killed" ELSE @]
    /\ status' = [status EXCEPT ![p] = IF root[p] = "running" THEN Killed ELSE @]
    /\ child' = [child EXCEPT ![p] = IF @ \in {"running", "orphan"} THEN "killed" ELSE @]

\* The select takes either ready branch; only the one for a finished command
\* counts what it finds.
MutKillerSelect(p) ==
    /\ killer[p] = "select" /\ Awake(p)
    /\ killer' = [killer EXCEPT ![p] = IF ctx[p] # "live" THEN "kill" ELSE "sent"]
    /\ UNCHANGED <<mode, main, ctx, tree, orphaned, canceller, memory, exceeded, stop,
                   finished, stats, results, handshake>>
MutKillerIgnoresCtx(p) ==
    /\ killer[p] = "select" /\ finished[p]
    /\ killer' = [killer EXCEPT ![p] = "reap"]
    /\ UNCHANGED <<mode, main, ctx, tree, orphaned, canceller, memory, exceeded, stop,
                   finished, stats, results, handshake>>
KillerSelect(p) ==
    /\ killer[p] = "select"
    /\ \/ ctx[p] # "live" /\ killer' = [killer EXCEPT ![p] = "kill"]
       \/ finished[p] /\ killer' = [killer EXCEPT ![p] = "reap"]
    /\ UNCHANGED <<mode, main, ctx, tree, orphaned, canceller, memory, exceeded, stop,
                   finished, stats, results, handshake>>

KillerKills(p) ==
    /\ killer[p] \in {"kill", "reap"}
    /\ killer' = [killer EXCEPT ![p] = "sent"]
    /\ orphaned' = [orphaned EXCEPT ![p] =
            IF killer[p] = "reap" /\ GroupAlive(p) THEN 1 ELSE 0]
    /\ KillGroup(p)
    /\ UNCHANGED <<mode, main, ctx, canceller, memory, exceeded, stop, finished, stats,
                   results, handshake>>

\* context.CancelFunc: the first cause stays.
Cancel(p) == ctx' = [ctx EXCEPT ![p] = IF @ = "live" THEN "canceled" ELSE @]

CancellerSelect(p) ==
    /\ canceller[p] = "select"
    /\ \/ canceller' = [canceller EXCEPT ![p] = "cancel"]
       \/ finished[p] /\ canceller' = [canceller EXCEPT ![p] = "zero"]
    /\ UNCHANGED <<mode, main, ctx, tree, killer, orphaned, memory, exceeded, stop, finished,
                   stats, results, handshake>>

CancellerCancels(p) ==
    /\ canceller[p] = "cancel"
    /\ canceller' = [canceller EXCEPT ![p] = "sent"]
    /\ Cancel(p)
    /\ UNCHANGED <<mode, main, tree, killer, orphaned, memory, exceeded, stop, finished,
                   stats, results, handshake>>

\* A sample is above the limit only while there is something to measure; the
\* result is sent before the cancellation.
MemorySample(p) ==
    /\ memory[p] = "sample"
    /\ \/ /\ memory' = [memory EXCEPT ![p] = "select"]
          /\ UNCHANGED exceeded
       \/ /\ root[p] = "running"
          /\ memory' = [memory EXCEPT ![p] = "cancel"]
          /\ exceeded' = [exceeded EXCEPT ![p] = TRUE]
    /\ UNCHANGED <<mode, main, ctx, tree, killer, orphaned, canceller, stop, finished, stats,
                   results, handshake>>

MemoryCancels(p) ==
    /\ memory[p] = "cancel"
    /\ memory' = [memory EXCEPT ![p] = "sent"]
    /\ Cancel(p)
    /\ UNCHANGED <<mode, main, tree, killer, orphaned, canceller, exceeded, stop, finished,
                   stats, results, handshake>>

MemorySelect(p) ==
    /\ memory[p] = "select"
    /\ \/ memory' = [memory EXCEPT ![p] = "sample"]
       \/ ctx[p] # "live" /\ memory' = [memory EXCEPT ![p] = "sent"]
       \/ stop[p] /\ memory' = [memory EXCEPT ![p] = "sent"]
    /\ UNCHANGED <<mode, main, ctx, tree, killer, orphaned, canceller, exceeded, stop,
                   finished, stats, results, handshake>>

-----------------------------------------------------------------------------
(* runParallelBinary.                                                      *)

CollectReady ==
    /\ collector = "ready"
    /\ Cardinality(readies.sent) > readies.taken
    /\ readies' = [readies EXCEPT !.taken = @ + 1]
    /\ UNCHANGED <<mode, main, ctx, tree, threads, stats, results, started, collector>>

CloseStart ==
    /\ collector = "ready"
    /\ readies.taken = Cardinality(Procs)
    /\ collector' = "results"
    /\ started' = TRUE
    /\ UNCHANGED <<mode, main, ctx, tree, threads, stats, results, readies>>

CollectResults ==
    /\ collector = "results"
    /\ \A p \in Procs : Returned(p)
    /\ collector' = IF \E p \in Procs : main[p] = "failed" THEN "failed" ELSE "done"
    /\ UNCHANGED <<mode, main, ctx, tree, threads, stats, results, readies, started>>

-----------------------------------------------------------------------------
(* The operating system and the clock.                                     *)

RootExits(p, c) ==
    /\ root[p] = "running"
    /\ root' = [root EXCEPT ![p] = "exited"]
    /\ status' = [status EXCEPT ![p] = c]
    /\ UNCHANGED <<mode, main, ctx, child, threads, stats, results, handshake>>

ChildStarts(p) ==
    /\ p \in Forking
    /\ root[p] = "running" /\ child[p] = "none"
    /\ child' = [child EXCEPT ![p] = "running"]
    /\ UNCHANGED <<mode, main, ctx, root, status, threads, stats, results, handshake>>

ChildExits(p) ==
    /\ child[p] = "running"
    /\ child' = [child EXCEPT ![p] = "exited"]
    /\ UNCHANGED <<mode, main, ctx, root, status, threads, stats, results, handshake>>

\* RunTimeout; the deferred cancel releases the context of an ended execution.
Deadline(p) ==
    /\ main[p] \notin {"unused", "setup"} /\ ~Returned(p)
    /\ ctx[p] = "live"
    /\ ctx' = [ctx EXCEPT ![p] = "deadline"]
    /\ UNCHANGED <<mode, main, tree, threads, stats, results, handshake>>

-----------------------------------------------------------------------------

MainStep(p) ==
    \/ Setup(p) \/ SetupFails(p) \/ AwaitStart(p) \/ StartCommand(p) \/ StartFails(p)
    \/ WaitReturns(p) \/ ReceiveCancelledAt(p) \/ ReceiveTermination(p) \/ Classify(p)
    \/ CountSurvivors(p) \/ CommandExitCode(p) \/ RecordExecution(p)

KillerStep(p)    == KillerSelect(p) \/ KillerKills(p)
CancellerStep(p) == CancellerSelect(p) \/ CancellerCancels(p)
MemoryStep(p)    == MemorySample(p) \/ MemoryCancels(p) \/ MemorySelect(p)
Collector        == CollectReady \/ CloseStart \/ CollectResults

World(p) == (\E c \in Codes : RootExits(p, c)) \/ ChildStarts(p) \/ ChildExits(p) \/ Deadline(p)

Finished == collector \in {"none", "done", "failed"} /\ \A p \in Active : Returned(p)
Terminated == Finished /\ UNCHANGED execVars

ExecNext ==
    \/ \E p \in Active : MainStep(p) \/ KillerStep(p) \/ CancellerStep(p) \/ MemoryStep(p)
                         \/ World(p)
    \/ Collector
    \/ Terminated

\* Without fairness, for what may never happen.
ExecSpec == ExecInit /\ [][ExecNext]_execVars

\* The Go scheduler runs every goroutine and the clock reaches the deadline;
\* nothing is assumed of the processes.  A memory goroutine whose ticker and
\* stop channel are both ready takes the latter at some time.
ExecFairness ==
    /\ \A p \in Procs :
        /\ WF_execVars(MainStep(p)) /\ WF_execVars(KillerStep(p)) /\ WF_execVars(CancellerStep(p))
        /\ WF_execVars(MemoryStep(p)) /\ WF_execVars(Deadline(p))
        /\ SF_execVars(MemorySelect(p) /\ memory'[p] = "sent")
    /\ WF_execVars(Collector)

-----------------------------------------------------------------------------

\* A process that the harness killed is never taken for one that ended by
\* itself: its record names the limit, the cancellation or the timeout
\* (runControlledCommand classifies only after both goroutines that may cancel
\* have answered), so that no timing sample stems from a killed process.
KilledIsReported ==
    \A p \in Procs :
        main[p] \in {"exit_code", "record", "done"} /\ status[p] = Killed
        => stats[p].reason # "" /\ (main[p] = "done" => mode = "compatibility-cancel")

\* scripts/bench/readme.md: "every case rejects surviving child processes".
\* A member of the process group that outlives its root is counted if the
\* command ended by itself, and nothing of the group runs on in any case.
OrphansAreCounted ==
    \A p \in Procs : main[p] \in {"exit_code", "record", "done"} =>
        /\ child[p] \notin {"running", "orphan"}
        /\ child[p] = "killed" /\ stats[p].reason = "" => stats[p].survivors > 0

\* Every execution ends, whatever its process does, and the executions of a
\* parallel case do not wait for each other for ever (ready, start, results).
ExecutionEnds == <>Finished

=============================================================================
