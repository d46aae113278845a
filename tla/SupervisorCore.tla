--------------------------- MODULE SupervisorCore ---------------------------
(***************************************************************************)
(* rust/crates/golangci-supervisor/src/lib.rs: what the direct run and the *)
(* worker run of golangci-supervisor share.                                *)
(*                                                                         *)
(* Three kinds of threads meet here.  The main thread spawns the Go        *)
(* process in its own process group, polls it, and then cleans up, stops   *)
(* the memory monitor, writes the outcome report and returns the exit code *)
(* (pc).  The memory monitor samples the process tree.  Signal listeners   *)
(* and the monitor request cancellation through Cancellation: an atomic    *)
(* cause that main reads without a lock, and a timestamp under a mutex.    *)
(*                                                                         *)
(* The process group is its leader (the Go process) and whether any other  *)
(* member is alive.  A duration is abstracted to "elapsed or not".  The    *)
(* environment decides which system calls may fail (Faults).               *)
(***************************************************************************)
EXTENDS Integers

CONSTANTS
    Envs,      \* the environments the supervisor may be started in
    Listeners, \* deliveries of an interrupt or termination signal
    Statuses,  \* how the Go process may end on its own
    Samples,   \* resident set sizes a sample of a live tree may give
    Limit,     \* GOLANGCI_SUPERVISOR_MAX_RSS_BYTES when it is set
    MayFork,   \* whether the Go process starts other processes
    Faults     \* the calls that may fail

FaultNames == {"handler", "bind", "spawn", "try_wait", "kill", "wait", "panic", "report", "transport"}

\* The values of an optional numeric variable, as parse_optional_u64 tells
\* them apart.
Numeric == {"unset", "zero", "set", "bad"}

EnvValues ==
    [target : {"unset", "set"}, transport : {"unset", "worker", "other"},
     timeout : Numeric, limit : Numeric, poll : Numeric, report : {"unset", "set"}]

ASSUME CoreAssumption ==
    /\ Envs \subseteq EnvValues
    /\ "monitor" \notin Listeners /\ "none" \notin Listeners
    /\ Samples \subseteq Nat
    /\ Limit \in Nat
    /\ MayFork \in BOOLEAN
    /\ Faults \subseteq FaultNames
    /\ Statuses \subseteq [code : Nat, signal : {0}] \cup [code : {-1}, signal : Nat \ {0}]

EXIT_TIMEOUT    == 124
EXIT_RSS_LIMIT  == 125
EXIT_SUPERVISOR == 126
EXIT_STARTUP    == 127
EXIT_CANCELLED  == 130

NoCode == -1

\* An ExitStatus: its code, or -1 and the signal that ended the process.
NoStatus == [code |-> NoCode, signal |-> 0]
Killed   == [code |-> NoCode, signal |-> 9]

Requesters == Listeners \cup {"monitor"}

VARIABLES
    env,         \* the supervisor's environment variables
    pc,          \* where the main thread is
    completion,  \* Completion, or the failure the main thread has met
    leader,      \* the Go process: "none", "running", "exited" or "reaped"
    status,      \* its exit status
    group,       \* another member of its process group is alive
    armed,       \* ManagedChild.armed
    killError,   \* terminate: kill_error or wait_error is set
    elapsed,     \* GOLANGCI_SUPERVISOR_TIMEOUT_MS has passed since `started`
    cause,       \* Cancellation.cause
    requestedAt, \* Cancellation.requested_at: whose request it was, or "none"
    lock,        \* who holds the mutex of requested_at
    req,         \* where each requester is in cancel_with
    monitor,     \* where the memory monitor's thread is
    rss,         \* its last sample
    peak,        \* MemoryMonitor.peak
    stopSent,    \* self.stop.send(())
    report,      \* the outcome report on disk
    result       \* the exit code of the supervisor

proc == <<leader, status, group, armed, killError>>
canc == <<cause, requestedAt, lock, req>>
mem  == <<monitor, rss, peak, stopSent>>
out  == <<report, result>>
core == <<env, pc, completion, elapsed, proc, canc, mem, out>>

NoReport ==
    [termination |-> "none", code |-> NoCode, signal |-> 0, peak |-> 0,
     latency |-> "none", survivors |-> "none"]

CoreInit ==
    /\ env \in Envs
    /\ pc = "configure"
    /\ completion = "none"
    /\ leader = "none" /\ status = NoStatus /\ group = FALSE
    /\ armed = FALSE /\ killError = FALSE
    /\ elapsed = FALSE
    /\ cause = "none" /\ requestedAt = "none" /\ lock = "none"
    /\ req = [t \in Requesters |-> "idle"]
    /\ monitor = "none" /\ rss = 0 /\ peak = 0 /\ stopSent = FALSE
    /\ report = NoReport /\ result = NoCode

Goto(from, to) == pc = from /\ pc' = to

-----------------------------------------------------------------------------
(* Config::from_lookup and main.                                           *)

ValidConfig ==
    /\ env.target = "set"
    /\ env.transport # "other"
    /\ "bad" \notin {env.timeout, env.limit, env.poll}
    /\ env.poll # "zero"

\* parse_optional_u64: zero disables the limit.
HasTimeout == env.timeout = "set"
HasLimit   == env.limit = "set"
HasReport  == env.report = "set"

\* main: the configuration and the signal handler come before the run.
Configure ==
    /\ \E ok \in {ValidConfig} \cup (IF "handler" \in Faults THEN {FALSE} ELSE {}) :
            /\ Goto("configure", IF ok THEN "check" ELSE "drop")
            /\ result' = IF ok THEN result ELSE EXIT_SUPERVISOR
    /\ UNCHANGED <<env, completion, elapsed, proc, canc, mem, report>>

-----------------------------------------------------------------------------
(* Cancellation.  The handler is installed before run() is called.         *)

\* cancel_with takes the mutex and tries to set the cause.
MutRequestOverwrites(t, c) ==
    /\ req[t] = "idle"
    /\ lock = "none"
    /\ lock' = t
    /\ req' = [req EXCEPT ![t] = "won"]
    /\ cause' = c
    /\ UNCHANGED requestedAt
Request(t, c) ==
    /\ req[t] = "idle"
    /\ lock = "none"
    /\ lock' = t
    /\ req' = [req EXCEPT ![t] = IF cause = "none" THEN "won" ELSE "lost"]
    /\ cause' = IF cause = "none" THEN c ELSE cause
    /\ UNCHANGED requestedAt

\* The winner stores its timestamp; the mutex is released.
Stamp(t) ==
    /\ req[t] \in {"won", "lost"}
    /\ requestedAt' = IF req[t] = "won" THEN t ELSE requestedAt
    /\ req' = [req EXCEPT ![t] = "done"]
    /\ lock' = IF lock = t THEN "none" ELSE lock
    /\ UNCHANGED cause

\* cancel(), from the signal listener, at any moment of the run.
Interrupt(t) ==
    /\ pc \notin {"configure", "done"}
    /\ Request(t, "cancelled")
    /\ UNCHANGED <<env, pc, completion, elapsed, proc, mem, out>>

InterruptStamp(t) ==
    /\ pc # "done"
    /\ Stamp(t)
    /\ UNCHANGED <<env, pc, completion, elapsed, proc, mem, out>>

-----------------------------------------------------------------------------
(* MemoryMonitor.                                                          *)

MonitorStep(from, to) == pc # "done" /\ monitor = from /\ monitor' = to

\* The sampler follows parent links from the leader, so that nothing counts
\* once the leader is gone.
MutSample ==
    /\ MonitorStep("sample", "compare")
    /\ \E s \in IF leader = "running" THEN Samples ELSE {0} :
            /\ rss' = s
            /\ peak' = IF s > peak /\ s <= Limit THEN s ELSE peak
    /\ UNCHANGED <<env, pc, completion, elapsed, proc, canc, stopSent, out>>
Sample ==
    /\ MonitorStep("sample", "compare")
    /\ \E s \in IF leader = "running" THEN Samples ELSE {0} :
            /\ rss' = s
            /\ peak' = IF s > peak THEN s ELSE peak
    /\ UNCHANGED <<env, pc, completion, elapsed, proc, canc, stopSent, out>>

Compare ==
    /\ MonitorStep("compare", IF HasLimit /\ rss > Limit THEN "cancel" ELSE "wait")
    /\ UNCHANGED <<env, pc, completion, elapsed, proc, canc, rss, peak, stopSent, out>>

\* cancel_for_rss, and the thread returns.
CancelForRss ==
    /\ monitor = "cancel" /\ pc # "done"
    /\ Request("monitor", "rss")
    /\ UNCHANGED <<env, pc, completion, elapsed, proc, mem, out>>

CancelForRssStamp ==
    /\ MonitorStep("cancel", "ended")
    /\ Stamp("monitor")
    /\ UNCHANGED <<env, pc, completion, elapsed, proc, rss, peak, stopSent, out>>

\* stop_rx.recv_timeout: the stop message ends the thread; the interval, or a
\* sender dropped without a message, starts the next sample.
MonitorStops ==
    /\ MonitorStep("wait", "ended")
    /\ stopSent
    /\ UNCHANGED <<env, pc, completion, elapsed, proc, canc, rss, peak, stopSent, out>>

MonitorAgain ==
    /\ MonitorStep("wait", "sample")
    /\ ~stopSent
    /\ UNCHANGED <<env, pc, completion, elapsed, proc, canc, rss, peak, stopSent, out>>

MonitorPanics ==
    /\ "panic" \in Faults
    /\ MonitorStep("sample", "panicked")
    /\ UNCHANGED <<env, pc, completion, elapsed, proc, canc, rss, peak, stopSent, out>>

-----------------------------------------------------------------------------
(* The process group and the clock.                                        *)

Elapse ==
    /\ pc # "done" /\ leader # "none" /\ HasTimeout
    /\ ~elapsed
    /\ elapsed' = TRUE
    /\ UNCHANGED <<env, pc, completion, proc, canc, mem, out>>

Fork ==
    /\ pc # "done" /\ MayFork
    /\ leader = "running" /\ ~group
    /\ group' = TRUE
    /\ UNCHANGED <<env, pc, completion, elapsed, leader, status, armed, killError, canc, mem, out>>

GroupEnds ==
    /\ pc # "done"
    /\ group
    /\ group' = FALSE
    /\ UNCHANGED <<env, pc, completion, elapsed, leader, status, armed, killError, canc, mem, out>>

LeaderEnds(s) ==
    /\ leader = "running"
    /\ leader' = "exited"
    /\ status' = s
    /\ UNCHANGED <<env, pc, completion, elapsed, group, armed, killError, canc, mem, out>>

\* GroupChild::kill.  An absent process is not an error.
KillSucceeds ==
    /\ leader' = IF leader = "running" THEN "exited" ELSE leader
    /\ status' = IF leader = "running" THEN Killed ELSE status
    /\ group' = FALSE

KillFails ==
    /\ "kill" \in Faults
    /\ leader # "reaped" \/ group
    /\ UNCHANGED <<leader, status, group>>

-----------------------------------------------------------------------------
(* The main thread: start, clean up, report.                               *)

\* A cancellation that came first leaves nothing to run.
CheckCancelled(next) ==
    /\ Goto("check", IF cause = "none" THEN next ELSE "finish")
    /\ completion' = IF cause = "none" THEN completion ELSE "cancelled"
    /\ UNCHANGED <<env, elapsed, proc, canc, mem, out>>

\* spawn_group, ManagedChild::new and MemoryMonitor::start.
Spawn(next) ==
    /\ Goto("spawn", next)
    /\ leader' = "running"
    /\ armed' = TRUE
    /\ monitor' = IF HasReport \/ HasLimit THEN "sample" ELSE "none"
    /\ UNCHANGED <<env, completion, elapsed, status, group, killError, canc, rss, peak, stopSent, out>>

SpawnFails ==
    /\ "spawn" \in Faults
    /\ Goto("spawn", "finish")
    /\ completion' = "startup"
    /\ UNCHANGED <<env, elapsed, proc, canc, mem, out>>

Decide(c) == completion' = c /\ pc' = "kill"

\* try_wait: the leader's status, once it has ended.
ReapLeader ==
    /\ leader = "exited"
    /\ leader' = "reaped"
    /\ UNCHANGED <<status, group, armed, killError>>

\* Errors of these completions are reported with the error that caused them;
\* any other cleanup error leaves the function through `?`.
CleanupErrorsKept == {"failed", "protocol"}

\* finish_after_exit: the leader is gone, its descendants may not be.
MutFinishAfterExit ==
    /\ completion = "exited"
    /\ Goto("kill", "stop")
    /\ armed' = FALSE
    /\ UNCHANGED <<leader, status, group, killError>>
    /\ UNCHANGED <<env, completion, elapsed, canc, mem, out>>
FinishAfterExit ==
    /\ completion = "exited"
    /\ \/ Goto("kill", "stop") /\ KillSucceeds /\ armed' = FALSE
       \/ Goto("kill", "abandon") /\ KillFails /\ UNCHANGED armed
    /\ UNCHANGED <<env, completion, elapsed, killError, canc, mem, out>>

\* terminate: kill the group, then reap the leader.
Terminate ==
    /\ completion # "exited"
    /\ Goto("kill", "reap")
    /\ \/ KillSucceeds /\ UNCHANGED killError
       \/ KillFails /\ killError' = TRUE
    /\ UNCHANGED <<env, completion, elapsed, armed, canc, mem, out>>

Reaped(to, error) ==
    /\ Goto("reap", to)
    /\ leader' = IF error THEN leader ELSE "reaped"
    /\ killError' = (killError \/ error)
    /\ armed' = killError'

TerminateReap ==
    /\ \/ leader # "running" /\ Reaped(IF killError /\ completion \notin CleanupErrorsKept
                                       THEN "abandon" ELSE "stop", FALSE)
       \/ "wait" \in Faults /\ Reaped(IF completion \in CleanupErrorsKept
                                      THEN "stop" ELSE "abandon", TRUE)
    /\ UNCHANGED <<env, completion, elapsed, status, group, canc, mem, out>>

\* The error leaves through `?`: no report.
Abandon ==
    /\ Goto("abandon", "drop")
    /\ result' = EXIT_SUPERVISOR
    /\ UNCHANGED <<env, completion, elapsed, proc, canc, mem, report>>

\* MemoryMonitor::stop sends the message and joins the thread.
StopMonitor ==
    /\ Goto("stop", "join")
    /\ stopSent' = TRUE
    /\ UNCHANGED <<env, completion, elapsed, proc, canc, monitor, rss, peak, out>>

MonitorGone == monitor \in {"none", "ended", "panicked"}

JoinMonitor(next) ==
    /\ MonitorGone
    /\ Goto("join", IF monitor = "panicked" /\ completion \notin CleanupErrorsKept
                    THEN "abandon" ELSE next)
    /\ UNCHANGED <<env, completion, elapsed, proc, canc, mem, out>>

\* finish_cancelled reads the cause again.
CancelTermination == IF cause = "rss" THEN "rss_limit" ELSE "cancelled"
CancelExit        == IF cause = "rss" THEN EXIT_RSS_LIMIT ELSE EXIT_CANCELLED

\* Report::completed and Report::failed, with what stop_monitor returned.
ReportAs(t, s, latency) ==
    [termination |-> t, code |-> s.code, signal |-> s.signal,
     peak |-> IF monitor = "panicked" THEN 0 ELSE peak,
     latency |-> latency,
     survivors |-> IF monitor = "panicked" THEN "unknown" ELSE "zero"]

\* write_optional_report: the exit code stands only if the report is on disk.
FinishWith(r, code) ==
    /\ Goto("finish", "drop")
    /\ \/ HasReport /\ report' = r /\ result' = code
       \/ ~HasReport /\ UNCHANGED report /\ result' = code
       \/ HasReport /\ "report" \in Faults /\ UNCHANGED report /\ result' = EXIT_SUPERVISOR
    /\ UNCHANGED <<env, completion, elapsed, proc, canc, mem>>

FinishTimeout ==
    completion = "timeout" /\ FinishWith(ReportAs("timeout", NoStatus, "none"), EXIT_TIMEOUT)

\* latency() waits for the mutex.
FinishCancelled ==
    /\ completion \in {"cancelled", "rss"}
    /\ lock = "none"
    /\ FinishWith(ReportAs(CancelTermination, NoStatus, requestedAt), CancelExit)

FinishStartup ==
    completion = "startup" /\ FinishWith(ReportAs("startup_error", NoStatus, "none"), EXIT_STARTUP)

FinishFailed ==
    /\ completion \in CleanupErrorsKept
    /\ FinishWith(ReportAs("lifecycle_error", NoStatus, "none"), EXIT_SUPERVISOR)

\* ManagedChild::drop, then process::exit.
Drop ==
    /\ Goto("drop", IF armed THEN "drop_reap" ELSE "done")
    /\ \/ armed /\ KillSucceeds
       \/ armed /\ KillFails
       \/ ~armed /\ UNCHANGED <<leader, status, group>>
    /\ UNCHANGED <<env, completion, elapsed, armed, killError, canc, mem, out>>

DropReap ==
    /\ Goto("drop_reap", "done")
    /\ \/ leader # "running" /\ leader' = "reaped"
       \/ "wait" \in Faults /\ UNCHANGED leader
    /\ UNCHANGED <<env, completion, elapsed, status, group, armed, killError, canc, mem, out>>

-----------------------------------------------------------------------------

Requesting(t) == Interrupt(t) \/ InterruptStamp(t)

Monitoring ==
    \/ Sample \/ Compare \/ CancelForRss \/ CancelForRssStamp
    \/ MonitorStops \/ MonitorAgain \/ MonitorPanics

CleaningUp == FinishAfterExit \/ Terminate \/ TerminateReap \/ Abandon \/ StopMonitor

Finishing ==
    \/ FinishTimeout \/ FinishCancelled \/ FinishStartup \/ FinishFailed
    \/ Drop \/ DropReap

-----------------------------------------------------------------------------

\* Whatever ended the run and however its threads interleaved, a supervisor
\* that returns anything but its own failure code has reaped the Go process
\* and left no member of its process group alive (finish_after_exit,
\* terminate and ManagedChild::drop).
NoProcessLeftBehind ==
    pc = "done" /\ result # EXIT_SUPERVISOR => leader \in {"none", "reaped"} /\ ~group

\* Part of VerdictStands: a report of a cancelled run measures its latency from the request that set
\* the cause, never from a later one and never from nothing, although the
\* cause is published before the timestamp (Cancellation::cancel_with).
LatencyOfTheWinner ==
    report.termination \in {"cancelled", "rss_limit"} =>
        /\ report.latency # "none"
        /\ (report.latency = "monitor") <=> (report.termination = "rss_limit")

\* Part of VerdictStands: the supervisor blames the memory limit only with a recorded peak above it
\* (MemoryMonitor::start stores the peak before it cancels, stop joins).
RssVerdictIsBacked ==
    report.termination = "rss_limit" => report.peak > Limit

=============================================================================
