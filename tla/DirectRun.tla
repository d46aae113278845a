----------------------------- MODULE DirectRun -----------------------------
(***************************************************************************)
(* rust/crates/golangci-supervisor/src/lib.rs, run_direct: the supervisor  *)
(* runs the Go command line itself as its child and polls it.              *)
(***************************************************************************)
EXTENDS SupervisorCore

vars == core

Init == CoreInit

\* The head of the loop: child.try_wait().
PollExit ==
    /\ \/ pc = "poll" /\ ReapLeader /\ Decide("exited")
       \/ Goto("poll", "cause") /\ leader = "running" /\ UNCHANGED <<completion, proc>>
       \/ pc = "poll" /\ "try_wait" \in Faults /\ Decide("failed") /\ UNCHANGED proc
    /\ UNCHANGED <<env, elapsed, canc, mem, out>>

\* cancellation.cause().
MutPollCause ==
    /\ \/ pc = "cause" /\ cause # "none" /\ Decide(cause)
       \/ Goto("cause", "poll") /\ cause = "none" /\ UNCHANGED completion
    /\ UNCHANGED <<env, elapsed, proc, canc, mem, out>>
PollCause ==
    /\ \/ pc = "cause" /\ cause # "none" /\ Decide(cause)
       \/ Goto("cause", "timeout") /\ cause = "none" /\ UNCHANGED completion
    /\ UNCHANGED <<env, elapsed, proc, canc, mem, out>>

\* The timeout, and otherwise a sleep that never outlasts it.
PollTimeout ==
    /\ \/ pc = "timeout" /\ HasTimeout /\ elapsed /\ Decide("timeout")
       \/ Goto("timeout", "poll") /\ ~(HasTimeout /\ elapsed) /\ UNCHANGED completion
    /\ UNCHANGED <<env, elapsed, proc, canc, mem, out>>

\* finish_status: the child's code, or 128 plus the signal that ended it.
WrapperExit == IF status.code # NoCode THEN status.code ELSE 128 + status.signal

FinishStatus ==
    /\ completion = "exited"
    /\ FinishWith(ReportAs(IF status.code # NoCode THEN "exited" ELSE "signalled", status, "none"),
                  WrapperExit)

Start == Configure \/ CheckCancelled("spawn") \/ Spawn("poll") \/ SpawnFails

Main ==
    \/ Start
    \/ PollExit \/ PollCause \/ PollTimeout
    \/ CleaningUp \/ JoinMonitor("finish") \/ FinishStatus \/ Finishing

World == Elapse \/ Fork \/ GroupEnds \/ \E s \in Statuses : pc # "done" /\ LeaderEnds(s)

\* process::exit ends every thread.
Terminated == pc = "done" /\ UNCHANGED vars

Next ==
    \/ Main
    \/ \E t \in Listeners : Requesting(t)
    \/ Monitoring
    \/ World
    \/ Terminated

Spec == Init /\ [][Next]_vars

(***************************************************************************)
(* The operating system runs the supervisor's threads and its clock, and a *)
(* kill takes effect.  Nothing is assumed of the Go process: it may run    *)
(* for ever and no signal need ever come.                                  *)
(***************************************************************************)
FairSpec ==
    /\ Spec
    /\ WF_vars(Main)
    /\ WF_vars(Monitoring)
    /\ WF_vars(Elapse)
    /\ \A t \in Listeners : WF_vars(InterruptStamp(t))

-----------------------------------------------------------------------------

Pcs == {"configure", "check", "spawn", "poll", "cause", "timeout", "kill", "reap",
        "abandon", "stop", "join", "finish", "drop", "drop_reap", "done"}

StatusValues == Statuses \cup {NoStatus, Killed}

\* Every variable of the supervisor keeps to the values lib.rs gives it; in
\* particular the mutex of requested_at is held exactly by the thread that is
\* inside cancel_with.
TypeOK ==
    /\ env \in Envs
    /\ pc \in Pcs
    /\ completion \in {"none", "exited", "cancelled", "rss", "timeout", "failed", "startup"}
    /\ leader \in {"none", "running", "exited", "reaped"}
    /\ status \in StatusValues
    /\ {group, armed, killError, elapsed, stopSent} \subseteq BOOLEAN
    /\ cause \in {"none", "cancelled", "rss"}
    /\ requestedAt \in Requesters \cup {"none"}
    /\ lock \in Requesters \cup {"none"}
    /\ req \in [Requesters -> {"idle", "won", "lost", "done"}]
    /\ \A t \in Requesters : (lock = t) <=> req[t] \in {"won", "lost"}
    /\ monitor \in {"none", "sample", "compare", "cancel", "wait", "ended", "panicked"}
    /\ {rss, peak} \subseteq Samples \cup {0}
    /\ result \in {NoCode, EXIT_TIMEOUT, EXIT_RSS_LIMIT, EXIT_SUPERVISOR, EXIT_STARTUP, EXIT_CANCELLED}
                  \cup {s.code : s \in Statuses} \cup {128 + s.signal : s \in StatusValues}

\* The report and the exit code tell the same story as the decision of the
\* polling loop: a cause that arrives while the group is being killed changes
\* neither (finish_cancelled reads the cause a second time), and the latency is
\* that of the request that won.
ReportTellsTheVerdict ==
    pc = "done" /\ report # NoReport =>
        CASE report.termination = "timeout" ->
                completion = "timeout" /\ result = EXIT_TIMEOUT
          [] report.termination = "rss_limit" ->
                completion = "rss" /\ result = EXIT_RSS_LIMIT
          [] report.termination = "cancelled" ->
                completion = "cancelled" /\ result = EXIT_CANCELLED
          [] report.termination \in {"exited", "signalled"} ->
                /\ completion = "exited"
                /\ result = IF report.signal = 0 THEN report.code ELSE 128 + report.signal
          [] report.termination = "startup_error" -> leader = "none" /\ result = EXIT_STARTUP
          [] OTHER -> completion = "failed" /\ result = EXIT_SUPERVISOR
VerdictStands == ReportTellsTheVerdict /\ LatencyOfTheWinner /\ RssVerdictIsBacked

\* The Go process was not killed, and main waits for it.
KillFailed == leader = "running" /\ pc \in {"reap", "drop_reap"}

\* With a timeout, or once a cancellation was requested, the supervisor ends,
\* even if the Go process never does: no thread of it waits for ever for the
\* mutex, the monitor or the group, whichever system calls fail.  Only a Go
\* process that cannot be killed keeps it.
StopsWhenAsked ==
    ((leader # "none" /\ HasTimeout) \/ cause # "none") ~> (pc = "done" \/ KillFailed)

\* rust/README.md: the report records the cleanup result.  When it is written,
\* surviving_descendants is zero only if no member of the group is alive.
SurvivorsAreCounted ==
    pc = "drop" /\ report.survivors = "zero" => leader # "running" /\ ~group

=============================================================================
