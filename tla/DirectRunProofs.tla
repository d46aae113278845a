-------------------------- MODULE DirectRunProofs --------------------------
(***************************************************************************)
(* What a direct run of the supervisor guarantees, whatever the            *)
(* environment, the signals, the sizes that are sampled and the calls that *)
(* fail.                                                                   *)
(***************************************************************************)
EXTENDS DirectRun, SupervisorProofs

\* Report r and exit code `code` tell of a run that ended with c.
Tells(r, c, code) ==
    \/ r.termination = "timeout" /\ c = "timeout" /\ code = EXIT_TIMEOUT
    \/ r.termination = "rss_limit" /\ c = "rss" /\ code = EXIT_RSS_LIMIT
    \/ r.termination = "cancelled" /\ c = "cancelled" /\ code = EXIT_CANCELLED
    \/ /\ r.termination \in {"exited", "signalled"} /\ c = "exited"
       /\ code = IF r.signal = 0 THEN r.code ELSE 128 + r.signal
    \/ r.termination = "startup_error" /\ c = "startup" /\ code = EXIT_STARTUP
    \/ r.termination = "lifecycle_error" /\ c = "failed" /\ code = EXIT_SUPERVISOR

\* The report and the exit code, once they are settled, fit the decision.
VerdictInv ==
    /\ pc \in Pcs
    /\ completion \in {"none", "exited", "cancelled", "rss", "timeout", "failed", "startup"}
    /\ completion = "startup" => leader = "none"
    /\ pc \in Last /\ report # NoReport => Tells(report, completion, result)

IInv == CoreInv /\ VerdictInv
-----------------------------------------------------------------------------
USE CoreAssumption

\* The initial states satisfy the invariant.
LEMMA InitInv == Init => IInv
BY CoreInitInv DEF Init, CoreInit, IInv, VerdictInv, Last, Pcs

\* Steps after which neither the decision of the main thread nor what it has
\* reported is another one.
LEMMA VerdictKept ==
    ASSUME IInv, UNCHANGED <<completion, report>>, pc' \in Pcs,
           pc' \in Last => (pc \in Last /\ UNCHANGED result) \/ report = NoReport,
           leader = "none" => leader' = "none" \/ completion = "none"
    PROVE  VerdictInv'
BY DEF IInv, VerdictInv

\* The steps of the other threads, of the processes and of the clock.
LEMMA OthersInv ==
    ASSUME IInv,
           \/ \E t \in Listeners : Requesting(t)
           \/ Monitoring \/ World \/ UNCHANGED vars
    PROVE  IInv'
<1>1. CoreInv'
    BY RequestingInv, MonitoringInv, WorldInv, CoreStutter
    DEF IInv, World, vars, StatusForm, NoCode
<1>2. /\ UNCHANGED <<pc, completion, report, result>>
      /\ leader = "none" => leader' = "none"
    BY DEF Requesting, Interrupt, InterruptStamp, Monitoring, MonitorStep, Sample, Compare,
           CancelForRss, CancelForRssStamp, MonitorStops, MonitorAgain, MonitorPanics,
           World, Elapse, Fork, GroupEnds, LeaderEnds, vars, core, proc, out
<1>3. VerdictInv'
    BY <1>2, VerdictKept DEF IInv, VerdictInv
<1> QED
    BY <1>1, <1>3 DEF IInv

\* Config::from_lookup, main and the start of the Go process.
LEMMA StartingInv ==
    ASSUME IInv, Start
    PROVE  IInv'
<1>1. CoreInv'
    BY StartInv DEF IInv, Start, Early, Closing, Last, AfterKill
<1>2. CASE Configure \/ Spawn("poll")
    <2>1. /\ UNCHANGED <<completion, report>> /\ pc' \in Pcs
          /\ pc \in Early /\ pc' \notin {"drop_reap", "done"}
        BY <1>2 DEF Configure, Spawn, Goto, out, Pcs, Early
    <2>2. completion = "none" /\ report = NoReport
        BY <2>1 DEF IInv, CoreInv, ProcInv, ReportInv, Early, Last
    <2> QED
        BY <1>1, <2>1, <2>2, VerdictKept DEF IInv
<1>3. CASE CheckCancelled("spawn") \/ SpawnFails
    <2>1. /\ pc \in Early /\ pc' \in Pcs /\ pc' \notin Last /\ UNCHANGED leader
          /\ completion' \in {completion, "cancelled", "startup"}
        BY <1>3 DEF CheckCancelled, SpawnFails, Goto, proc, Pcs, Early, Last
    <2>2. leader = "none" /\ completion = "none"
        BY <2>1 DEF IInv, CoreInv, ProcInv
    <2>3. VerdictInv'
        BY <2>1, <2>2 DEF VerdictInv
    <2> QED
        BY <1>1, <2>3 DEF IInv
<1> QED
    BY <1>2, <1>3 DEF Start

\* The polling loop of run_direct.
LEMMA PollingInv ==
    ASSUME IInv, PollExit \/ PollCause \/ PollTimeout
    PROVE  IInv'
<1>1. /\ pc \in {"poll", "cause", "timeout"} /\ pc' \in {"poll", "cause", "timeout", "kill"}
      /\ UNCHANGED <<env, elapsed, status, group, armed, killError, canc, mem, out>>
      /\ UNCHANGED leader \/ (leader = "exited" /\ leader' = "reaped")
      /\ pc' # "kill" => UNCHANGED <<completion, leader>>
      /\ pc' = "kill" => completion' \in {"exited", "failed", "timeout"} \cup ({cause} \ {"none"})
      /\ completion' = "exited" /\ pc' = "kill" => leader' = "reaped"
    BY DEF PollExit, PollCause, PollTimeout, ReapLeader, Decide, Goto, proc, IInv, CoreInv, CoreType
<1>2. cause \in {"none", "cancelled", "rss"}
    BY DEF IInv, CoreInv, CoreType
<1>3. CoreInv'
    BY <1>1, <1>2, PollInv DEF IInv, Early, AfterKill, Closing, Last
<1>4. leader # "none"
    BY <1>1 DEF IInv, CoreInv, ProcInv, Early, Last
<1>5. VerdictInv'
    BY <1>1, <1>2, <1>4 DEF IInv, VerdictInv, Pcs, Last
<1> QED
    BY <1>3, <1>5 DEF IInv

\* finish_after_exit, terminate, and MemoryMonitor::stop.
LEMMA CleanupInv ==
    ASSUME IInv, CleaningUp \/ JoinMonitor("finish")
    PROVE  IInv'
<1>1. CoreInv'
    BY CleaningUpInv, JoinMonitorInv DEF IInv, Closing
<1>2. /\ UNCHANGED <<completion, report>> /\ pc' \in Pcs
      /\ pc \in {"kill", "reap", "abandon", "stop", "join"} /\ pc' \notin {"drop_reap", "done"}
    BY DEF CleaningUp, JoinMonitor, FinishAfterExit, Terminate, TerminateReap, Reaped, Abandon,
           StopMonitor, Goto, out, Pcs
<1>3. report = NoReport /\ leader # "none"
    BY <1>2 DEF IInv, CoreInv, ProcInv, ReportInv, Early, Last
<1>4. VerdictInv'
    BY <1>2, <1>3, VerdictKept
<1> QED
    BY <1>1, <1>4 DEF IInv

\* What write_optional_report leaves fits the decision if the report does.
LEMMA FinishVerdict ==
    ASSUME IInv, NEW r, NEW code, FinishWith(r, code), Tells(r, completion, code)
    PROVE  VerdictInv'
<1>1. /\ pc = "finish" /\ pc' = "drop" /\ UNCHANGED <<completion, leader>>
      /\ (report' = r /\ result' = code) \/ UNCHANGED report
    BY DEF FinishWith, Goto, proc
<1>2. report = NoReport
    BY <1>1 DEF IInv, CoreInv, ReportInv, Last
<1> QED
    BY <1>1, <1>2 DEF IInv, VerdictInv, Pcs

\* finish_status: the status of the child decides code and report.
LEMMA FinishStatusInv ==
    ASSUME IInv, FinishStatus
    PROVE  IInv'
<1> DEFINE r == ReportAs(IF status.code # NoCode THEN "exited" ELSE "signalled", status, "none")
<1>1. FinishWith(r, WrapperExit) /\ completion = "exited"
    BY DEF FinishStatus
<1>2. status \in StatusForm
    BY <1>1 DEF IInv, CoreInv, CoreType, ProcInv
<1>3. /\ r.termination \in {"exited", "signalled"}
      /\ r.signal = status.signal /\ r.code = status.code
    BY DEF ReportAs
<1>4. WrapperExit = IF status.signal = 0 THEN status.code ELSE 128 + status.signal
    BY <1>2 DEF WrapperExit, StatusForm, NoCode
<1> HIDE DEF r
<1>5. Tells(r, completion, WrapperExit)
    BY <1>1, <1>3, <1>4 DEF Tells
<1>6. CoreInv'
    BY <1>1, <1>3, FinishWithInv DEF IInv, CleanupErrorsKept
<1>7. VerdictInv'
    BY <1>1, <1>5, FinishVerdict
<1> QED
    BY <1>6, <1>7 DEF IInv

\* The other endings, ManagedChild::drop and the exit.
LEMMA EndingInv ==
    ASSUME IInv, Finishing
    PROVE  IInv'
<1>1. CoreInv'
    BY FinishingInv DEF IInv
<1>2. CASE FinishTimeout
    <2>1. Tells(ReportAs("timeout", NoStatus, "none"), completion, EXIT_TIMEOUT)
        BY <1>2 DEF FinishTimeout, Tells, ReportAs
    <2> QED
        BY <1>1, <1>2, <2>1, FinishVerdict DEF IInv, FinishTimeout
<1>3. CASE FinishCancelled
    <2>1. completion = cause /\ completion \in {"cancelled", "rss"}
        BY <1>3 DEF FinishCancelled, IInv, CoreInv, CancelInv
    <2>2. Tells(ReportAs(CancelTermination, NoStatus, requestedAt), completion, CancelExit)
        BY <2>1 DEF Tells, ReportAs, CancelTermination, CancelExit
    <2> QED
        BY <1>1, <1>3, <2>2, FinishVerdict DEF IInv, FinishCancelled
<1>4. CASE FinishStartup
    <2>1. Tells(ReportAs("startup_error", NoStatus, "none"), completion, EXIT_STARTUP)
        BY <1>4 DEF FinishStartup, Tells, ReportAs
    <2> QED
        BY <1>1, <1>4, <2>1, FinishVerdict DEF IInv, FinishStartup
<1>5. CASE FinishFailed
    <2>1. Tells(ReportAs("lifecycle_error", NoStatus, "none"), completion, EXIT_SUPERVISOR)
        BY <1>5 DEF FinishFailed, Tells, ReportAs, CleanupErrorsKept, IInv, VerdictInv
    <2> QED
        BY <1>1, <1>5, <2>1, FinishVerdict DEF IInv, FinishFailed
<1>6. CASE Drop \/ DropReap
    <2>1. /\ UNCHANGED <<completion, report, result>> /\ pc \in Last /\ pc' \in Pcs
          /\ leader = "none" => leader' = "none"
        BY <1>6 DEF Drop, DropReap, KillSucceeds, Goto, out, Last, Pcs, IInv, CoreInv, ProcInv
    <2> QED
        BY <1>1, <2>1, VerdictKept DEF IInv
<1> QED
    BY <1>2, <1>3, <1>4, <1>5, <1>6 DEF Finishing

\* Every step preserves the invariant.
LEMMA NextInv == IInv /\ [Next]_vars => IInv'
BY OthersInv, StartingInv, PollingInv, CleanupInv, FinishStatusInv, EndingInv
DEF Next, Main, Terminated

\* The strengthened invariant holds in every reachable state.
LEMMA Invariance == Spec => []IInv
BY InitInv, NextInv, PTL DEF Spec

\* Whatever ended the run, a supervisor that returns anything but its own
\* failure code has reaped the Go process and left no member of its group
\* (finish_after_exit, terminate, ManagedChild::drop).
THEOREM NothingLeftBehind == Spec => []NoProcessLeftBehind
<1>1. IInv => NoProcessLeftBehind
    BY CoreInvImplies DEF IInv
<1> QED
    BY <1>1, Invariance, PTL

\* The report, the exit code and the decision of the polling loop agree; the
\* latency of a cancelled run is that of the request that won, and a run that
\* blames the memory limit has a recorded peak above it.
THEOREM VerdictIsKept == Spec => []VerdictStands
<1>1. IInv => ReportTellsTheVerdict
    BY DEF IInv, VerdictInv, ReportTellsTheVerdict, Tells, Last
<1>2. IInv => VerdictStands
    BY <1>1, CoreInvImplies DEF IInv, VerdictStands
<1> QED
    BY <1>2, Invariance, PTL
=============================================================================
