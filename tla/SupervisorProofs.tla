-------------------------- MODULE SupervisorProofs --------------------------
(***************************************************************************)
(* The inductive invariant of what the direct run and the worker run of    *)
(* the supervisor share, and the lemmas that the actions of SupervisorCore *)
(* preserve it.  DirectRunProofs and WorkerRunProofs add what is theirs.   *)
(***************************************************************************)
EXTENDS SupervisorCore, TLAPS

\* Before the Go process, after its cleanup, and after the report.
Early     == {"configure", "check", "payload", "spawn"}
Closing   == {"stop", "join", "threads", "threads_join", "drain", "finish"}
Last      == {"drop", "drop_reap", "done"}
AfterKill == {"reap", "abandon"} \cup Closing \cup Last

Clean == leader \in {"none", "reaped"} /\ ~group

\* An exit code, or the signal that ended the process.
StatusForm == [code : Nat, signal : {0}] \cup [code : {NoCode}, signal : Nat \ {0}]

CoreFlags ==
    /\ group \in BOOLEAN /\ armed \in BOOLEAN /\ killError \in BOOLEAN
    /\ elapsed \in BOOLEAN /\ stopSent \in BOOLEAN

CoreType ==
    /\ CoreFlags
    /\ env \in Envs
    /\ leader \in {"none", "running", "exited", "reaped"}
    /\ status \in StatusForm \cup {NoStatus}
    /\ cause \in {"none", "cancelled", "rss"}
    /\ requestedAt \in Requesters \cup {"none"}
    /\ lock \in Requesters \cup {"none"}
    /\ req \in [Requesters -> {"idle", "won", "lost", "done"}]
    /\ \A t \in Requesters : (lock = t) <=> req[t] \in {"won", "lost"}
    /\ monitor \in {"none", "sample", "compare", "cancel", "wait", "ended", "panicked"}
    /\ rss \in Samples \cup {0} /\ peak \in Samples \cup {0}

\* Who is still there, and who will see to it, at each point of the main
\* thread.
ProcInv ==
    /\ pc \in Early => leader = "none" /\ completion = "none" /\ monitor = "none"
    /\ pc \notin Early \cup {"finish"} \cup Last => leader # "none"
    /\ leader = "none" => ~group /\ ~armed /\ ~killError
    /\ leader \in {"exited", "reaped"} => status # NoStatus
    /\ pc \notin AfterKill => ~killError
    /\ completion = "exited" => leader = "reaped"
    /\ pc = "reap" /\ ~killError => leader # "running" /\ ~group
    /\ pc \in Closing => /\ killError => completion \in CleanupErrorsKept
                         /\ ~killError => Clean /\ ~armed
    /\ pc \in Last => result = EXIT_SUPERVISOR \/ (Clean /\ ~armed)
    /\ pc = "drop_reap" => armed

\* The request that set the cause is the one whose time is taken.
CancelInv ==
    /\ cause = "none" => requestedAt = "none" /\ \A t \in Requesters : req[t] = "idle"
    /\ \A t \in Requesters : req[t] = "won" => /\ requestedAt = "none"
                                               /\ (t = "monitor") <=> (cause = "rss")
    /\ requestedAt # "none" => (requestedAt = "monitor") <=> (cause = "rss")
    /\ cause # "none" /\ requestedAt = "none" => \E t \in Requesters : req[t] = "won"
    /\ completion \in {"cancelled", "rss"} => completion = cause

\* A cancellation of the monitor has a recorded peak behind it.
MonitorInv ==
    /\ monitor \in {"compare", "cancel"} => peak >= rss
    /\ monitor = "cancel" => rss > Limit
    /\ req["monitor"] # "idle" => monitor \in {"cancel", "ended"}
    /\ cause = "rss" => req["monitor"] # "idle" /\ peak > Limit

ReportInv ==
    /\ pc \notin Last => report = NoReport /\ result = NoCode
    /\ LatencyOfTheWinner
    /\ RssVerdictIsBacked

CoreInv == CoreType /\ ProcInv /\ CancelInv /\ MonitorInv /\ ReportInv
-----------------------------------------------------------------------------
USE CoreAssumption

\* The initial states satisfy the invariant.
LEMMA CoreInitInv == CoreInit => CoreInv
<1> USE DEF CoreInit
<1>1. CoreInit => CoreType
    BY DEF CoreType, CoreFlags, Requesters
<1>2. CoreInit => ProcInv
    BY DEF ProcInv, Early, Closing, Last, AfterKill
<1>3. CoreInit => CancelInv /\ MonitorInv
    BY DEF CancelInv, MonitorInv, Requesters
<1>4. CoreInit => ReportInv
    BY DEF ReportInv, LatencyOfTheWinner, RssVerdictIsBacked, NoReport
<1> QED
    BY <1>1, <1>2, <1>3, <1>4 DEF CoreInv

\* A signal listener inside cancel_with.
LEMMA RequestingInv ==
    ASSUME CoreInv, NEW t \in Listeners, Requesting(t)
    PROVE  CoreInv'
<1> USE DEF CoreInv, Requesting, Interrupt, InterruptStamp, proc, mem, out
<1>1. CoreType'
    <2>1. CoreFlags'
        BY DEF CoreType, CoreFlags
    <2> QED
        BY <2>1 DEF CoreType, Request, Stamp, Requesters
<1>2. ProcInv'
    BY DEF ProcInv, Early, Closing, Last, AfterKill, Clean
<1>3. CancelInv'
    BY DEF CancelInv, CoreType, Request, Stamp, Requesters
<1>4. MonitorInv'
    BY DEF MonitorInv, CancelInv, CoreType, Request, Stamp, Requesters
<1>5. ReportInv'
    BY DEF ReportInv, Last, LatencyOfTheWinner, RssVerdictIsBacked
<1> QED
    BY <1>1, <1>2, <1>3, <1>4, <1>5

\* The memory monitor.
LEMMA MonitoringInv ==
    ASSUME CoreInv, Monitoring
    PROVE  CoreInv'
<1> USE DEF CoreInv, Monitoring, MonitorStep, Sample, Compare, CancelForRss, CancelForRssStamp,
            MonitorStops, MonitorAgain, MonitorPanics, proc, canc, mem, out
<1>1. CoreType'
    <2>1. CoreFlags'
        BY DEF CoreType, CoreFlags
    <2> QED
        BY <2>1 DEF CoreType, Request, Stamp, Requesters
<1>2. ProcInv'
    BY DEF ProcInv, Early, Closing, Last, AfterKill, Clean
<1>3. CancelInv'
    BY DEF CancelInv, CoreType, Request, Stamp, Requesters
<1>4. MonitorInv'
    BY DEF MonitorInv, CancelInv, CoreType, Request, Stamp, Requesters
<1>5. ReportInv'
    BY DEF ReportInv, Last, LatencyOfTheWinner, RssVerdictIsBacked
<1> QED
    BY <1>1, <1>2, <1>3, <1>4, <1>5

\* The clock and the processes of the group, which end by themselves with a
\* status of the right form.
LEMMA WorldInv ==
    ASSUME CoreInv,
           Elapse \/ Fork \/ GroupEnds \/ \E s \in StatusForm : LeaderEnds(s)
    PROVE  CoreInv'
<1> USE DEF CoreInv, Elapse, Fork, GroupEnds, LeaderEnds, proc, canc, mem, out
<1>1. CoreType'
    <2>1. CoreFlags'
        BY DEF CoreType, CoreFlags
    <2> QED
        BY <2>1 DEF CoreType
<1>2. ProcInv'
    BY DEF ProcInv, CoreType, CoreFlags, Early, Closing, Last, AfterKill, Clean, StatusForm, NoStatus, NoCode
<1>3. CancelInv'
    BY DEF CancelInv
<1>4. MonitorInv'
    BY DEF MonitorInv
<1>5. ReportInv'
    BY DEF ReportInv, Last, LatencyOfTheWinner, RssVerdictIsBacked
<1> QED
    BY <1>1, <1>2, <1>3, <1>4, <1>5

\* main and the start of the Go process; `next` is where the run goes on.
LEMMA StartInv ==
    ASSUME CoreInv, NEW next, next \notin Early \cup AfterKill \cup {"kill"},
           \/ Configure \/ CheckCancelled("spawn") \/ CheckCancelled("payload")
           \/ Spawn(next) \/ SpawnFails
    PROVE  CoreInv'
<1> USE DEF CoreInv, Configure, CheckCancelled, Spawn, SpawnFails, Goto, proc, canc, mem, out
<1>1. CoreType'
    <2>1. CoreFlags'
        BY DEF CoreType, CoreFlags
    <2> QED
        BY <2>1 DEF CoreType
<1>2. ProcInv'
    <2> USE DEF ProcInv, CoreType, CoreFlags, Early, Closing, Last, AfterKill, Clean
    <2>1. CASE Configure
        BY <2>1
    <2>2. CASE CheckCancelled("spawn") \/ CheckCancelled("payload")
        BY <2>2
    <2>3. CASE Spawn(next)
        BY <2>3
    <2>4. CASE SpawnFails
        BY <2>4
    <2> QED
        BY <2>1, <2>2, <2>3, <2>4
<1>3. CancelInv'
    BY DEF CancelInv, ProcInv, MonitorInv, CoreType, Early
<1>4. MonitorInv'
    BY DEF MonitorInv, ProcInv, Early
<1>5. ReportInv'
    BY DEF ReportInv, Early, Last, AfterKill, LatencyOfTheWinner, RssVerdictIsBacked
<1> QED
    BY <1>1, <1>2, <1>3, <1>4, <1>5

\* finish_after_exit, terminate and the stop of the monitor.
LEMMA CleaningUpInv ==
    ASSUME CoreInv, CleaningUp
    PROVE  CoreInv'
<1> USE DEF CoreInv, CleaningUp, FinishAfterExit, Terminate, TerminateReap, Reaped, Abandon,
            StopMonitor, KillSucceeds, KillFails, Goto, proc, canc, mem, out
<1>1. CoreType'
    <2>1. CoreFlags'
        BY DEF CoreType, CoreFlags
    <2> QED
        BY <2>1 DEF CoreType, StatusForm, Killed
<1>2. ProcInv'
    <2> USE DEF ProcInv, CoreType, CoreFlags, Early, Closing, Last, AfterKill, Clean
    <2>1. CASE FinishAfterExit
        BY <2>1 DEF Killed, NoStatus
    <2>2. CASE Terminate
        BY <2>2 DEF Killed, NoStatus
    <2>3. CASE TerminateReap
        <3>1. /\ pc = "reap" /\ pc' \in {"abandon", "stop"} /\ leader # "none"
              /\ (leader' = "reaped" /\ leader # "running") \/ UNCHANGED leader
              /\ (killError' => killError \/ UNCHANGED leader) /\ (killError => killError')
              /\ armed' = killError'
            BY <2>3
        <3>2. ~killError' => leader' = "reaped" /\ ~group
            BY <2>3
        <3>3. killError' /\ pc' = "stop" => completion \in CleanupErrorsKept
            BY <2>3
        <3> QED
            BY <2>3, <3>1, <3>2, <3>3
    <2>4. CASE Abandon
        BY <2>4
    <2>5. CASE StopMonitor
        BY <2>5
    <2> QED
        BY <2>1, <2>2, <2>3, <2>4, <2>5
<1>3. CancelInv'
    BY DEF CancelInv
<1>4. MonitorInv'
    BY DEF MonitorInv
<1>5. ReportInv'
    BY DEF ReportInv, Last, LatencyOfTheWinner, RssVerdictIsBacked
<1> QED
    BY <1>1, <1>2, <1>3, <1>4, <1>5

\* The main thread polls, or decides how the run ends.
LEMMA PollInv ==
    ASSUME CoreInv, pc \notin Early \cup AfterKill \cup {"kill"},
           UNCHANGED <<env, elapsed, status, group, armed, killError, canc, mem, out>>,
           \/ UNCHANGED <<completion, leader>> /\ pc' \notin Early \cup AfterKill
           \/ /\ pc' = "kill"
              /\ UNCHANGED leader \/ (leader = "exited" /\ leader' = "reaped")
              /\ completion' = "exited" => leader' = "reaped"
              /\ completion' \in {"cancelled", "rss"} => completion' = cause
    PROVE  CoreInv'
<1> USE DEF CoreInv, canc, mem, out
<1>1. CoreType'
    <2>1. CoreFlags'
        BY DEF CoreType, CoreFlags
    <2> QED
        BY <2>1 DEF CoreType
<1>2. ProcInv'
    BY DEF ProcInv, CoreType, Early, Closing, Last, AfterKill, Clean
<1>3. CancelInv' /\ MonitorInv'
    BY DEF CancelInv, MonitorInv
<1>4. ReportInv'
    BY DEF ReportInv, Last, AfterKill, LatencyOfTheWinner, RssVerdictIsBacked
<1> QED
    BY <1>1, <1>2, <1>3, <1>4

\* The main thread moves on after the cleanup.
LEMMA ClosingInv ==
    ASSUME CoreInv, pc \in Closing,
           UNCHANGED <<env, elapsed, proc, canc, mem, out>>,
           completion' \in {completion, "protocol"},
           (pc # "finish" /\ pc' \in Closing) \/ (pc' = "abandon" /\ leader # "none")
    PROVE  CoreInv'
<1> USE DEF CoreInv, proc, canc, mem, out
<1>1. CoreType'
    <2>1. CoreFlags'
        BY DEF CoreType, CoreFlags
    <2> QED
        BY <2>1 DEF CoreType
<1>2. ProcInv'
    BY DEF ProcInv, CoreType, CoreFlags, Early, Closing, Last, AfterKill, Clean, CleanupErrorsKept
<1>3. CancelInv' /\ MonitorInv'
    BY DEF CancelInv, MonitorInv
<1>4. ReportInv'
    BY DEF ReportInv, Closing, Last, LatencyOfTheWinner, RssVerdictIsBacked
<1> QED
    BY <1>1, <1>2, <1>3, <1>4

\* MemoryMonitor::stop has joined the thread.
LEMMA JoinMonitorInv ==
    ASSUME CoreInv, NEW next \in Closing, JoinMonitor(next)
    PROVE  CoreInv'
BY ClosingInv DEF JoinMonitor, Goto, CoreInv, ProcInv, Early, Closing, Last

\* write_optional_report: any report that is not about a cancellation, or one
\* that is backed.
LEMMA FinishWithInv ==
    ASSUME CoreInv, NEW r, NEW code, FinishWith(r, code),
           r.termination \in {"cancelled", "rss_limit"} =>
                /\ r.latency # "none"
                /\ (r.latency = "monitor") <=> (r.termination = "rss_limit"),
           r.termination = "rss_limit" => r.peak > Limit,
           completion \in CleanupErrorsKept => code = EXIT_SUPERVISOR
    PROVE  CoreInv'
<1> USE DEF CoreInv, FinishWith, Goto, proc, canc, mem
<1>1. CoreType'
    <2>1. CoreFlags'
        BY DEF CoreType, CoreFlags
    <2> QED
        BY <2>1 DEF CoreType
<1>2. ProcInv'
    BY DEF ProcInv, CoreType, CoreFlags, Early, Closing, Last, AfterKill, Clean
<1>3. CancelInv' /\ MonitorInv'
    BY DEF CancelInv, MonitorInv
<1>4. ReportInv'
    BY DEF ReportInv, Last, LatencyOfTheWinner, RssVerdictIsBacked
<1> QED
    BY <1>1, <1>2, <1>3, <1>4

\* The reports that both runs write, ManagedChild::drop and the exit.
LEMMA FinishingInv ==
    ASSUME CoreInv, Finishing
    PROVE  CoreInv'
<1>1. CASE FinishTimeout
    BY <1>1, FinishWithInv DEF FinishTimeout, ReportAs, CleanupErrorsKept
<1>2. CASE FinishCancelled
    <2>1. /\ cause # "none" /\ lock = "none"
          /\ requestedAt # "none"
          /\ (requestedAt = "monitor") <=> (cause = "rss")
        BY <1>2 DEF FinishCancelled, CoreInv, CoreType, CancelInv, Requesters
    <2>2. cause = "rss" => monitor # "panicked" /\ peak > Limit
        BY DEF CoreInv, MonitorInv
    <2> DEFINE r == ReportAs(CancelTermination, NoStatus, requestedAt)
    <2>3. /\ r.termination = CancelTermination /\ r.latency = requestedAt
          /\ monitor # "panicked" => r.peak = peak
        BY DEF ReportAs
    <2>4. FinishWith(r, CancelExit) /\ completion \notin CleanupErrorsKept
        BY <1>2 DEF FinishCancelled, CleanupErrorsKept
    <2> HIDE DEF r
    <2>5. /\ r.latency # "none"
          /\ (r.latency = "monitor") <=> (r.termination = "rss_limit")
        BY <2>1, <2>3 DEF CancelTermination
    <2>6. r.termination = "rss_limit" => r.peak > Limit
        BY <2>2, <2>3 DEF CancelTermination
    <2> QED
        BY <2>4, <2>5, <2>6, FinishWithInv
<1>3. CASE FinishStartup
    BY <1>3, FinishWithInv DEF FinishStartup, ReportAs, CleanupErrorsKept
<1>4. CASE FinishFailed
    BY <1>4, FinishWithInv DEF FinishFailed, ReportAs
<1>5. CASE Drop \/ DropReap
    <2> USE <1>5 DEF CoreInv, Drop, DropReap, KillSucceeds, KillFails, Goto, proc, canc, mem, out
    <2>1. CoreType'
        <3>1. CoreFlags'
            BY DEF CoreType, CoreFlags
        <3> QED
            BY <3>1 DEF CoreType, StatusForm, Killed
    <2>2. ProcInv'
        BY DEF ProcInv, CoreType, CoreFlags, Early, Closing, Last, AfterKill, Clean, Killed, NoStatus
    <2>3. CancelInv' /\ MonitorInv'
        BY DEF CancelInv, MonitorInv
    <2>4. ReportInv'
        BY DEF ReportInv, Last, LatencyOfTheWinner, RssVerdictIsBacked
    <2> QED
        BY <2>1, <2>2, <2>3, <2>4
<1> QED
    BY <1>1, <1>2, <1>3, <1>4, <1>5 DEF Finishing

\* A step that leaves the shared variables alone.
LEMMA CoreStutter ==
    ASSUME CoreInv, UNCHANGED core
    PROVE  CoreInv'
BY DEF CoreInv, CoreType, CoreFlags, ProcInv, CancelInv, MonitorInv, ReportInv, Clean, LatencyOfTheWinner,
       RssVerdictIsBacked, core, proc, canc, mem, out

\* What the invariant says when the supervisor has ended.
LEMMA CoreInvImplies ==
    CoreInv => NoProcessLeftBehind /\ LatencyOfTheWinner /\ RssVerdictIsBacked
BY DEF CoreInv, ProcInv, ReportInv, NoProcessLeftBehind, Clean, Last
=============================================================================
