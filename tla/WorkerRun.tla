----------------------------- MODULE WorkerRun -----------------------------
(***************************************************************************)
(* rust/crates/golangci-supervisor/src/worker_transport.rs: the supervisor *)
(* runs the Go process as a worker and talks to it over a loopback         *)
(* connection.                                                             *)
(*                                                                         *)
(* The main thread accepts and authenticates a connection, starts a reader *)
(* and a writer thread and then polls: one signal of the reader, the       *)
(* child's status, the cancellation and the deadlines, in this order.  The *)
(* worker is GoWorker or, to check what the supervisor takes on trust, any *)
(* process that speaks records in any order and ends when it likes.        *)
(***************************************************************************)
EXTENDS SupervisorCore, GoWorker

CONSTANTS
    Workers,    \* which workers to consider: "go", "any"
    Decoys,     \* other local processes that connect to the endpoint
    MaxRecords, \* bound on the records an arbitrary worker writes
    MaxCode     \* i32::MAX, scaled down

\* "error" stands for an error event and for a record that does not decode.
Kinds == {"ready", "lifecycle", "complete", "ack", "error"}

ASSUME SessionAssumption ==
    /\ Workers \subseteq {"go", "any"}
    /\ {"worker", "none"} \cap Decoys = {}
    /\ MaxRecords \in Nat /\ MaxCode \in Nat

VARIABLES
    who,          \* the program behind GOLANGCI_SUPERVISOR_TARGET
    dialled,      \* peers that have connected so far
    backlog,      \* connections the listener has not accepted yet
    peer,         \* the connection being authenticated, or the session's
    expired,      \* the deadlines that have passed
    ready, complete, acked,  \* ready, complete, shutdown_acknowledged
    signals,      \* the channel from the session's threads to the main thread
    commands,     \* the channel from the main thread to the writer
    commandsOpen, \* its sender is alive
    reader, writer,          \* the two threads: "none", "running", "ended"
    seen,         \* how many of the worker's records the controller has read
    sawLifecycle, sawComplete

link    == <<dialled, backlog, peer, seen>>
loop    == <<ready, complete, acked>>
threads == <<signals, commands, commandsOpen, reader, writer, sawLifecycle, sawComplete>>
session == <<who, link, expired, loop, threads>>
vars    == <<core, worker, session>>

Init ==
    /\ CoreInit
    /\ WorkerInit
    /\ who \in Workers
    /\ dialled = {} /\ backlog = <<>> /\ peer = "none" /\ seen = 0
    /\ expired = {}
    /\ ready = FALSE /\ complete = NoCode /\ acked = FALSE
    /\ signals = <<>> /\ commands = <<>> /\ commandsOpen = FALSE
    /\ reader = "none" /\ writer = "none"
    /\ sawLifecycle = FALSE /\ sawComplete = FALSE

\* The supervisor has closed its side of the worker's connection: it rejected
\* the connection, or both threads that own it have ended.
HungUp ==
    /\ "worker" \in dialled
    /\ peer # "worker" \/ (reader = "ended" /\ writer = "ended")
    /\ \A i \in 1 .. Len(backlog) : backlog[i] # "worker"

\* Nothing more will be written on the worker's connection.
WorkerSilent == wclosed \/ leader # "running"

Unread == Len(sent) > seen
NextRecord == sent[seen + 1]

Expire(d) == expired' = expired \cup {d}

-----------------------------------------------------------------------------
(* Starting and accepting.                                                 *)

\* build_run_payload, the listener and the token: their errors leave run()
\* before there is anything to report on.
Prepare ==
    /\ Goto("payload", "spawn")
    /\ UNCHANGED <<env, completion, elapsed, proc, canc, mem, out, worker, session>>

PrepareFails ==
    /\ "bind" \in Faults
    /\ Goto("payload", "drop")
    /\ result' = EXIT_SUPERVISOR
    /\ UNCHANGED <<env, completion, elapsed, proc, canc, mem, report, worker, session>>

\* The non-blocking accept; a connection that comes after the deadline is
\* refused, any other is greeted.
Accept ==
    /\ IF backlog = <<>>
       THEN /\ Goto("accept", "accept_wait")
            /\ UNCHANGED <<completion, link, toWorker>>
       ELSE /\ backlog' = Tail(backlog)
            /\ peer' = Head(backlog)
            /\ toWorker' = IF peer' = "worker" THEN Append(toWorker, Msg("hello")) ELSE toWorker
            /\ IF "accept" \in expired
               THEN pc = "accept" /\ Decide("protocol")
               ELSE Goto("accept", "auth") /\ UNCHANGED completion
            /\ UNCHANGED <<dialled, seen>>
    /\ UNCHANGED <<env, elapsed, proc, canc, mem, out, wpc, run, wcode, wclosed, sent,
                   who, expired, loop, threads>>

AcceptFails ==
    /\ "transport" \in Faults
    /\ pc = "accept"
    /\ Decide("protocol")
    /\ UNCHANGED <<env, elapsed, proc, canc, mem, out, worker, session>>

\* start_session: two threads, and Ready is the first signal.
StartSession ==
    /\ Goto("auth", "signal")
    /\ signals' = <<Msg("ready")>>
    /\ commandsOpen' = TRUE
    /\ reader' = "running" /\ writer' = "running"
    /\ UNCHANGED <<commands, sawLifecycle, sawComplete, peer>>

\* A candidate's error drops its connection and the accept loop goes on.
Candidate ==
    /\ Goto("auth", "accept_wait")
    /\ peer' = "none"
    /\ UNCHANGED threads

\* read_authentication_record returns a record or meets the end of the stream.
\* A decoy does not know the token.
AuthRecord ==
    /\ IF peer = "worker"
       THEN /\ Unread \/ WorkerSilent
            /\ IF Unread /\ NextRecord.kind = "ready" THEN StartSession ELSE Candidate
            /\ seen' = IF Unread THEN seen + 1 ELSE seen
       ELSE Candidate /\ UNCHANGED seen
    /\ UNCHANGED <<env, completion, elapsed, proc, canc, mem, out, worker,
                   who, dialled, backlog, expired, loop>>

\* AUTH_CANDIDATE_TIMEOUT passes before a record is there, or a socket call
\* fails.
AuthTimeout ==
    /\ Candidate
    /\ Expire("candidate")
    /\ UNCHANGED <<env, completion, elapsed, proc, canc, mem, out, worker,
                   who, dialled, backlog, seen, loop>>

\* control_state: a cause before the timeout.
Control ==
    CASE cause # "none" -> cause
      [] cause = "none" /\ HasTimeout /\ elapsed -> "timeout"
      [] OTHER -> "continue"

\* authentication_poll_timeout before a read and check_authentication_state
\* after one that timed out: the run's timeout; the child, then control.
AuthCheck ==
    /\ pc = "auth"
    /\ \/ HasTimeout /\ elapsed /\ Decide("timeout") /\ UNCHANGED proc
       \/ ReapLeader /\ Decide("exited")
       \/ leader = "running" /\ Control # "continue" /\ Decide(Control) /\ UNCHANGED proc
       \/ "try_wait" \in Faults /\ Decide("protocol") /\ UNCHANGED proc
    /\ UNCHANGED <<env, elapsed, canc, mem, out, worker, session>>

\* child.try_wait() in either loop.
WaitChild(from, to) ==
    /\ \/ pc = from /\ ReapLeader /\ Decide("exited")
       \/ Goto(from, to) /\ leader = "running" /\ UNCHANGED <<completion, proc>>
       \/ pc = from /\ "try_wait" \in Faults /\ Decide("protocol") /\ UNCHANGED proc
    /\ UNCHANGED <<env, elapsed, canc, mem, out, worker, session>>

AcceptWait  == WaitChild("accept_wait", "accept_control")
SessionWait == WaitChild("session_wait", "session_control")

\* control_state, then the deadline that is in force (the handshake deadline of
\* supervise_session never is: Ready is the first signal).
CheckControl(from, to, late) ==
    /\ \/ pc = from /\ Control # "continue" /\ Decide(Control)
       \/ pc = from /\ Control = "continue" /\ late /\ Decide("protocol")
       \/ Goto(from, to) /\ Control = "continue" /\ ~late /\ UNCHANGED completion
    /\ UNCHANGED <<env, elapsed, proc, canc, mem, out, worker, session>>

AcceptControl  == CheckControl("accept_control", "accept", "accept" \in expired)
MutSessionControl == CheckControl("session_control", "signal", FALSE)
SessionControl ==
    CheckControl("session_control", "signal", complete # NoCode /\ "shutdown" \in expired)

-----------------------------------------------------------------------------
(* supervise_session: one signal per round.                                *)

Signal == Head(signals)

\* The signals that fit the state of the loop.
Expected ==
    \/ Signal.kind = "ready" /\ ~ready
    \/ Signal.kind = "complete" /\ ready /\ complete = NoCode
    \/ Signal.kind = "ack" /\ complete # NoCode /\ ~acked

\* What the main thread sends in return; session.send fails once the writer
\* has returned.
Answer ==
    CASE Signal.kind = "ready" -> <<Msg("run")>>
      [] Signal.kind = "complete" -> <<Msg("shutdown")>>
      [] OTHER -> <<>>

SendFails == Answer # <<>> /\ writer = "ended"

TakeSignal ==
    /\ pc = "signal" /\ signals # <<>>
    /\ signals' = Tail(signals)
    /\ ready' = (ready \/ Signal.kind = "ready")
    /\ \/ /\ Expected /\ ~SendFails
          /\ commands' = commands \o Answer
          /\ pc' = "session_wait"
          /\ complete' = IF Signal.kind = "complete" THEN Signal.code ELSE complete
          /\ acked' = (acked \/ Signal.kind = "ack")
          /\ UNCHANGED completion
       \/ /\ ~Expected \/ SendFails
          /\ Decide("protocol")
          /\ UNCHANGED <<commands, complete, acked>>
    /\ UNCHANGED <<env, elapsed, proc, canc, mem, out, worker, who, link, expired,
                   commandsOpen, reader, writer, sawLifecycle, sawComplete>>

\* TryRecvError: a channel without senders is an error before completion.
NoSignal ==
    /\ pc = "signal" /\ signals = <<>>
    /\ IF reader = "ended" /\ writer = "ended" /\ complete = NoCode
       THEN Decide("protocol")
       ELSE pc' = "session_wait" /\ UNCHANGED completion
    /\ UNCHANGED <<env, elapsed, proc, canc, mem, out, worker, session>>

-----------------------------------------------------------------------------
(* The reader and the writer thread.                                       *)

Emit(m) == signals' = Append(signals, m)

\* read_worker_events: a record, or the end of the stream.
ReaderFails == Emit(Msg("error")) /\ reader' = "ended" /\ UNCHANGED <<sawLifecycle, sawComplete>>

ReadRecord ==
    CASE NextRecord.kind = "lifecycle" ->
            sawLifecycle' = TRUE /\ UNCHANGED <<signals, reader, sawComplete>>
      [] NextRecord.kind = "complete" /\ sawLifecycle /\ ~sawComplete ->
            Emit(NextRecord) /\ sawComplete' = TRUE /\ UNCHANGED <<reader, sawLifecycle>>
      [] NextRecord.kind = "ack" /\ sawComplete ->
            Emit(NextRecord) /\ reader' = "ended" /\ UNCHANGED <<sawLifecycle, sawComplete>>
      [] OTHER -> ReaderFails

ReaderStep ==
    /\ pc # "done" /\ reader = "running"
    /\ Unread \/ WorkerSilent
    /\ IF Unread THEN ReadRecord /\ seen' = seen + 1 ELSE ReaderFails /\ UNCHANGED seen
    /\ UNCHANGED <<core, worker, who, dialled, backlog, peer, expired, loop,
                   commands, commandsOpen, writer>>

\* The writer takes a command; the write may fail when nobody reads, and
\* after SESSION_WRITE_TIMEOUT when the worker does not read.
WriterStep ==
    /\ pc # "done" /\ writer = "running"
    /\ commands # <<>>
    /\ commands' = Tail(commands)
    /\ \/ /\ toWorker' = Append(toWorker, Head(commands))
          /\ UNCHANGED <<signals, writer>>
       \/ /\ WorkerSilent \/ "transport" \in Faults
          /\ Emit(Msg("error"))
          /\ writer' = "ended"
          /\ UNCHANGED toWorker
    /\ UNCHANGED <<core, wpc, run, wcode, wclosed, sent, who, link, expired, loop,
                   commandsOpen, reader, sawLifecycle, sawComplete>>

\* The command channel is closed and empty.
WriterEnds ==
    /\ pc # "done" /\ writer = "running"
    /\ commands = <<>> /\ ~commandsOpen
    /\ writer' = "ended"
    /\ UNCHANGED <<core, worker, who, link, expired, loop, signals, commands, commandsOpen,
                   reader, sawLifecycle, sawComplete>>

-----------------------------------------------------------------------------
(* session.finish and the end of the run.                                  *)

\* A group that could not be killed may keep the connection open: fail_session
\* then leaves the threads alone.
MutLeavesThreads == FALSE
LeavesThreads == completion = "protocol" /\ killError

CloseSession ==
    /\ Goto("threads", IF LeavesThreads THEN "finish" ELSE "threads_join")
    /\ commandsOpen' = FALSE
    /\ UNCHANGED <<env, completion, elapsed, proc, canc, mem, out, worker,
                   who, link, expired, loop, signals, commands, reader, writer,
                   sawLifecycle, sawComplete>>

ThreadsGone == {reader, writer} \subseteq {"none", "ended"}

MutJoinSession ==
    /\ Goto("threads_join", IF completion = "exited" THEN "drain" ELSE "finish")
    /\ UNCHANGED <<env, completion, elapsed, proc, canc, mem, out, worker, session>>
JoinSession ==
    /\ ThreadsGone
    /\ Goto("threads_join", IF completion = "exited" THEN "drain" ELSE "finish")
    /\ UNCHANGED <<env, completion, elapsed, proc, canc, mem, out, worker, session>>

\* The child has exited: what the reader still had to say counts.
Drain ==
    /\ pc = "drain" /\ signals # <<>>
    /\ signals' = Tail(signals)
    /\ complete' = IF Signal.kind = "complete" /\ complete = NoCode THEN Signal.code ELSE complete
    /\ acked' = (acked \/ Signal.kind = "ack")
    /\ IF Signal.kind = "error"
       THEN Goto("drain", "finish") /\ completion' = "protocol"
       ELSE UNCHANGED <<pc, completion>>
    /\ UNCHANGED <<env, elapsed, proc, canc, mem, out, worker, who, link, expired, ready,
                   commands, commandsOpen, reader, writer, sawLifecycle, sawComplete>>

Drained ==
    /\ signals = <<>>
    /\ Goto("drain", "finish")
    /\ completion' = IF complete # NoCode /\ ~acked THEN "protocol" ELSE completion
    /\ UNCHANGED <<env, elapsed, proc, canc, mem, out, worker, session>>

\* finish_worker_status: a run has completed only if the worker said so with
\* the code it then exited with.  An exit code that is not an i32 leaves
\* through `?`.
Agrees == complete # NoCode /\ status.code = complete

MutFinishStatus ==
    /\ pc = "finish" /\ completion = "exited"
    /\ FinishWith(ReportAs("exited", status, "none"), status.code)
    /\ UNCHANGED <<worker, session>>
FinishStatus ==
    /\ pc = "finish" /\ completion = "exited"
    /\ \/ /\ complete <= MaxCode /\ Agrees
          /\ FinishWith(ReportAs("exited", [code |-> complete, signal |-> 0], "none"), complete)
       \/ /\ complete <= MaxCode /\ ~Agrees
          /\ FinishWith(ReportAs("lifecycle_error", NoStatus, "none"), EXIT_SUPERVISOR)
       \/ /\ complete > MaxCode
          /\ Goto("finish", "abandon")
          /\ UNCHANGED <<env, completion, elapsed, proc, canc, mem, out>>
    /\ UNCHANGED <<worker, session>>

-----------------------------------------------------------------------------
(* The worker and the other peers.                                         *)

Connect(p) == dialled' = dialled \cup {p} /\ backlog' = Append(backlog, p) /\ UNCHANGED <<peer, seen>>

Alive(w) == who = w /\ leader = "running" /\ pc # "done"

GoDial ==
    /\ Alive("go") /\ Dial /\ Connect("worker")
    /\ UNCHANGED <<core, who, expired, loop, threads>>

GoServe == Alive("go") /\ Serve /\ UNCHANGED <<core, session>>

\* An error of a read or a write after the supervisor hung up.
GoHungUp ==
    /\ Alive("go") /\ HungUp /\ toWorker = <<>>
    /\ \E from \in Reading \cup Writing : ReadFails(from)
    /\ UNCHANGED <<core, session>>

\* workerDialTimeout passes.
GoDeadline ==
    /\ Alive("go") /\ toWorker = <<>>
    /\ \E from \in Timed : ReadFails(from)
    /\ Expire("worker")
    /\ UNCHANGED <<core, who, link, loop, threads>>

\* What the parent sees of the code that os.Exit is given: its low 8 bits.
ExitStatus(c) == c % 256

GoExit ==
    /\ Alive("go") /\ wpc = "exit"
    /\ LeaderEnds([code |-> ExitStatus(wcode), signal |-> 0])
    /\ UNCHANGED <<worker, session>>

\* A panic of the command, or a signal from outside, ends the process.
Crash(s) ==
    /\ Alive("go") /\ command = "running"
    /\ s.signal # 0 \/ s.code = PANIC
    /\ LeaderEnds(s)
    /\ UNCHANGED <<worker, session>>

AnyDial ==
    /\ Alive("any") /\ Dial /\ Connect("worker")
    /\ UNCHANGED <<core, who, expired, loop, threads>>

AnyWrite ==
    /\ Alive("any") /\ wpc = "hello" /\ ~wclosed
    /\ Len(sent) < MaxRecords
    /\ \E k \in Kinds, c \in Codes : Write("hello", IF k = "complete" THEN Complete(c) ELSE Msg(k), "hello")
    /\ UNCHANGED <<core, session>>

AnyClose ==
    /\ Alive("any") /\ wpc = "hello" /\ ~wclosed
    /\ wclosed' = TRUE
    /\ UNCHANGED <<core, session, wpc, run, wcode, sent, toWorker>>

AnyExit(s) == Alive("any") /\ LeaderEnds(s) /\ UNCHANGED <<worker, session>>

DecoyDial(d) ==
    /\ leader # "none" /\ pc \in {"accept", "auth", "accept_wait", "accept_control"}
    /\ d \notin dialled
    /\ Connect(d)
    /\ UNCHANGED <<core, worker, who, expired, loop, threads>>

\* HANDSHAKE_TIMEOUT of accept_worker, SHUTDOWN_TIMEOUT after a completion.
Late ==
    /\ \/ pc \in {"accept", "auth", "accept_wait", "accept_control"} /\ Expire("accept")
       \/ /\ pc \in {"signal", "session_wait", "session_control"}
          /\ complete # NoCode
          /\ Expire("shutdown")
    /\ UNCHANGED <<core, worker, who, link, loop, threads>>

-----------------------------------------------------------------------------

Quiet == UNCHANGED <<worker, session>>

Start ==
    \/ (Configure \/ CheckCancelled("payload") \/ Spawn("accept") \/ SpawnFails) /\ Quiet
    \/ Prepare \/ PrepareFails

Accepting ==
    Accept \/ AcceptFails \/ AuthRecord \/ AuthTimeout \/ AuthCheck \/ AcceptWait \/ AcceptControl

Supervising == TakeSignal \/ NoSignal \/ SessionWait \/ SessionControl

Ending ==
    \/ (CleaningUp \/ JoinMonitor("threads")) /\ Quiet
    \/ CloseSession \/ JoinSession \/ Drain \/ Drained
    \/ FinishStatus \/ (Finishing /\ Quiet)

Main == Start \/ Accepting \/ Supervising \/ Ending

Threads == ReaderStep \/ WriterStep \/ WriterEnds

GoSide == GoDial \/ GoServe \/ GoHungUp \/ GoDeadline \/ GoExit \/ \E s \in Statuses : Crash(s)

AnySide == AnyDial \/ AnyWrite \/ AnyClose \/ \E s \in Statuses : AnyExit(s)

World == ((Elapse \/ Fork \/ GroupEnds) /\ Quiet) \/ Late \/ \E d \in Decoys : DecoyDial(d)

Terminated == pc = "done" /\ UNCHANGED vars

Next ==
    \/ Main \/ Threads
    \/ Monitoring /\ Quiet
    \/ (\E t \in Listeners : Requesting(t)) /\ Quiet
    \/ GoSide \/ AnySide
    \/ World
    \/ Terminated

Spec == Init /\ [][Next]_vars

(***************************************************************************)
(* The operating system runs the threads of the supervisor and its clock.  *)
(* Nothing is assumed of the worker: it may hang at any point.             *)
(***************************************************************************)
FairSpec ==
    /\ Spec
    /\ WF_vars(Main) /\ WF_vars(Threads) /\ WF_vars(Monitoring /\ Quiet)
    /\ WF_vars(Elapse /\ Quiet) /\ WF_vars(Late)
    /\ \A t \in Listeners : WF_vars(InterruptStamp(t) /\ Quiet)

-----------------------------------------------------------------------------

Pcs == {"configure", "check", "payload", "spawn", "accept", "auth", "accept_wait",
        "accept_control", "signal", "session_wait", "session_control", "kill", "reap",
        "abandon", "stop", "join", "threads", "threads_join", "drain", "finish", "drop",
        "drop_reap", "done"}

Records == [kind : Kinds \cup {"hello", "run", "shutdown"}, code : Codes \cup {FAILURE, NoCode}]

\* The controller's and the worker's variables keep to their types; the
\* terminal channel never holds more than the one outcome it has room for.
TypeOK ==
    /\ pc \in Pcs
    /\ completion \in {"none", "exited", "cancelled", "rss", "timeout", "protocol", "startup"}
    /\ leader \in {"none", "running", "exited", "reaped"}
    /\ Len(terminal) <= 1 /\ (terminal # <<>> => ~open)
    /\ backlog \in Seq(Decoys \cup {"worker"})
    /\ peer \in Decoys \cup {"worker", "none"}
    /\ signals \in Seq(Records) /\ commands \in Seq(Records)
    /\ toWorker \in Seq(Records) /\ sent \in Seq(Records)
    /\ seen \in 0 .. Len(sent)
    /\ {reader, writer} \subseteq {"none", "running", "ended"}
    /\ {ready, acked, open, restored, wclosed, commandsOpen} \subseteq BOOLEAN
    /\ complete \in Codes \cup {FAILURE, NoCode}

\* Whatever a worker writes and in whatever order its records, its exit and
\* the supervisor's polls fall: the supervisor returns the worker's code only
\* if the worker wrote ready, then lifecycle records with one completion among
\* them, not the first, and its acknowledgement, and then exited with the code
\* it had announced (read_worker_events, the drain of supervise_session,
\* finish_worker_status).
CompletionIsProven ==
    completion = "exited" /\ result \notin {NoCode, EXIT_SUPERVISOR} =>
        /\ sent # <<>> /\ sent[1].kind = "ready"
        /\ \E j \in 3 .. Len(sent) : \E k \in j + 1 .. Len(sent) :
                /\ \A i \in 2 .. k - 1 : i # j => sent[i].kind = "lifecycle"
                /\ sent[j] = Complete(result)
                /\ sent[k].kind = "ack"
        /\ leader = "reaped" /\ status.code = result

Crashed == status # Killed /\ (wpc # "exit" \/ status.code # ExitStatus(wcode))

\* A Go worker that does not crash is never failed by a race: if nobody
\* cancelled, no deadline passed and no call failed, the supervisor exits with
\* the code of the command, whichever of the worker's exit, its last records
\* and its asynchronous exits the supervisor sees first, and whoever else
\* connected to the endpoint.  The code must fit the 8 bits of a wait status:
\* a larger --issues-exit-code disagrees with its own status
\* (finish_worker_status) and fails every run that has issues.
HonestRunSucceeds ==
    /\ pc = "done" /\ who = "go" /\ leader # "none"
    /\ Faults = {} /\ cause = "none" /\ ~elapsed /\ expired = {} /\ ~Crashed
    /\ wcode = ExitStatus(wcode)
    => result = wcode /\ report.termination = (IF HasReport THEN "exited" ELSE "none")

\* The main thread waits for the reader only when the worker can no longer
\* keep the connection open (session.finish after a successful terminate or
\* finish_after_exit, and fail_session's guard).
JoinsOnlyTheDead ==
    pc = "threads_join" /\ reader = "running" => leader # "running"

\* The process state of the run is put back only when the command no longer
\* runs in it (executeWorkerRun's restoreState).
StateKeptWhileRunning == restored => command # "running"

\* A supervisor that has a timeout, was cancelled, has not yet authenticated
\* its worker or has its completion ends, whatever the worker does: no thread
\* waits for ever for another one, for the worker or for the process group.
SessionEnds ==
    \/ leader # "none" /\ (HasTimeout \/ ~ready)
    \/ cause # "none"
    \/ complete # NoCode
    ~> (pc = "done" \/ (ready /\ ~HasTimeout /\ cause = "none" /\ complete = NoCode))

=============================================================================
