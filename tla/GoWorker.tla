------------------------------ MODULE GoWorker ------------------------------
(***************************************************************************)
(* pkg/commands/worker.go: the Go process when the Rust supervisor starts  *)
(* it with a worker endpoint.                                              *)
(*                                                                         *)
(* TryExecuteWorker dials the supervisor, serveWorker answers hello with   *)
(* ready, takes one run request, executes it, writes a lifecycle and a     *)
(* complete record, and acknowledges the shutdown before the process exits *)
(* with the code it announced.  The lint command runs in a goroutine of    *)
(* its own: either it returns or some goroutine calls processexit.Exit,    *)
(* and claim() lets the first one through.                                 *)
(*                                                                         *)
(* A record is its kind, and the exit code of a complete record.           *)
(***************************************************************************)
EXTENDS Integers, Sequences

CONSTANT Codes   \* exit codes the lint command may end with

ASSUME WorkerAssumption == Codes \subseteq Nat

VARIABLES
    wpc,      \* where the worker's main goroutine is
    command,  \* the goroutine that runs the lint command
    open,     \* state.open of executeWorkerCommand
    terminal, \* the buffered channel `terminal`
    restored, \* applyWorkerProcessState's restore() has run
    wcode,    \* the exit code that serveWorker returns
    wclosed,  \* connection.Close()
    sent,     \* every record the worker has written, in order
    toWorker  \* records on their way to the worker

run    == <<command, open, terminal, restored>>
worker == <<wpc, run, wcode, wclosed, sent, toWorker>>

FAILURE == 3   \* exitcodes.Failure
PANIC   == 2   \* the exit code of a Go process that panics

Msg(k)       == [kind |-> k, code |-> -1]
Complete(c)  == [kind |-> "complete", code |-> c]

WorkerInit ==
    /\ wpc = "dial"
    /\ command = "idle" /\ open = TRUE /\ terminal = <<>> /\ restored = FALSE
    /\ wcode = FAILURE
    /\ wclosed = FALSE
    /\ sent = <<>>
    /\ toWorker = <<>>

At(from, to) == wpc = from /\ wpc' = to

\* Every error of serveWorker returns exitcodes.Failure.
Fail(from) == At(from, "close") /\ wcode' = FAILURE

Dial ==
    /\ At("dial", "hello")
    /\ UNCHANGED <<run, wcode, wclosed, sent, toWorker>>

\* readWorkerEnvelope, and the check of the kind.
Read(from, kind, to) ==
    /\ toWorker # <<>>
    /\ IF Head(toWorker).kind = kind THEN At(from, to) /\ UNCHANGED wcode ELSE Fail(from)
    /\ toWorker' = Tail(toWorker)
    /\ UNCHANGED <<run, wclosed, sent>>

\* The peer hung up, or the connection's deadline has passed.
ReadFails(from) ==
    /\ Fail(from)
    /\ UNCHANGED <<run, wclosed, sent, toWorker>>

\* writeWorkerEnvelope.
Write(from, record, to) ==
    /\ At(from, to)
    /\ sent' = Append(sent, record)
    /\ UNCHANGED <<run, wcode, wclosed, toWorker>>

ReadHello    == Read("hello", "hello", "ready")
SendReady    == Write("ready", Msg("ready"), "run")
ReadRun      == Read("run", "run", "execute")

\* executeWorkerRun gives up before the command runs (process state, command,
\* colour): a failed run, but a regular one.
RejectRun ==
    /\ At("execute", "lifecycle")
    /\ restored' = TRUE
    /\ wcode' = FAILURE
    /\ UNCHANGED <<command, open, terminal, wclosed, sent, toWorker>>

\* executeWorkerCommand sets the exit handler and starts the goroutine.
StartCommand ==
    /\ At("execute", "await")
    /\ command' = "running"
    /\ UNCHANGED <<open, terminal, restored, wcode, wclosed, sent, toWorker>>

\* claim() succeeds once, and only then is there an outcome to send.
Claim(outcome) ==
    /\ open' = FALSE
    /\ terminal' = IF open THEN Append(terminal, outcome) ELSE terminal

\* execute() returns, perhaps after an exit has been claimed.
CommandReturns(c) ==
    /\ command = "running"
    /\ command' = "returned"
    /\ Claim([exit |-> FALSE, code |-> c])
    /\ UNCHANGED <<wpc, restored, wcode, wclosed, sent, toWorker>>

\* Some goroutine of the command calls processexit.Exit.  When it is too late
\* to be claimed the caller blocks for ever: the handler stays installed.
ProcessExit(c) ==
    /\ command = "running"
    /\ Claim([exit |-> TRUE, code |-> c])
    /\ UNCHANGED <<wpc, command, restored, wcode, wclosed, sent, toWorker>>

\* err := <-terminal.  After an exit the command may still be running, and
\* the process state it runs in is left alone.
MutTakeTerminal ==
    /\ At("await", "lifecycle")
    /\ terminal # <<>>
    /\ wcode' = Head(terminal).code
    /\ terminal' = Tail(terminal)
    /\ restored' = TRUE
    /\ UNCHANGED <<command, open, wclosed, sent, toWorker>>
TakeTerminal ==
    /\ At("await", "lifecycle")
    /\ terminal # <<>>
    /\ wcode' = Head(terminal).code
    /\ terminal' = Tail(terminal)
    /\ restored' = ~Head(terminal).exit
    /\ UNCHANGED <<command, open, wclosed, sent, toWorker>>

SendLifecycle == Write("lifecycle", Msg("lifecycle"), "complete")
SendComplete  == Write("complete", Complete(wcode), "shutdown")
ReadShutdown  == Read("shutdown", "shutdown", "ack")
SendAck       == Write("ack", Msg("ack"), "close")

\* defer connection.Close(), then os.Exit.
Close ==
    /\ At("close", "exit")
    /\ wclosed' = TRUE
    /\ UNCHANGED <<run, wcode, sent, toWorker>>

Reading == {"hello", "run", "shutdown"}
Writing == {"ready", "lifecycle", "complete", "ack"}

\* Where SetDeadline is in force.
Timed == {"hello", "ready", "run", "shutdown", "ack"}

Serve ==
    \/ ReadHello \/ SendReady \/ ReadRun
    \/ RejectRun \/ StartCommand \/ TakeTerminal
    \/ \E c \in Codes : CommandReturns(c) \/ ProcessExit(c)
    \/ SendLifecycle \/ SendComplete \/ ReadShutdown \/ SendAck \/ Close

=============================================================================
