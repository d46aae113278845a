-------------------------- MODULE WorkerRunProofs --------------------------
(***************************************************************************)
(* What the supervisor guarantees with a worker, whatever the worker       *)
(* writes, whoever else connects and whichever calls fail; and what the Go *)
(* worker guarantees for its own process state.                            *)
(***************************************************************************)
EXTENDS WorkerRun, SupervisorProofs

\* Until there is an authenticated session.
Before == Early \cup {"accept", "auth", "accept_wait", "accept_control"}

\* Until executeWorkerCommand starts the command.
Idle == {"dial", "hello", "ready", "run", "execute"}

Outcomes == [exit : BOOLEAN, code : Codes]

\* The outcome that executeWorkerCommand waits for.
GoInv ==
    /\ wcode \in Codes \cup {FAILURE}
    /\ terminal \in Seq(Outcomes)
    /\ wpc \in Idle => command = "idle" /\ ~restored
    /\ restored => command # "running"
    /\ open \in BOOLEAN /\ (open => terminal = <<>>)
    /\ \A i \in 1 .. Len(terminal) : ~terminal[i].exit => command = "returned"

StreamType ==
    /\ sent \in Seq(Records)
    /\ signals \in Seq(Records)
    /\ backlog \in Seq(Decoys \cup {"worker"})
    /\ seen \in Nat /\ seen <= Len(sent)
    /\ reader \in {"none", "running", "ended"}

\* The worker connects once.
LinkInv ==
    /\ wpc = "dial" => peer # "worker" /\ seen = 0
    /\ \A i \in 1 .. Len(backlog) : backlog[i] = "worker" =>
          /\ wpc # "dial" /\ peer # "worker" /\ seen = 0
          /\ \A j \in 1 .. Len(backlog) : backlog[j] = "worker" => j = i

\* The first record of the session that is not a lifecycle record is the
\* completion c.
Announced(c) ==
    \E j \in 3 .. seen : /\ sent[j].kind = "complete" /\ sent[j].code = c
                         /\ \A i \in 2 .. j - 1 : sent[i].kind = "lifecycle"

\* One completion among lifecycle records and then an acknowledgement.
Acknowledged ==
    \E j \in 3 .. seen : \E k \in j + 1 .. seen :
        /\ sent[j].kind = "complete" /\ sent[k].kind = "ack"
        /\ \A i \in 2 .. k - 1 : i # j => sent[i].kind = "lifecycle"

\* What the reader has passed on and what the main thread has taken from it.
PassedOn ==
    /\ \A n \in 1 .. Len(signals) :
          /\ signals[n].kind = "complete" => reader # "none" /\ Announced(signals[n].code)
          /\ signals[n].kind = "ack" => Acknowledged
    /\ complete # NoCode => reader # "none" /\ Announced(complete)
    /\ acked => Acknowledged

\* What the reader has read.
ReaderInv ==
    /\ reader = "none" => ~sawLifecycle /\ ~sawComplete
    /\ reader # "none" => seen >= 1 /\ sent[1].kind = "ready"
    /\ reader = "running" /\ ~sawComplete =>
          /\ \A i \in 2 .. seen : sent[i].kind = "lifecycle"
          /\ sawLifecycle => seen >= 2
    /\ reader = "running" /\ sawComplete =>
          \E j \in 3 .. seen : /\ sent[j].kind = "complete"
                               /\ \A i \in 2 .. seen : i # j => sent[i].kind = "lifecycle"
    /\ PassedOn

\* What the main thread has decided, at each point of it.
ControlInv ==
    /\ completion # "failed"
    /\ pc \in Before => reader = "none"
    /\ pc = "auth" /\ peer = "worker" => seen = 0
    /\ pc \in {"threads_join", "drain"} => ~killError
    /\ pc = "finish" /\ completion = "exited" /\ complete # NoCode => acked
    /\ pc \in Last /\ completion = "exited" /\ result \notin {NoCode, EXIT_SUPERVISOR} =>
          acked /\ complete = result /\ status.code = result

StreamInv == StreamType /\ LinkInv /\ ReaderInv

IInv == CoreInv /\ GoInv /\ StreamInv /\ ControlInv
-----------------------------------------------------------------------------
USE CoreAssumption, WorkerAssumption, SessionAssumption

\* The initial states satisfy the invariant.
LEMMA InitInv == Init => IInv
<1>1. Init => CoreInv
    BY CoreInitInv DEF Init
<1>2. Init => GoInv
    BY DEF Init, WorkerInit, GoInv, Idle
<1>3. Init => StreamInv
    BY DEF Init, WorkerInit, StreamInv, StreamType, LinkInv, ReaderInv, PassedOn, NoCode
<1>4. Init => ControlInv
    BY DEF Init, CoreInit, ControlInv, Before, Early, Last, NoCode
<1> QED
    BY <1>1, <1>2, <1>3, <1>4 DEF IInv

-----------------------------------------------------------------------------
(* Facts about the stream of records.                                      *)

\* What the reader has seen of the stream does not change when the worker
\* writes on and the reader reads on.
LEMMA StreamGrows ==
    ASSUME StreamType, seen' \in Nat, seen <= seen',
           sent' = sent \/ \E r \in Records : sent' = Append(sent, r)
    PROVE  /\ sent' \in Seq(Records) /\ Len(sent) <= Len(sent')
           /\ \A i \in 1 .. Len(sent) : sent'[i] = sent[i]
           /\ \A c : Announced(c) => Announced(c)'
           /\ Acknowledged => Acknowledged'
<1>1. /\ sent' \in Seq(Records) /\ Len(sent) <= Len(sent')
      /\ \A i \in 1 .. Len(sent) : sent'[i] = sent[i]
    <2>1. CASE sent' = sent
        BY <2>1 DEF StreamType
    <2>2. CASE \E r \in Records : sent' = Append(sent, r)
        <3>1. PICK r \in Records : sent' = Append(sent, r)
            BY <2>2
        <3> QED
            BY <3>1 DEF StreamType
    <2> QED
        BY <2>1, <2>2
<1>2. \A i \in 1 .. seen : sent'[i] = sent[i]
    BY <1>1 DEF StreamType
<1>3. ASSUME NEW c, Announced(c) PROVE Announced(c)'
    <2>1. PICK j \in 3 .. seen : /\ sent[j].kind = "complete" /\ sent[j].code = c
                                 /\ \A i \in 2 .. j - 1 : sent[i].kind = "lifecycle"
        BY <1>3 DEF Announced
    <2>2. j \in 3 .. seen' /\ \A i \in 2 .. j : sent'[i] = sent[i]
        BY <1>2 DEF StreamType
    <2> QED
        BY <2>1, <2>2 DEF Announced
<1>4. ASSUME Acknowledged PROVE Acknowledged'
    <2>1. PICK j \in 3 .. seen : \E k \in j + 1 .. seen :
                /\ sent[j].kind = "complete" /\ sent[k].kind = "ack"
                /\ \A i \in 2 .. k - 1 : i # j => sent[i].kind = "lifecycle"
        BY <1>4 DEF Acknowledged
    <2>2. PICK k \in j + 1 .. seen :
                /\ sent[j].kind = "complete" /\ sent[k].kind = "ack"
                /\ \A i \in 2 .. k - 1 : i # j => sent[i].kind = "lifecycle"
        BY <2>1
    <2>3. j \in 3 .. seen' /\ k \in j + 1 .. seen' /\ \A i \in 2 .. k : sent'[i] = sent[i]
        BY <1>2 DEF StreamType
    <2>4. sent'[j] = sent[j]
        BY <2>3
    <2> QED
        BY <2>2, <2>3, <2>4 DEF Acknowledged
<1> QED
    BY <1>1, <1>2, <1>3, <1>4

\* The completion that was announced is the one that was acknowledged.
LEMMA OneCompletion ==
    ASSUME StreamType, NEW c, Announced(c), Acknowledged
    PROVE  \E j \in 3 .. Len(sent) : \E k \in j + 1 .. Len(sent) :
                /\ \A i \in 2 .. k - 1 : i # j => sent[i].kind = "lifecycle"
                /\ sent[j] = Complete(c)
                /\ sent[k].kind = "ack"
<1>1. PICK a \in 3 .. seen : /\ sent[a].kind = "complete" /\ sent[a].code = c
                             /\ \A i \in 2 .. a - 1 : sent[i].kind = "lifecycle"
    BY DEF Announced
<1>2. PICK j \in 3 .. seen : \E k \in j + 1 .. seen :
            /\ sent[j].kind = "complete" /\ sent[k].kind = "ack"
            /\ \A i \in 2 .. k - 1 : i # j => sent[i].kind = "lifecycle"
    BY DEF Acknowledged
<1>3. PICK k \in j + 1 .. seen :
            /\ sent[j].kind = "complete" /\ sent[k].kind = "ack"
            /\ \A i \in 2 .. k - 1 : i # j => sent[i].kind = "lifecycle"
    BY <1>2
<1>4. a \in Int /\ j \in Int /\ k \in Int /\ seen \in Int /\ seen <= Len(sent)
    BY DEF StreamType
<1>5. ~(a < j)
    BY <1>1, <1>3, <1>4
<1>6. ~(j < a)
    BY <1>1, <1>3, <1>4
<1>7. a = j
    BY <1>4, <1>5, <1>6
<1>8. sent[j] \in Records
    BY <1>4 DEF StreamType
<1>9. sent[j] = Complete(c)
    BY <1>1, <1>7, <1>8 DEF Records, Complete
<1>10. j \in 3 .. Len(sent) /\ k \in j + 1 .. Len(sent)
    BY <1>4 DEF StreamType
<1> QED
    BY <1>3, <1>9, <1>10

\* A step that leaves the session's data alone; the worker may write.
LEMMA StreamKept ==
    ASSUME StreamInv, UNCHANGED <<backlog, peer, seen, signals, reader, sawLifecycle, sawComplete,
                                  complete, acked>>,
           (wpc = "dial") <=> (wpc' = "dial"),
           sent' = sent \/ \E r \in Records : sent' = Append(sent, r)
    PROVE  StreamInv'
<1>1. /\ sent' \in Seq(Records) /\ Len(sent) <= Len(sent')
      /\ \A i \in 1 .. Len(sent) : sent'[i] = sent[i]
      /\ \A c : Announced(c) => Announced(c)'
      /\ Acknowledged => Acknowledged'
    BY StreamGrows DEF StreamInv, StreamType
<1>2. StreamType'
    BY <1>1 DEF StreamInv, StreamType
<1>3. LinkInv'
    BY DEF StreamInv, LinkInv
<1>4. ReaderInv'
    <2>1. \A i \in 1 .. seen : sent'[i] = sent[i]
        BY <1>1 DEF StreamInv, StreamType
    <2>2. seen \in Nat
        BY DEF StreamInv, StreamType
    <2> HIDE DEF Announced, Acknowledged
    <2> QED
        BY <1>1, <2>1, <2>2 DEF StreamInv, ReaderInv, PassedOn
<1> QED
    BY <1>2, <1>3, <1>4 DEF StreamInv
-----------------------------------------------------------------------------
(* The steps of the worker.                                                *)

\* The records that can be written.
LEMMA RecordTypes ==
    /\ \A k \in Kinds \cup {"hello", "run", "shutdown"} : Msg(k) \in Records
    /\ \A c \in Codes \cup {FAILURE} : Complete(c) \in Records
BY DEF Records, Msg, Complete, Kinds, NoCode

\* serveWorker and the goroutines of the command.
LEMMA ServeInv ==
    ASSUME GoInv, Serve
    PROVE  /\ GoInv'
           /\ (wpc = "dial") <=> (wpc' = "dial")
           /\ sent' = sent \/ \E r \in Records : sent' = Append(sent, r)
<1> USE DEF Serve, At, Fail, Read, Write, ReadHello, SendReady, ReadRun, RejectRun, StartCommand,
            TakeTerminal, CommandReturns, ProcessExit, Claim, SendLifecycle, SendComplete,
            ReadShutdown, SendAck, Close, run
<1>1. (wpc = "dial") <=> (wpc' = "dial")
    OBVIOUS
<1>2. sent' = sent \/ \E r \in Records : sent' = Append(sent, r)
    <2>1. \/ sent' = sent
          \/ sent' \in {Append(sent, Msg("ready")), Append(sent, Msg("lifecycle")),
                        Append(sent, Complete(wcode)), Append(sent, Msg("ack"))}
        OBVIOUS
    <2>2. {Msg("ready"), Msg("lifecycle"), Complete(wcode), Msg("ack")} \subseteq Records
        BY RecordTypes DEF GoInv, Kinds
    <2> QED
        BY <2>1, <2>2
<1>3. GoInv'
    <2>1. CASE ReadHello \/ SendReady \/ ReadRun \/ SendLifecycle \/ SendComplete
               \/ ReadShutdown \/ SendAck \/ Close
        BY <2>1 DEF GoInv, Idle
    <2>2. CASE RejectRun \/ StartCommand
        BY <2>2 DEF GoInv, Idle
    <2>3. ASSUME NEW c \in Codes, CommandReturns(c) \/ ProcessExit(c)
          PROVE  GoInv'
        <3>1. command = "running" /\ wpc \notin Idle /\ ~restored
            BY <2>3 DEF GoInv
        <3>2. PICK e \in BOOLEAN : /\ open' = FALSE
                                   /\ terminal' = IF open THEN Append(terminal, [exit |-> e, code |-> c])
                                                          ELSE terminal
                                   /\ ~e => command' = "returned"
            BY <2>3
        <3>3. [exit |-> e, code |-> c] \in Outcomes
            BY DEF Outcomes
        <3>4. terminal' \in Seq(Outcomes)
            BY <3>2, <3>3 DEF GoInv
        <3>5. \A i \in 1 .. Len(terminal') : ~terminal'[i].exit => command' = "returned"
            BY <2>3, <3>1, <3>2, <3>3 DEF GoInv
        <3>6. UNCHANGED <<wpc, restored, wcode>>
            BY <2>3
        <3>7. open' \in BOOLEAN /\ ~open'
            BY <3>2
        <3> QED
            BY <3>1, <3>4, <3>5, <3>6, <3>7 DEF GoInv
    <2>4. CASE TakeTerminal
        <3>1. /\ terminal \in Seq(Outcomes) /\ terminal # <<>>
              /\ Head(terminal) = terminal[1] /\ 1 \in 1 .. Len(terminal)
            BY <2>4 DEF GoInv
        <3>2. /\ terminal[1] \in Outcomes
              /\ Tail(terminal) \in Seq(Outcomes)
              /\ Len(Tail(terminal)) = Len(terminal) - 1
              /\ \A i \in 1 .. Len(Tail(terminal)) : Tail(terminal)[i] = terminal[i + 1]
            BY <3>1
        <3>3. \A i \in 1 .. Len(terminal') : ~terminal'[i].exit => command' = "returned"
            BY <2>4, <3>1, <3>2 DEF GoInv
        <3>4. restored' => command' # "running"
            BY <2>4, <3>1, <3>2 DEF GoInv
        <3> QED
            BY <2>4, <3>1, <3>2, <3>3, <3>4 DEF GoInv, Idle, Outcomes
    <2> QED
        BY <2>1, <2>2, <2>3, <2>4
<1> QED
    BY <1>1, <1>2, <1>3

\* A worker of which nothing is known writes what it likes; either worker may
\* also give up.
LEMMA WorkerInv ==
    ASSUME GoInv,
           \/ \E from \in Reading \cup Writing \cup Timed : ReadFails(from)
           \/ \E k \in Kinds, c \in Codes :
                 Write("hello", IF k = "complete" THEN Complete(c) ELSE Msg(k), "hello")
           \/ wpc = "hello" /\ UNCHANGED <<wpc, run, wcode, sent>>
    PROVE  /\ GoInv'
           /\ (wpc = "dial") <=> (wpc' = "dial")
           /\ sent' = sent \/ \E r \in Records : sent' = Append(sent, r)
<1> USE DEF ReadFails, Fail, At, Write, Reading, Writing, Timed, run
<1>1. GoInv' /\ ((wpc = "dial") <=> (wpc' = "dial"))
    BY DEF GoInv, Idle
<1>2. ASSUME NEW k \in Kinds, NEW c \in Codes,
             Write("hello", IF k = "complete" THEN Complete(c) ELSE Msg(k), "hello")
      PROVE  \E r \in Records : sent' = Append(sent, r)
    BY <1>2, RecordTypes
<1> QED
    BY <1>1, <1>2

\* Steps that only concern the worker.
LEMMA WorkerStepInv ==
    ASSUME IInv, GoServe \/ GoHungUp \/ GoDeadline \/ AnyWrite \/ AnyClose
    PROVE  IInv'
<1>1. CoreInv'
    BY CoreStutter DEF IInv, GoServe, GoHungUp, GoDeadline, AnyWrite, AnyClose
<1>2. /\ GoInv'
      /\ (wpc = "dial") <=> (wpc' = "dial")
      /\ sent' = sent \/ \E r \in Records : sent' = Append(sent, r)
    <2>1. CASE GoServe
        BY <2>1, ServeInv DEF IInv, GoServe
    <2>2. CASE GoHungUp
        BY <2>2, WorkerInv DEF IInv, GoHungUp
    <2>3. CASE GoDeadline
        BY <2>3, WorkerInv DEF IInv, GoDeadline
    <2>4. CASE AnyWrite
        BY <2>4, WorkerInv DEF IInv, AnyWrite
    <2>5. CASE AnyClose
        BY <2>5, WorkerInv DEF IInv, AnyClose
    <2> QED
        BY <2>1, <2>2, <2>3, <2>4, <2>5
<1>3. UNCHANGED <<core, link, loop, threads>>
    BY DEF GoServe, GoHungUp, GoDeadline, AnyWrite, AnyClose, session
<1>4. StreamInv'
    BY <1>2, <1>3, StreamKept DEF IInv, link, loop, threads
<1>5. ControlInv'
    BY <1>3 DEF IInv, ControlInv, core, proc, out, link, loop, threads
<1> QED
    BY <1>1, <1>2, <1>4, <1>5 DEF IInv

\* A peer connects.
LEMMA ConnectInv ==
    ASSUME IInv, GoDial \/ AnyDial \/ \E d \in Decoys : DecoyDial(d)
    PROVE  IInv'
<1> USE DEF GoDial, AnyDial, DecoyDial, Dial, At, Connect
<1>1. CoreInv'
    BY CoreStutter DEF IInv
<1>2. GoInv'
    BY DEF IInv, GoInv, Idle, run, worker
<1>3. UNCHANGED <<core, sent, peer, seen, loop, threads>>
    BY DEF worker
<1>4. PICK p \in Decoys \cup {"worker"} :
            /\ backlog' = Append(backlog, p)
            /\ p = "worker" => wpc = "dial" /\ wpc' # "dial"
            /\ p # "worker" => wpc' = wpc
    BY DEF worker
<1>5. StreamType'
    BY <1>3, <1>4 DEF IInv, StreamInv, StreamType, threads
<1>6. LinkInv'
    <2>1. /\ backlog \in Seq(Decoys \cup {"worker"})
          /\ Len(backlog') = Len(backlog) + 1
          /\ \A i \in 1 .. Len(backlog') : backlog'[i] = IF i = Len(backlog) + 1 THEN p ELSE backlog[i]
        BY <1>4 DEF IInv, StreamInv, StreamType
    <2>2. \A i \in 1 .. Len(backlog') : i # Len(backlog) + 1 => i \in 1 .. Len(backlog)
        BY <2>1
    <2>3. CASE p = "worker"
        <3>1. \A i \in 1 .. Len(backlog) : backlog[i] # "worker"
            BY <1>4, <2>3 DEF IInv, StreamInv, LinkInv
        <3>2. \A i \in 1 .. Len(backlog') : backlog'[i] = "worker" => i = Len(backlog) + 1
            BY <2>1, <2>2, <3>1
        <3> QED
            BY <1>3, <1>4, <2>3, <3>2 DEF IInv, StreamInv, LinkInv
    <2>4. CASE p # "worker"
        <3>1. \A i \in 1 .. Len(backlog') : backlog'[i] = "worker" =>
                    i \in 1 .. Len(backlog) /\ backlog[i] = "worker"
            BY <2>1, <2>2, <2>4
        <3> QED
            BY <1>3, <1>4, <2>4, <3>1 DEF IInv, StreamInv, LinkInv
    <2> QED
        BY <2>3, <2>4
<1>7. ReaderInv'
    BY <1>3 DEF IInv, StreamInv, ReaderInv, PassedOn, Announced, Acknowledged, loop, threads
<1>8. ControlInv'
    BY <1>3 DEF IInv, ControlInv, core, proc, out, loop, threads
<1> QED
    BY <1>1, <1>2, <1>5, <1>6, <1>7, <1>8 DEF IInv, StreamInv
-----------------------------------------------------------------------------
(* The threads of the session.                                             *)

\* A signal is put on the channel; one that carries no verdict needs no
\* justification.
LEMMA EmitInv ==
    ASSUME StreamInv, NEW m \in Records, signals' = Append(signals, m),
           seen' \in Nat, seen <= seen', UNCHANGED <<sent, complete, acked>>,
           reader # "none" /\ reader' # "none",
           m.kind = "complete" => Announced(m.code)',
           m.kind = "ack" => Acknowledged'
    PROVE  /\ signals' \in Seq(Records)
           /\ PassedOn'
<1>1. /\ \A c : Announced(c) => Announced(c)'
      /\ Acknowledged => Acknowledged'
    BY StreamGrows DEF StreamInv, StreamType
<1>2. /\ signals' \in Seq(Records) /\ Len(signals') = Len(signals) + 1
      /\ signals \in Seq(Records)
      /\ \A n \in 1 .. Len(signals') : signals'[n] = IF n = Len(signals) + 1 THEN m ELSE signals[n]
    BY DEF StreamInv, StreamType
<1>3. (\A n \in 1 .. Len(signals) :
            /\ signals[n].kind = "complete" => reader # "none" /\ Announced(signals[n].code)
            /\ signals[n].kind = "ack" => Acknowledged)'
    <2> HIDE DEF Announced, Acknowledged
    <2>1. \A n \in 1 .. Len(signals') : n # Len(signals) + 1 => n \in 1 .. Len(signals)
        BY <1>2
    <2> QED
        BY <1>1, <1>2, <2>1 DEF StreamInv, ReaderInv, PassedOn
<1>4. (complete # NoCode => reader # "none" /\ Announced(complete))'
    BY <1>1 DEF StreamInv, ReaderInv, PassedOn
<1>5. acked' => Acknowledged'
    BY <1>1 DEF StreamInv, ReaderInv, PassedOn
<1> QED
    BY <1>2, <1>3, <1>4, <1>5 DEF PassedOn

\* read_worker_events.
LEMMA ReaderStepInv ==
    ASSUME IInv, ReaderStep
    PROVE  IInv'
<1> USE DEF ReaderStep
<1>1. CoreInv' /\ GoInv'
    BY CoreStutter DEF IInv, GoInv, worker, run
<1>2. UNCHANGED <<core, wpc, sent, backlog, peer, loop>> /\ reader = "running"
    BY DEF worker
<1>3. StreamInv /\ seen \in Nat /\ seen <= Len(sent) /\ sent \in Seq(Records)
    BY DEF IInv, StreamInv, StreamType
<1>4. seen' \in Nat /\ seen <= seen' /\ seen' <= Len(sent)
    BY <1>3 DEF Unread
<1>5. reader' \in {"running", "ended"}
    BY DEF ReadRecord, ReaderFails
<1>6. LinkInv'
    <2>1. \A i \in 1 .. Len(backlog) : backlog[i] # "worker"
        BY <1>2 DEF IInv, StreamInv, LinkInv, ReaderInv
    <2>2. wpc # "dial"
        BY <1>2 DEF IInv, StreamInv, LinkInv, ReaderInv
    <2> QED
        BY <1>2, <2>1, <2>2 DEF LinkInv
<1>7. ControlInv'
    BY <1>2, <1>5 DEF IInv, ControlInv, Before, core, proc, out, loop
<1>8. Msg("error") \in Records /\ Msg("error").kind = "error"
    BY RecordTypes DEF Kinds, Msg
<1>9. CASE ReaderFails
    <2>1. /\ signals' \in Seq(Records)
          /\ PassedOn'
        BY <1>2, <1>3, <1>4, <1>5, <1>8, <1>9, EmitInv DEF ReaderFails, Emit, loop
    <2>2. StreamType'
        BY <1>2, <1>3, <1>4, <1>9, <2>1 DEF IInv, StreamInv, StreamType, ReaderFails
    <2>3. ReaderInv'
        BY <1>2, <1>3, <1>4, <1>9, <2>1 DEF IInv, StreamInv, ReaderInv, ReaderFails
    <2> QED
        BY <1>1, <1>6, <1>7, <2>2, <2>3 DEF IInv, StreamInv
<1>10. CASE ~ReaderFails
    <2>0. NextRecord \in Records /\ Unread
        BY <1>3, <1>10 DEF Unread, NextRecord
    <2> PICK r \in Records : r = NextRecord
        BY <2>0
    <2>1. seen' = seen + 1 /\ seen + 1 \in 1 .. Len(sent) /\ r = sent[seen + 1]
        BY <1>3, <2>0 DEF Unread, NextRecord
    <2>2. \/ /\ r.kind = "lifecycle" /\ sawLifecycle'
             /\ UNCHANGED <<signals, reader, sawComplete>>
          \/ /\ r.kind = "complete" /\ sawLifecycle /\ ~sawComplete
             /\ signals' = Append(signals, r) /\ sawComplete' /\ UNCHANGED <<reader, sawLifecycle>>
          \/ /\ r.kind = "ack" /\ sawComplete
             /\ signals' = Append(signals, r) /\ reader' = "ended"
             /\ UNCHANGED <<sawLifecycle, sawComplete>>
        BY <1>10, <2>0 DEF ReadRecord, Emit
    <2>3. CASE r.kind = "lifecycle"
        <3>1. UNCHANGED <<signals, reader, sawComplete>>
            BY <2>2, <2>3
        <3>2. /\ \A c : Announced(c) => Announced(c)'
              /\ Acknowledged => Acknowledged'
            BY <1>2, <1>3, <1>4, StreamGrows DEF StreamInv
        <3>3. StreamType'
            BY <1>2, <1>3, <1>4, <3>1 DEF StreamInv, StreamType
        <3>4. ~sawComplete => \A i \in 2 .. seen + 1 : sent[i].kind = "lifecycle"
            BY <1>2, <1>3, <2>1, <2>3 DEF StreamInv, ReaderInv
        <3>5. sawComplete => \E j \in 3 .. seen + 1 :
                    /\ sent[j].kind = "complete"
                    /\ \A i \in 2 .. seen + 1 : i # j => sent[i].kind = "lifecycle"
            BY <1>2, <1>3, <2>1, <2>3 DEF StreamInv, ReaderInv
        <3>6. seen >= 1 /\ sent[1].kind = "ready"
            BY <1>2 DEF StreamInv, IInv, ReaderInv
        <3>7. ReaderInv'
            BY <1>2, <1>3, <2>1, <3>1, <3>2, <3>4, <3>5, <3>6 DEF StreamInv, ReaderInv, PassedOn, loop
        <3> QED
            BY <1>1, <1>6, <1>7, <3>3, <3>7 DEF IInv, StreamInv
    <2>4. CASE r.kind = "complete"
        <3>1. /\ sawLifecycle /\ ~sawComplete /\ signals' = Append(signals, r) /\ sawComplete'
              /\ UNCHANGED <<reader, sawLifecycle>>
            BY <2>2, <2>4
        <3>2. /\ seen >= 2 /\ \A i \in 2 .. seen : sent[i].kind = "lifecycle"
              /\ sent[1].kind = "ready"
            BY <1>2, <3>1 DEF IInv, StreamInv, ReaderInv
        <3>3. /\ seen + 1 \in 3 .. seen'
              /\ sent[seen + 1].kind = "complete" /\ sent[seen + 1].code = r.code
              /\ \A i \in 2 .. (seen + 1) - 1 : sent[i].kind = "lifecycle"
              /\ \A i \in 2 .. seen' : i # seen + 1 => sent[i].kind = "lifecycle"
            BY <1>3, <2>1, <2>4, <3>2
        <3>4. Announced(r.code)'
            BY <1>2, <3>3 DEF Announced
        <3>5. /\ signals' \in Seq(Records)
              /\ PassedOn'
            BY <1>2, <1>3, <1>4, <2>1, <2>4, <3>1, <3>4, EmitInv DEF loop
        <3>6. StreamType'
            BY <1>2, <1>3, <1>4, <3>1, <3>5 DEF StreamInv, StreamType
        <3>7. ReaderInv'
            BY <1>2, <1>3, <2>1, <3>1, <3>2, <3>3, <3>5 DEF ReaderInv
        <3> QED
            BY <1>1, <1>6, <1>7, <3>6, <3>7 DEF IInv, StreamInv
    <2>5. CASE r.kind = "ack"
        <3>1. /\ sawComplete /\ signals' = Append(signals, r) /\ reader' = "ended"
              /\ UNCHANGED <<sawLifecycle, sawComplete>>
            BY <2>2, <2>5
        <3>2. PICK j \in 3 .. seen :
                    /\ sent[j].kind = "complete"
                    /\ \A i \in 2 .. seen : i # j => sent[i].kind = "lifecycle"
            BY <1>2, <3>1 DEF IInv, StreamInv, ReaderInv
        <3>3. /\ j \in 3 .. seen' /\ seen + 1 \in j + 1 .. seen'
              /\ sent[seen + 1].kind = "ack"
              /\ \A i \in 2 .. (seen + 1) - 1 : i # j => sent[i].kind = "lifecycle"
            BY <1>3, <2>1, <2>5, <3>2
        <3>4. Acknowledged'
            BY <1>2, <3>2, <3>3 DEF Acknowledged
        <3>5. /\ signals' \in Seq(Records)
              /\ PassedOn'
            BY <1>2, <1>3, <1>4, <2>1, <2>5, <3>1, <3>4, EmitInv DEF loop
        <3>6. StreamType'
            BY <1>2, <1>3, <1>4, <3>1, <3>5 DEF StreamInv, StreamType
        <3>7. seen >= 1 /\ sent[1].kind = "ready"
            BY <1>2 DEF IInv, StreamInv, ReaderInv
        <3>8. ReaderInv'
            BY <1>2, <1>3, <2>1, <3>1, <3>5, <3>7 DEF ReaderInv
        <3> QED
            BY <1>1, <1>6, <1>7, <3>6, <3>8 DEF IInv, StreamInv
    <2> QED
        BY <2>2, <2>3, <2>4, <2>5
<1> QED
    BY <1>9, <1>10

\* write_commands, and the deadlines that pass.
LEMMA WriterInv ==
    ASSUME IInv, WriterStep \/ WriterEnds \/ Late
    PROVE  IInv'
<1> USE DEF WriterStep, WriterEnds, Late, Expire
<1>1. CoreInv' /\ GoInv'
    BY CoreStutter DEF IInv, GoInv, worker, run
<1>2. UNCHANGED <<core, wpc, sent, link, loop, reader, sawLifecycle, sawComplete>>
    BY DEF worker, threads
<1>3. UNCHANGED signals \/ signals' = Append(signals, Msg("error"))
    BY DEF Emit, threads
<1>4. ControlInv'
    BY <1>2 DEF IInv, ControlInv, core, proc, out, loop, link
<1>5. StreamInv'
    <2>1. CASE UNCHANGED signals
        BY <1>2, <2>1, StreamKept DEF IInv, link, loop
    <2>2. CASE signals' = Append(signals, Msg("error"))
        <3>1. Msg("error") \in Records /\ Msg("error").kind = "error"
            BY RecordTypes DEF Kinds, Msg
        <3>2. /\ signals \in Seq(Records) /\ signals' \in Seq(Records)
              /\ \A n \in 1 .. Len(signals') : signals'[n].kind # "error" =>
                    n \in 1 .. Len(signals) /\ signals'[n] = signals[n]
            BY <2>2, <3>1 DEF IInv, StreamInv, StreamType
        <3>3. StreamType' /\ LinkInv'
            BY <1>2, <3>2 DEF IInv, StreamInv, StreamType, LinkInv, link
        <3>4. ReaderInv'
            BY <1>2, <3>2 DEF IInv, StreamInv, ReaderInv, PassedOn, Announced, Acknowledged, link, loop
        <3> QED
            BY <3>3, <3>4 DEF StreamInv
    <2> QED
        BY <1>3, <2>1, <2>2
<1> QED
    BY <1>1, <1>4, <1>5 DEF IInv
-----------------------------------------------------------------------------
(* The main thread and what the shared part of it does.                    *)

\* A step that leaves the worker and the session alone.
LEMMA QuietInv ==
    ASSUME IInv, Quiet, CoreInv', ControlInv'
    PROVE  IInv'
<1>1. GoInv'
    BY DEF IInv, GoInv, Quiet, worker, run
<1>2. StreamInv'
    BY StreamKept DEF IInv, Quiet, worker, session, link, loop, threads
<1> QED
    BY <1>1, <1>2 DEF IInv

\* What a step of the shared part has to leave alone.
LEMMA ControlKept ==
    ASSUME IInv, Quiet,
           completion' # "failed",
           pc' \in Before => pc \in Before /\ (pc' = "auth" => pc = "auth"),
           pc' \in {"threads_join", "drain"} => pc' = pc /\ UNCHANGED killError,
           pc' = "finish" /\ completion' = "exited" => pc = "finish" /\ UNCHANGED completion,
           pc' \in Last /\ completion' = "exited" /\ result' \notin {NoCode, EXIT_SUPERVISOR} =>
                pc \in Last /\ UNCHANGED <<completion, result, status>>
    PROVE  ControlInv'
<1>1. UNCHANGED <<reader, peer, seen, complete, acked>>
    BY DEF Quiet, session, link, loop, threads
<1>2. (/\ completion # "failed"
       /\ pc \in Before => reader = "none"
       /\ pc = "auth" /\ peer = "worker" => seen = 0
       /\ pc \in {"threads_join", "drain"} => ~killError)'
    BY <1>1 DEF IInv, ControlInv, Before
<1>3. (pc = "finish" /\ completion = "exited" /\ complete # NoCode => acked)'
    BY <1>1 DEF IInv, ControlInv
<1>4. (pc \in Last /\ completion = "exited" /\ result \notin {NoCode, EXIT_SUPERVISOR} =>
          acked /\ complete = result /\ status.code = result)'
    BY <1>1 DEF IInv, ControlInv
<1> QED
    BY <1>2, <1>3, <1>4 DEF ControlInv

\* The start of the run.
LEMMA StartStepInv ==
    ASSUME IInv, Start
    PROVE  IInv'
<1> USE DEF Configure, CheckCancelled, Spawn, SpawnFails, Prepare, PrepareFails, Goto
<1>1. CASE (Configure \/ CheckCancelled("payload") \/ Spawn("accept") \/ SpawnFails) /\ Quiet
    <2>1. CoreInv'
        <3>1. "accept" \notin Early \cup AfterKill \cup {"kill"}
            BY DEF Early, AfterKill, Closing, Last
        <3> HIDE DEF Configure, CheckCancelled, Spawn, SpawnFails
        <3> QED
            BY <1>1, <3>1, StartInv DEF IInv
    <2>2. completion = "none" /\ result = NoCode
        BY <1>1 DEF IInv, CoreInv, ProcInv, ReportInv, Early, Last
    <2>3. ControlInv'
        BY <1>1, <2>2, ControlKept DEF Before, Early, Last, out
    <2> QED
        BY <1>1, <2>1, <2>3, QuietInv
<1>2. CASE Prepare \/ PrepareFails
    <2>1. /\ Quiet /\ UNCHANGED <<env, completion, elapsed, proc, canc, mem, report>>
          /\ pc = "payload"
          /\ \/ pc' = "spawn" /\ UNCHANGED result
             \/ pc' = "drop" /\ result' = EXIT_SUPERVISOR
        BY <1>2 DEF Quiet, out
    <2>2. completion = "none" /\ result = NoCode /\ leader = "none" /\ monitor = "none"
        BY <2>1 DEF IInv, CoreInv, ProcInv, ReportInv, Early, Last
    <2>3. CoreInv'
        <3> USE DEF IInv, CoreInv, proc, canc, mem
        <3>1. CoreType'
            <4>1. CoreFlags'
                BY <2>1 DEF CoreType, CoreFlags
            <4> QED
                BY <2>1, <4>1 DEF CoreType
        <3>2. ProcInv'
            BY <2>1, <2>2 DEF ProcInv, Early, Closing, Last, AfterKill, Clean
        <3>3. CancelInv' /\ MonitorInv'
            BY <2>1 DEF CancelInv, MonitorInv
        <3>4. ReportInv'
            BY <2>1 DEF ReportInv, Last, LatencyOfTheWinner, RssVerdictIsBacked
        <3> QED
            BY <3>1, <3>2, <3>3, <3>4
    <2>4. ControlInv'
        BY <2>1, <2>2, ControlKept DEF Before, Early, Last
    <2> QED
        BY <2>1, <2>3, <2>4, QuietInv
<1> QED
    BY <1>1, <1>2 DEF Start

\* The listeners, the monitor, the processes and the clock.
LEMMA OthersInv ==
    ASSUME IInv, Quiet,
           \/ Monitoring \/ \E t \in Listeners : Requesting(t)
           \/ Elapse \/ Fork \/ GroupEnds \/ \E s \in StatusForm : LeaderEnds(s)
    PROVE  IInv'
<1>1. CoreInv'
    BY MonitoringInv, RequestingInv, WorldInv DEF IInv
<1>2. UNCHANGED <<pc, completion, result, killError>> /\ (UNCHANGED status \/ leader = "running")
    BY DEF Requesting, Interrupt, InterruptStamp, Monitoring, MonitorStep, Sample, Compare,
           CancelForRss, CancelForRssStamp, MonitorStops, MonitorAgain, MonitorPanics,
           Elapse, Fork, GroupEnds, LeaderEnds, proc, out
<1>3. completion = "exited" => leader = "reaped"
    BY DEF IInv, CoreInv, ProcInv
<1>4. ControlInv'
    BY <1>2, <1>3, ControlKept DEF IInv, ControlInv
<1> QED
    BY <1>1, <1>4, QuietInv

\* The worker's process ends.
LEMMA ExitInv ==
    ASSUME IInv, GoExit \/ \E s \in Statuses : Crash(s) \/ AnyExit(s)
    PROVE  IInv'
<1>1. CASE GoExit
    <2>1. [code |-> ExitStatus(wcode), signal |-> 0] \in StatusForm
        <3>1. wcode \in Nat
            BY DEF IInv, GoInv, FAILURE
        <3> QED
            BY <3>1 DEF ExitStatus, StatusForm
    <2> QED
        BY <1>1, <2>1, OthersInv DEF GoExit, Quiet
<1>2. CASE \E s \in Statuses : Crash(s) \/ AnyExit(s)
    BY <1>2, OthersInv DEF Crash, AnyExit, Quiet, StatusForm, NoCode
<1> QED
    BY <1>1, <1>2

\* The cleanup, and the reports that both runs write.
LEMMA CleanupInv ==
    ASSUME IInv, Quiet, CleaningUp \/ JoinMonitor("threads") \/ Finishing
    PROVE  IInv'
<1>1. CoreInv'
    <2>1. "threads" \in Closing
        BY DEF Closing
    <2> QED
        BY <2>1, CleaningUpInv, JoinMonitorInv, FinishingInv DEF IInv
<1>2. ControlInv'
    <2>1. CASE CleaningUp \/ JoinMonitor("threads")
        <3>1. /\ pc' \in {"stop", "abandon", "reap", "drop", "join", "threads"} /\ UNCHANGED completion
              /\ pc' = "drop" => result' = EXIT_SUPERVISOR
            BY <2>1 DEF CleaningUp, JoinMonitor, FinishAfterExit, Terminate, TerminateReap, Reaped,
                        Abandon, StopMonitor, Goto
        <3> QED
            BY <3>1, ControlKept DEF IInv, ControlInv, Before, Early, Last
    <2>2. CASE FinishTimeout \/ FinishCancelled \/ FinishStartup \/ FinishFailed
        <3>1. pc' = "drop" /\ UNCHANGED completion /\ completion # "exited"
            BY <2>2 DEF FinishTimeout, FinishCancelled, FinishStartup, FinishFailed, FinishWith, Goto,
                        CleanupErrorsKept
        <3> QED
            BY <3>1, ControlKept DEF IInv, ControlInv, Before, Early, Last
    <2>3. CASE Drop \/ DropReap
        <3>1. pc \in Last /\ pc' \in Last /\ UNCHANGED <<completion, result>>
            BY <2>3 DEF Drop, DropReap, Goto, Last, out
        <3>2. completion = "exited" => leader = "reaped"
            BY DEF IInv, CoreInv, ProcInv
        <3>3. completion = "exited" => UNCHANGED status
            BY <2>3, <3>2 DEF Drop, DropReap, KillSucceeds, KillFails
        <3> QED
            BY <3>1, <3>3, ControlKept DEF IInv, ControlInv, Before, Early, Last
    <2> QED
        BY <2>1, <2>2, <2>3 DEF Finishing
<1> QED
    BY <1>1, <1>2, QuietInv
-----------------------------------------------------------------------------
(* Accepting, supervising and ending the session.                          *)

\* The places where the main thread polls.
Polling == {"accept", "auth", "accept_wait", "accept_control", "signal", "session_wait",
            "session_control"}

\* A poll either goes on to the next one or decides how the run ends.
Polled ==
    /\ pc \in Polling
    /\ UNCHANGED <<env, elapsed, status, group, armed, killError, canc, mem, out>>
    /\ \/ UNCHANGED <<completion, leader>> /\ pc' \in Polling
       \/ /\ pc' = "kill" /\ completion' # "failed"
          /\ UNCHANGED leader \/ (leader = "exited" /\ leader' = "reaped")
          /\ completion' = "exited" => leader' = "reaped"
          /\ completion' \in {"cancelled", "rss"} => completion' = cause
    /\ pc' \in Before => pc \in Before

\* Every poll is one of these.
LEMMA PollForm ==
    ASSUME IInv, Accepting \/ Supervising
    PROVE  Polled
<1> USE DEF Polled, Polling, Before, Early, Goto, Decide, proc, out
<1>1. CASE Accept \/ AcceptFails
    BY <1>1 DEF Accept, AcceptFails
<1>2. CASE AuthRecord \/ AuthTimeout
    BY <1>2 DEF AuthRecord, AuthTimeout, StartSession, Candidate
<1>3. Control \in {"timeout", "continue", cause} /\ cause \in {"none", "cancelled", "rss"}
      /\ (Control # "continue" => Control \in {"timeout", "cancelled", "rss"})
    BY DEF Control, IInv, CoreInv, CoreType
<1>4. CASE AuthCheck
    BY <1>3, <1>4 DEF AuthCheck, ReapLeader
<1>5. CASE AcceptWait \/ SessionWait
    BY <1>5 DEF AcceptWait, SessionWait, WaitChild, ReapLeader
<1>6. CASE AcceptControl \/ SessionControl
    BY <1>3, <1>6 DEF AcceptControl, SessionControl, CheckControl
<1>7. CASE TakeSignal \/ NoSignal
    BY <1>7 DEF TakeSignal, NoSignal
<1> QED
    BY <1>1, <1>2, <1>4, <1>5, <1>6, <1>7 DEF Accepting, Supervising

\* The shared invariant, and most of what the main thread keeps in mind.
LEMMA PolledInv ==
    ASSUME IInv, Polled
    PROVE  /\ CoreInv'
           /\ (/\ completion # "failed"
               /\ pc \in {"threads_join", "drain"} => ~killError
               /\ pc = "finish" /\ completion = "exited" /\ complete # NoCode => acked
               /\ pc \in Last /\ completion = "exited" /\ result \notin {NoCode, EXIT_SUPERVISOR} =>
                    acked /\ complete = result /\ status.code = result)'
<1>1. Polling \cap (Early \cup AfterKill \cup {"kill"}) = {}
    BY DEF Polling, Early, AfterKill, Closing, Last
<1>2. CoreInv'
    BY <1>1, PollInv DEF IInv, Polled
<1>3. pc' \in Polling \cup {"kill"} /\ completion' # "failed"
    BY DEF Polled, IInv, ControlInv
<1> QED
    BY <1>2, <1>3 DEF Polling, Last

\* Accept, the greeting and the authentication.
LEMMA AcceptStepInv ==
    ASSUME IInv, Accept
    PROVE  IInv'
<1> USE DEF Accept
<1>1. Polled
    BY PollForm DEF Accepting
<1>2. GoInv'
    BY DEF IInv, GoInv, run
<1>3. UNCHANGED <<wpc, sent, seen, loop, threads>> /\ pc' \in {"accept_wait", "auth", "kill"} /\ pc = "accept"
    BY DEF link, Decide, Goto
<1>4. reader' = "none"
    BY <1>3 DEF IInv, ControlInv, Before, threads
<1>5. CASE backlog = <<>>
    <2>1. UNCHANGED <<backlog, peer>> /\ pc' # "auth"
        BY <1>5 DEF link, Goto
    <2>2. StreamInv'
        BY <1>3, <2>1, StreamKept DEF IInv, loop, threads
    <2>3. ControlInv'
        BY <1>1, <1>3, <1>4, <2>1, PolledInv DEF ControlInv
    <2> QED
        BY <1>1, <1>2, <2>2, <2>3, PolledInv DEF IInv
<1>6. CASE backlog # <<>>
    <2>1. backlog' = Tail(backlog) /\ peer' = Head(backlog)
        BY <1>6
    <2>2. /\ backlog \in Seq(Decoys \cup {"worker"}) /\ Head(backlog) = backlog[1]
          /\ 1 \in 1 .. Len(backlog)
          /\ backlog' \in Seq(Decoys \cup {"worker"}) /\ Len(backlog') = Len(backlog) - 1
          /\ \A i \in 1 .. Len(backlog') : i + 1 \in 1 .. Len(backlog) /\ backlog'[i] = backlog[i + 1]
        BY <1>6, <2>1 DEF IInv, StreamInv, StreamType
    <2>3. StreamType'
        BY <1>3, <2>2 DEF IInv, StreamInv, StreamType, threads
    <2>4. peer' = "worker" => /\ wpc # "dial" /\ seen = 0
                              /\ \A i \in 1 .. Len(backlog') : backlog'[i] # "worker"
        BY <2>1, <2>2 DEF IInv, StreamInv, LinkInv
    <2>5. LinkInv'
        <3>1. wpc' = "dial" => peer' # "worker" /\ seen' = 0
            BY <1>3, <2>4 DEF IInv, StreamInv, LinkInv
        <3>2. ASSUME NEW i \in 1 .. Len(backlog'), backlog'[i] = "worker"
              PROVE  /\ wpc' # "dial" /\ peer' # "worker" /\ seen' = 0
                     /\ \A j \in 1 .. Len(backlog') : backlog'[j] = "worker" => j = i
            <4>1. wpc # "dial" /\ seen = 0
                BY <2>2, <3>2 DEF IInv, StreamInv, LinkInv
            <4>2. ASSUME NEW j \in 1 .. Len(backlog'), backlog'[j] = "worker"
                  PROVE  j = i
                <5>1. j + 1 = i + 1
                    BY <2>2, <3>2, <4>2 DEF IInv, StreamInv, LinkInv
                <5> QED
                    BY <2>2, <5>1
            <4> QED
                BY <1>3, <2>4, <3>2, <4>1, <4>2
        <3> QED
            BY <3>1, <3>2 DEF LinkInv
    <2>6. ReaderInv'
        BY <1>3 DEF IInv, StreamInv, ReaderInv, PassedOn, Announced, Acknowledged, loop, threads
    <2>7. ControlInv'
        BY <1>1, <1>3, <1>4, <2>4, PolledInv DEF ControlInv
    <2> QED
        BY <1>1, <1>2, <2>3, <2>5, <2>6, <2>7, PolledInv DEF IInv, StreamInv
<1> QED
    BY <1>5, <1>6

\* read_authentication_record and its timeout.
LEMMA AuthInv ==
    ASSUME IInv, AuthRecord \/ AuthTimeout
    PROVE  IInv'
<1> USE DEF AuthRecord, AuthTimeout
<1>1. Polled
    BY PollForm DEF Accepting
<1>2. GoInv'
    BY DEF IInv, GoInv, worker, run
<1>3. UNCHANGED <<wpc, sent, backlog, loop>> /\ pc = "auth"
    BY DEF worker, Candidate, StartSession, Goto
<1>4. reader = "none" /\ complete = NoCode
    BY <1>3 DEF IInv, ControlInv, Before, StreamInv, ReaderInv, PassedOn
<1>5. StreamInv /\ seen \in Nat /\ seen <= Len(sent) /\ sent \in Seq(Records)
    BY DEF IInv, StreamInv, StreamType
<1>6. peer = "worker" => /\ seen = 0 /\ wpc # "dial"
                         /\ \A i \in 1 .. Len(backlog) : backlog[i] # "worker"
    BY <1>3 DEF IInv, ControlInv, StreamInv, LinkInv
<1>7. seen' \in Nat /\ seen <= seen' /\ seen' <= Len(sent) /\ (peer # "worker" => seen' = seen)
    BY <1>5 DEF Unread
<1>8. LinkInv' /\ (peer' \in {peer, "none"})
    <2>1. peer' \in {peer, "none"}
        BY DEF Candidate, StartSession
    <2> QED
        BY <1>3, <1>5, <1>6, <1>7, <2>1 DEF StreamInv, LinkInv
<1>9. /\ \A c : Announced(c) => Announced(c)'
      /\ Acknowledged => Acknowledged'
    BY <1>3, <1>5, <1>7, StreamGrows DEF StreamInv
<1>10. CASE Candidate
    <2>1. UNCHANGED threads /\ peer' = "none" /\ pc' = "accept_wait"
        BY <1>10 DEF Candidate, Goto
    <2>2. StreamType'
        BY <1>3, <1>5, <1>7, <2>1 DEF StreamInv, StreamType, threads
    <2>3. ReaderInv'
        BY <1>3, <1>4, <1>5, <1>9, <2>1 DEF StreamInv, ReaderInv, PassedOn, loop, threads
    <2>4. ControlInv'
        BY <1>1, <1>4, <2>1, PolledInv DEF ControlInv, threads
    <2> QED
        BY <1>1, <1>2, <1>8, <2>2, <2>3, <2>4, PolledInv DEF IInv, StreamInv
<1>11. CASE ~Candidate
    <2>1. /\ peer = "worker" /\ seen' = 1 /\ 1 \in 1 .. Len(sent) /\ sent[1].kind = "ready"
          /\ signals' = <<Msg("ready")>> /\ reader' = "running" /\ pc' = "signal"
          /\ UNCHANGED <<sawLifecycle, sawComplete>>
        BY <1>5, <1>6, <1>11 DEF StartSession, Unread, NextRecord, Goto
    <2>2. Msg("ready") \in Records /\ Msg("ready").kind = "ready"
        BY RecordTypes DEF Kinds, Msg
    <2>3. signals' \in Seq(Records) /\ \A n \in 1 .. Len(signals') : signals'[n].kind = "ready"
        BY <2>1, <2>2
    <2>4. StreamType'
        BY <1>3, <1>5, <1>7, <2>1, <2>3 DEF StreamInv, StreamType
    <2>5. ~sawLifecycle /\ ~sawComplete
        BY <1>4, <1>5 DEF StreamInv, ReaderInv
    <2>6. PassedOn'
        BY <1>3, <1>4, <1>5, <1>9, <2>1, <2>3 DEF StreamInv, ReaderInv, PassedOn, loop
    <2>7. ReaderInv'
        BY <1>3, <2>1, <2>5, <2>6 DEF ReaderInv
    <2>8. ControlInv'
        BY <1>1, <2>1, PolledInv DEF ControlInv, Before, Early
    <2> QED
        BY <1>1, <1>2, <1>8, <2>4, <2>7, <2>8, PolledInv DEF IInv, StreamInv
<1> QED
    BY <1>10, <1>11

\* The polls that read the child, the cancellation and the clock.
LEMMA QuietPollInv ==
    ASSUME IInv, \/ AcceptFails \/ AuthCheck \/ AcceptWait \/ AcceptControl
                 \/ NoSignal \/ SessionWait \/ SessionControl
    PROVE  IInv'
<1>1. Polled
    BY PollForm DEF Accepting, Supervising
<1>2. Quiet /\ pc' # "auth"
    BY DEF AcceptFails, AuthCheck, AcceptWait, AcceptControl, NoSignal, SessionWait, SessionControl,
           WaitChild, CheckControl, Decide, Goto, Quiet
<1>3. ControlInv'
    BY <1>1, <1>2, PolledInv DEF IInv, ControlInv, Polled, Quiet, session, link, threads
<1> QED
    BY <1>1, <1>2, <1>3, PolledInv, QuietInv

\* The main thread takes a signal from the channel, and with it what the
\* signal says of the stream.
LEMMA TakenInv ==
    ASSUME IInv, signals # <<>>, signals' = Tail(signals), UNCHANGED <<worker, link, reader, sawLifecycle, sawComplete>>,
           complete' = complete \/ (Signal.kind = "complete" /\ complete' = Signal.code),
           acked' => acked \/ Signal.kind = "ack"
    PROVE  GoInv' /\ StreamInv'
<1>1. GoInv'
    BY DEF IInv, GoInv, worker, run
<1>2. UNCHANGED <<wpc, sent, backlog, peer, seen>>
    BY DEF worker, link
<1>3. /\ signals \in Seq(Records) /\ Signal = signals[1] /\ 1 \in 1 .. Len(signals)
      /\ signals' \in Seq(Records) /\ Len(signals') = Len(signals) - 1
      /\ \A n \in 1 .. Len(signals') : n + 1 \in 1 .. Len(signals) /\ signals'[n] = signals[n + 1]
    BY DEF IInv, StreamInv, StreamType, Signal
<1>4. StreamType' /\ LinkInv'
    BY <1>2, <1>3 DEF IInv, StreamInv, StreamType, LinkInv
<1>5. /\ \A c : Announced(c) => Announced(c)'
      /\ Acknowledged => Acknowledged'
    BY <1>2 DEF Announced, Acknowledged
<1>6. PassedOn'
    <2>1. (\A n \in 1 .. Len(signals) :
            /\ signals[n].kind = "complete" => reader # "none" /\ Announced(signals[n].code)
            /\ signals[n].kind = "ack" => Acknowledged)'
        BY <1>3, <1>5 DEF IInv, StreamInv, ReaderInv, PassedOn
    <2>2. (complete # NoCode => reader # "none" /\ Announced(complete))'
        BY <1>3, <1>5 DEF IInv, StreamInv, ReaderInv, PassedOn
    <2>3. acked' => Acknowledged'
        BY <1>3, <1>5 DEF IInv, StreamInv, ReaderInv, PassedOn
    <2> QED
        BY <2>1, <2>2, <2>3 DEF PassedOn
<1>7. ReaderInv'
    BY <1>2, <1>6 DEF IInv, StreamInv, ReaderInv
<1> QED
    BY <1>1, <1>4, <1>7 DEF StreamInv

\* supervise_session takes a signal.
LEMMA TakeSignalInv ==
    ASSUME IInv, TakeSignal
    PROVE  IInv'
<1> USE DEF TakeSignal
<1>1. Polled
    BY PollForm DEF Supervising
<1>2. acked' => acked \/ Signal.kind = "ack"
    OBVIOUS
<1>3. complete' = complete \/ (Signal.kind = "complete" /\ complete' = Signal.code)
    OBVIOUS
<1>4. GoInv' /\ StreamInv'
    BY <1>2, <1>3, TakenInv
<1>5. pc' \in {"session_wait", "kill"}
    BY DEF Decide
<1>6. ControlInv'
    BY <1>1, <1>5, PolledInv DEF ControlInv, Before, Early
<1> QED
    BY <1>1, <1>4, <1>6, PolledInv DEF IInv

\* session.finish, fail_session and the drain of the channel.
LEMMA SessionEndInv ==
    ASSUME IInv, CloseSession \/ JoinSession \/ Drain \/ Drained
    PROVE  IInv'
<1> USE DEF CloseSession, JoinSession, Drain, Drained, Goto
<1>1. /\ pc \in {"threads", "threads_join", "drain"} /\ pc' \in {"threads_join", "drain", "finish"}
      /\ UNCHANGED <<env, elapsed, proc, canc, mem, out>>
      /\ completion' \in {completion, "protocol"}
    OBVIOUS
<1>2. CoreInv'
    BY <1>1, ClosingInv DEF IInv, Closing
<1>3. ASSUME ~killError'
             \/ pc' \notin {"threads_join", "drain"},
             pc' = "finish" /\ completion' = "exited" /\ complete' # NoCode => acked'
      PROVE  ControlInv'
    BY <1>1, <1>3 DEF IInv, ControlInv, Before, Early, Last
<1>4. killError => completion \in {"failed", "protocol"}
    BY <1>1 DEF IInv, CoreInv, ProcInv, Closing, CleanupErrorsKept
<1>5. completion # "failed"
    BY DEF IInv, ControlInv
<1>6. CASE CloseSession
    <2>1. UNCHANGED <<worker, who, link, expired, loop, signals, reader, sawLifecycle, sawComplete>>
        BY <1>6
    <2>2. GoInv'
        BY <2>1 DEF IInv, GoInv, worker, run
    <2>3. StreamInv'
        BY <2>1, StreamKept DEF IInv, worker, link, loop
    <2>4. ControlInv'
        BY <1>3, <1>4, <1>5, <1>6 DEF LeavesThreads, proc
    <2> QED
        BY <1>2, <2>2, <2>3, <2>4 DEF IInv
<1>7. CASE JoinSession
    <2>1. ~killError
        BY <1>7 DEF IInv, ControlInv
    <2>2. ControlInv'
        BY <1>3, <1>7, <2>1 DEF proc
    <2> QED
        BY <1>2, <1>7, <2>2, QuietInv DEF Quiet
<1>8. CASE Drain
    <2>1. complete' = complete \/ (Signal.kind = "complete" /\ complete' = Signal.code)
        BY <1>8
    <2>2. GoInv' /\ StreamInv'
        BY <1>8, <2>1, TakenInv
    <2>3. ~killError
        BY <1>8 DEF IInv, ControlInv
    <2>4. ControlInv'
        BY <1>3, <1>8, <2>3 DEF proc
    <2> QED
        BY <1>2, <2>2, <2>4 DEF IInv
<1>9. CASE Drained
    <2>1. ControlInv'
        BY <1>3, <1>9 DEF session, loop
    <2> QED
        BY <1>2, <1>9, <2>1, QuietInv DEF Quiet
<1> QED
    BY <1>6, <1>7, <1>8, <1>9

\* finish_worker_status.
LEMMA FinishStatusInv ==
    ASSUME IInv, FinishStatus
    PROVE  IInv'
<1> USE DEF FinishStatus
<1>1. Quiet /\ pc = "finish" /\ completion = "exited" /\ leader # "none"
      /\ completion \notin CleanupErrorsKept
    BY DEF Quiet, IInv, CoreInv, ProcInv, CleanupErrorsKept
<1>2. CASE complete <= MaxCode /\ Agrees
           /\ FinishWith(ReportAs("exited", [code |-> complete, signal |-> 0], "none"), complete)
    <2>1. CoreInv'
        BY <1>1, <1>2, FinishWithInv DEF IInv, ReportAs
    <2>2. /\ pc' = "drop" /\ UNCHANGED <<completion, status>>
          /\ result' \in {complete, EXIT_SUPERVISOR}
        BY <1>2 DEF FinishWith, Goto, proc
    <2>3. acked /\ status.code = complete
        BY <1>1, <1>2 DEF IInv, ControlInv, Agrees
    <2>4. ControlInv'
        BY <1>1, <2>2, <2>3 DEF ControlInv, Quiet, session, loop, Before, Early
    <2> QED
        BY <1>1, <2>1, <2>4, QuietInv
<1>3. CASE FinishWith(ReportAs("lifecycle_error", NoStatus, "none"), EXIT_SUPERVISOR)
    <2>1. CoreInv'
        BY <1>1, <1>3, FinishWithInv DEF IInv, ReportAs
    <2>2. pc' = "drop" /\ UNCHANGED completion /\ result' = EXIT_SUPERVISOR
        BY <1>3 DEF FinishWith, Goto
    <2>3. ControlInv'
        BY <1>1, <2>2 DEF ControlInv, Before, Early
    <2> QED
        BY <1>1, <2>1, <2>3, QuietInv
<1>4. CASE Goto("finish", "abandon") /\ UNCHANGED <<env, completion, elapsed, proc, canc, mem, out>>
    <2>1. CoreInv'
        BY <1>1, <1>4, ClosingInv DEF IInv, Goto, Closing
    <2>2. ControlInv'
        BY <1>1, <1>4 DEF Goto, ControlInv, Before, Early, Last
    <2> QED
        BY <1>1, <2>1, <2>2, QuietInv
<1> QED
    BY <1>2, <1>3, <1>4
-----------------------------------------------------------------------------
(* The theorems.                                                           *)

\* Every step preserves the invariant.
LEMMA NextInv == IInv /\ [Next]_vars => IInv'
<1> SUFFICES ASSUME IInv, [Next]_vars PROVE IInv'
    OBVIOUS
<1>1. CASE Main
    BY <1>1, StartStepInv, AcceptStepInv, AuthInv, QuietPollInv, TakeSignalInv, CleanupInv, SessionEndInv,
       FinishStatusInv DEF Main, Accepting, Supervising, Ending
<1>2. CASE Threads
    BY <1>2, ReaderStepInv, WriterInv DEF Threads
<1>3. CASE (Monitoring \/ \E t \in Listeners : Requesting(t)) /\ Quiet
    BY <1>3, OthersInv
<1>4. CASE GoSide \/ AnySide
    BY <1>4, ConnectInv, WorkerStepInv, ExitInv DEF GoSide, AnySide
<1>5. CASE World
    BY <1>5, OthersInv, ConnectInv, WriterInv DEF World
<1>6. CASE Terminated \/ UNCHANGED vars
    <2>1. UNCHANGED core /\ Quiet
        BY <1>6 DEF Terminated, vars, Quiet
    <2>2. CoreInv'
        BY <2>1, CoreStutter DEF IInv
    <2>3. ControlInv'
        BY <2>1 DEF IInv, ControlInv, Quiet, core, proc, out, session, link, loop, threads
    <2> QED
        BY <2>1, <2>2, <2>3, QuietInv
<1> QED
    BY <1>1, <1>2, <1>3, <1>4, <1>5, <1>6 DEF Next

\* The invariant holds in every reachable state.
LEMMA Invariance == Spec => []IInv
BY InitInv, NextInv, PTL DEF Spec

\* A supervisor of a worker that returns anything but its own failure code
\* has reaped the worker and left no member of its process group alive,
\* whatever the worker does (finish_after_exit, terminate, fail_session and
\* ManagedChild::drop).
THEOREM NothingLeftBehind == Spec => []NoProcessLeftBehind
<1>1. IInv => NoProcessLeftBehind
    BY CoreInvImplies DEF IInv
<1> QED
    BY <1>1, Invariance, PTL

\* The supervisor returns the worker's code only if the worker announced it,
\* acknowledged the shutdown and exited with it, however long its stream is
\* and however its records, its exit and the polls interleave
\* (read_worker_events, supervise_session, finish_worker_status).
THEOREM CompletionProven == Spec => []CompletionIsProven
<1>1. IInv => CompletionIsProven
    <2> SUFFICES ASSUME IInv, completion = "exited", result \notin {NoCode, EXIT_SUPERVISOR}
                 PROVE  /\ sent # <<>> /\ sent[1].kind = "ready"
                        /\ \E j \in 3 .. Len(sent) : \E k \in j + 1 .. Len(sent) :
                                /\ \A i \in 2 .. k - 1 : i # j => sent[i].kind = "lifecycle"
                                /\ sent[j] = Complete(result)
                                /\ sent[k].kind = "ack"
                        /\ leader = "reaped" /\ status.code = result
        BY DEF CompletionIsProven
    <2>1. pc \in Last
        BY DEF IInv, CoreInv, ReportInv
    <2>2. acked /\ complete = result /\ status.code = result /\ complete # NoCode
        BY <2>1 DEF IInv, ControlInv
    <2>3. Acknowledged /\ Announced(result) /\ reader # "none"
        BY <2>2 DEF IInv, StreamInv, ReaderInv, PassedOn
    <2>4. sent # <<>> /\ sent[1].kind = "ready"
        BY <2>3 DEF IInv, StreamInv, StreamType, ReaderInv
    <2>5. leader = "reaped"
        BY DEF IInv, CoreInv, ProcInv
    <2> QED
        BY <2>2, <2>3, <2>4, <2>5, OneCompletion DEF IInv, StreamInv
<1> QED
    BY <1>1, Invariance, PTL

\* The main thread waits for the reader only when the worker is gone, so that
\* a worker that could not be killed and keeps its connection open cannot hold
\* it up (fail_session's guard).
THEOREM JoinsTheDead == Spec => []JoinsOnlyTheDead
<1>1. IInv => JoinsOnlyTheDead
    BY DEF IInv, ControlInv, CoreInv, ProcInv, Closing, Clean, JoinsOnlyTheDead
<1> QED
    BY <1>1, Invariance, PTL

\* The Go worker puts its process state back only when the command no longer
\* runs in it, whichever goroutine ended the run (executeWorkerRun).
THEOREM StateKept == Spec => []StateKeptWhileRunning
<1>1. IInv => StateKeptWhileRunning
    BY DEF IInv, GoInv, StateKeptWhileRunning
<1> QED
    BY <1>1, Invariance, PTL
-----------------------------------------------------------------------------
(* An honest run: the Go worker, no cancellation, no deadline, no failing  *)
(* call, and a worker that ends only at the end of its main goroutine.     *)

\* The places of the main thread once it knows that the worker has exited.
Leaving == {"kill", "stop", "join", "threads", "threads_join", "drain", "finish"} \cup Last

Honest ==
    /\ who = "go" /\ Faults = {} /\ cause = "none" /\ ~elapsed /\ expired = {}
    /\ leader \in {"exited", "reaped"} => ~Crashed /\ wcode = ExitStatus(wcode)

\* serveWorker has written one record for every point it has passed.
WrittenInv ==
    /\ wpc \in {"dial", "hello", "ready"} => Len(sent) = 0
    /\ wpc \in {"run", "execute", "await", "lifecycle"} => Len(sent) = 1
    /\ wpc = "complete" => Len(sent) = 2
    /\ wpc \in {"shutdown", "ack"} => Len(sent) = 3
    /\ wpc \in {"close", "exit"} => Len(sent) = 4
    /\ Len(sent) >= 1 => sent[1].kind = "ready"
    /\ Len(sent) >= 2 => sent[2].kind = "lifecycle"
    /\ Len(sent) >= 3 => sent[3] = Complete(wcode)
    /\ Len(sent) >= 4 => sent[4] = Msg("ack")
    /\ wclosed => wpc = "exit"
    /\ wpc \in {"dial", "hello", "ready", "run", "execute", "await", "lifecycle", "complete",
                "shutdown", "ack", "close", "exit"}

InBacklog == \E i \in 1 .. Len(backlog) : backlog[i] = "worker"

\* Nothing is under way in either direction.
Silence == signals = <<>> /\ commands = <<>> /\ toWorker = <<>>

\* The one message that is under way in a session, if any, is the one that
\* the other side waits for.
Dialogue ==
    \/ /\ ~ready /\ complete = NoCode /\ wpc = "run"
       /\ signals = <<Msg("ready")>> /\ commands = <<>> /\ toWorker = <<>>
    \/ /\ ready /\ complete = NoCode /\ wpc = "run" /\ signals = <<>>
       /\ \/ commands = <<Msg("run")>> /\ toWorker = <<>>
          \/ commands = <<>> /\ toWorker = <<Msg("run")>>
    \/ /\ ready /\ complete = NoCode /\ Silence
       /\ wpc \in {"execute", "await", "lifecycle", "complete"}
    \/ ready /\ complete = NoCode /\ wpc = "shutdown" /\ seen < 3 /\ Silence
    \/ /\ ready /\ complete = NoCode /\ wpc = "shutdown" /\ seen = 3
       /\ signals = <<Complete(wcode)>> /\ commands = <<>> /\ toWorker = <<>>
    \/ /\ ready /\ complete = wcode /\ wpc = "shutdown" /\ seen = 3 /\ signals = <<>>
       /\ \/ commands = <<Msg("shutdown")>> /\ toWorker = <<>>
          \/ commands = <<>> /\ toWorker = <<Msg("shutdown")>>
    \/ ready /\ complete = wcode /\ wpc = "ack" /\ seen = 3 /\ Silence
    \/ ready /\ complete = wcode /\ wpc \in {"close", "exit"} /\ seen = 3 /\ Silence
    \/ /\ ready /\ complete = wcode /\ wpc \in {"close", "exit"} /\ seen = 4 /\ ~acked
       /\ signals = <<Msg("ack")>> /\ commands = <<>> /\ toWorker = <<>>
    \/ ready /\ complete = wcode /\ wpc \in {"close", "exit"} /\ seen = 4 /\ acked /\ Silence

\* Before the session, the connection is in the backlog or being
\* authenticated; in it, the reader has passed on what it has read.
SessionInv ==
    /\ wpc \notin {"dial", "hello"} => peer = "worker"
    /\ wpc = "hello" /\ peer # "worker" => InBacklog
    /\ peer # "worker" => reader = "none" /\ toWorker = <<>>
    /\ reader = "none" => /\ writer = "none" /\ signals = <<>> /\ commands = <<>>
                          /\ ~ready /\ complete = NoCode /\ ~acked /\ seen = 0
    /\ peer = "worker" /\ reader = "none" =>
          /\ pc = "auth"
          /\ \/ wpc = "hello" /\ toWorker = <<Msg("hello")>>
             \/ wpc \in {"ready", "run"} /\ toWorker = <<>>
    /\ reader # "none" => /\ Dialogue
                          /\ sawLifecycle <=> (seen >= 2)
                          /\ sawComplete <=> (seen >= 3)
                          /\ (reader = "ended") <=> (seen = 4)
                          /\ acked => seen = 4
    /\ reader # "none" /\ pc \in Polling => writer = "running" /\ commandsOpen

\* The main thread leaves its loop only for the exit of the worker.
OutcomeInv ==
    /\ pc \in Early \cup Polling \cup Leaving
    /\ monitor # "panicked"
    /\ leader = "none" => pc \in Early \cup Last /\ wpc = "dial"
    /\ leader \in {"exited", "reaped"} => status # Killed
    /\ leader # "none" /\ pc \in Polling => (reader = "none") <=> (pc \in Before)
    /\ leader # "none" /\ pc \in Leaving => completion = "exited" /\ reader # "none"
    /\ leader # "none" /\ pc \in {"drain", "finish"} \cup Last => seen = 4
    /\ leader # "none" /\ pc \in {"finish"} \cup Last => acked
    /\ leader # "none" /\ pc \in Last =>
          /\ ~armed /\ result = wcode
          /\ report.termination = (IF HasReport THEN "exited" ELSE "none")

HonestInv == WrittenInv /\ SessionInv /\ OutcomeInv

\* What follows when the worker's process has ended, or has not.
LEMMA HonestFacts ==
    ASSUME IInv, Honest, HonestInv
    PROVE  /\ wcode \in Nat /\ wcode # NoCode
           /\ leader \in {"none", "running", "exited", "reaped"}
           /\ leader \in {"exited", "reaped"} => wpc = "exit" /\ status.code = wcode
           /\ leader = "running" => pc \in Polling
           /\ pc \in Polling => leader # "none"
           /\ leader # "none" /\ pc \in Leaving => leader = "reaped"
           /\ wpc = "exit" => reader # "none" /\ ready /\ complete = wcode /\ seen \in 3 .. 4
                              /\ commands = <<>> /\ toWorker = <<>>
<1>1. wcode \in Nat /\ wcode # NoCode
    BY DEF IInv, GoInv, FAILURE, NoCode
<1>2. leader \in {"none", "running", "exited", "reaped"}
    BY DEF IInv, CoreInv, CoreType
<1>3. leader \in {"exited", "reaped"} => wpc = "exit" /\ status.code = wcode
    BY DEF Honest, HonestInv, OutcomeInv, Crashed
<1>4. /\ pc \in Polling => leader # "none"
      /\ pc \in Early => leader = "none"
      /\ completion = "exited" => leader = "reaped"
    BY DEF IInv, CoreInv, ProcInv, Polling, Early, Last
<1>5. leader # "none" /\ pc \in Leaving => leader = "reaped"
    BY <1>4 DEF HonestInv, OutcomeInv
<1>6. leader = "running" => pc \in Polling
    BY <1>2, <1>4, <1>5 DEF HonestInv, OutcomeInv
<1>7. pc \in Polling => leader # "none"
    BY <1>4
<1>8. wpc = "exit" => reader # "none" /\ ready /\ complete = wcode /\ seen \in 3 .. 4
                      /\ commands = <<>> /\ toWorker = <<>>
    BY <1>1 DEF HonestInv, SessionInv, Dialogue, Silence
<1> QED
    BY <1>1, <1>2, <1>3, <1>5, <1>6, <1>7, <1>8

\* An honest run has been one from the start.
LEMMA HonestBefore ==
    ASSUME UNCHANGED who, expired \subseteq expired',
           cause' = "none" => cause = "none", elapsed => elapsed',
           leader \in {"exited", "reaped"} =>
                leader' \in {"exited", "reaped"} /\ UNCHANGED <<status, wpc, wcode>>
    PROVE  Honest' => Honest
BY DEF Honest, Crashed

\* The listeners, the monitor, the processes of the group and the clock.
LEMMA HonestOthers ==
    ASSUME IInv, Quiet,
           \/ Monitoring \/ \E t \in Listeners : Requesting(t)
           \/ Elapse \/ Fork \/ GroupEnds
    PROVE  /\ Honest' => Honest
           /\ Honest' /\ HonestInv => HonestInv'
<1>1. /\ UNCHANGED <<env, pc, completion, leader, status, armed, killError, report, result>>
      /\ cause' = "none" => cause = "none"
      /\ elapsed => elapsed'
    BY DEF Requesting, Interrupt, InterruptStamp, Request, Stamp, Monitoring, MonitorStep, Sample, Compare,
           CancelForRss, CancelForRssStamp, MonitorStops, MonitorAgain, MonitorPanics,
           Elapse, Fork, GroupEnds, proc, canc, out
<1>2. "panic" \notin Faults /\ monitor # "panicked" => monitor' # "panicked"
    BY DEF Requesting, Interrupt, InterruptStamp, Monitoring, MonitorStep, Sample, Compare,
           CancelForRss, CancelForRssStamp, MonitorStops, MonitorAgain, MonitorPanics,
           Elapse, Fork, GroupEnds, mem
<1>3. Honest' => Honest
    BY <1>1, HonestBefore DEF Quiet, worker, session
<1>4. ASSUME Honest', HonestInv PROVE HonestInv'
    <2>1. WrittenInv' /\ SessionInv'
        BY <1>1, <1>4 DEF HonestInv, WrittenInv, SessionInv, Dialogue, Silence, InBacklog, Quiet, worker,
                          session, link, loop, threads
    <2>2. OutcomeInv'
        BY <1>1, <1>2, <1>4 DEF Honest, HonestInv, OutcomeInv, HasReport, Quiet, worker, session, link,
                                loop, threads
    <2> QED
        BY <2>1, <2>2 DEF HonestInv
<1> QED
    BY <1>3, <1>4

\* The worker's process ends by itself.
LEMMA HonestExit ==
    ASSUME Killed \notin Statuses,
           IInv, GoExit \/ \E s \in Statuses : Crash(s) \/ AnyExit(s)
    PROVE  /\ Honest' => Honest
           /\ Honest' /\ HonestInv => HonestInv'
<1>1. /\ Quiet /\ leader = "running" /\ leader' = "exited"
      /\ UNCHANGED <<env, pc, completion, elapsed, armed, cause, monitor, report, result>>
    BY DEF GoExit, Crash, AnyExit, LeaderEnds, Quiet, canc, mem, out
<1>2. status' # Killed
    BY DEF GoExit, Crash, AnyExit, LeaderEnds, Killed
<1>3. Honest' => Honest
    BY <1>1, HonestBefore DEF Quiet, worker, session
<1>4. ASSUME Honest', HonestInv PROVE HonestInv'
    <2>1. WrittenInv' /\ SessionInv'
        BY <1>1, <1>4 DEF HonestInv, WrittenInv, SessionInv, Dialogue, Silence, InBacklog, Quiet, worker,
                          session, link, loop, threads
    <2>2. OutcomeInv'
        BY <1>1, <1>2, <1>4 DEF HonestInv, OutcomeInv, HasReport, Quiet, worker, session, link,
                                loop, threads
    <2> QED
        BY <2>1, <2>2 DEF HonestInv
<1> QED
    BY <1>3, <1>4

\* A connection to the endpoint.
LEMMA HonestConnect ==
    ASSUME IInv, GoDial \/ AnyDial \/ \E d \in Decoys : DecoyDial(d)
    PROVE  /\ Honest' => Honest
           /\ Honest' /\ HonestInv => HonestInv'
<1> USE DEF GoDial, AnyDial, DecoyDial, Dial, At, Connect
<1>1. UNCHANGED <<core, who, sent, toWorker, wcode, wclosed, peer, seen, expired, loop, threads>>
    BY DEF worker
<1>2. \/ UNCHANGED wpc
      \/ wpc = "dial" /\ wpc' = "hello" /\ backlog' = Append(backlog, "worker") /\ leader = "running"
    BY DEF worker, Alive
<1>3. /\ InBacklog => InBacklog'
      /\ UNCHANGED wpc \/ InBacklog'
    <2>1. PICK p \in Decoys \cup {"worker"} : /\ backlog' = Append(backlog, p)
                                              /\ UNCHANGED wpc \/ p = "worker"
        BY DEF worker
    <2>2. /\ Len(backlog') = Len(backlog) + 1 /\ Len(backlog) \in Nat
          /\ \A i \in 1 .. Len(backlog) : backlog'[i] = backlog[i]
          /\ backlog'[Len(backlog) + 1] = p
        BY <2>1 DEF IInv, StreamInv, StreamType
    <2> QED
        BY <2>1, <2>2 DEF InBacklog
<1>4. Honest' => Honest
    BY <1>1, <1>2, HonestBefore DEF core, proc, canc
<1>5. ASSUME Honest', HonestInv PROVE HonestInv'
    <2> USE <1>1, <1>2 DEF core, proc, mem, out, loop, threads
    <2>1. WrittenInv'
        BY <1>5 DEF HonestInv, WrittenInv
    <2>2. SessionInv'
        BY <1>3, <1>5 DEF HonestInv, SessionInv, Dialogue, Silence
    <2>3. OutcomeInv'
        BY <1>5 DEF HonestInv, OutcomeInv, HasReport
    <2> QED
        BY <2>1, <2>2, <2>3 DEF HonestInv
<1> QED
    BY <1>4, <1>5

\* In an honest run nobody hangs up on the worker before it closes the
\* connection, and it is sent what it waits for.
LEMMA HonestWire ==
    ASSUME IInv, Honest, HonestInv, leader = "running"
    PROVE  /\ wpc \in Reading \cup Writing => ~HungUp
           /\ toWorker # <<>> => /\ wpc = "hello" => Head(toWorker).kind = "hello"
                                 /\ wpc = "run" => Head(toWorker).kind = "run"
                                 /\ wpc = "shutdown" => Head(toWorker).kind = "shutdown"
                                 /\ Tail(toWorker) = <<>>
<1>1. pc \in Polling
    BY HonestFacts
<1>2. wpc \in Reading \cup Writing => InBacklog \/ (peer = "worker" /\ writer # "ended")
    BY <1>1 DEF HonestInv, SessionInv, Reading, Writing
<1>3. wpc \in Reading \cup Writing => ~HungUp
    BY <1>2 DEF HungUp, InBacklog
<1>4. toWorker = <<>> \/ \E k \in {"hello", "run", "shutdown"} : toWorker = <<Msg(k)>> /\ wpc = k
    BY DEF HonestInv, SessionInv, Dialogue, Silence
<1>5. \A k : Head(<<Msg(k)>>).kind = k /\ Tail(<<Msg(k)>>) = <<>>
    BY DEF Msg
<1> QED
    BY <1>3, <1>4, <1>5

\* serveWorker.
LEMMA HonestServe ==
    ASSUME IInv, GoServe \/ GoHungUp \/ GoDeadline \/ AnyWrite \/ AnyClose
    PROVE  /\ Honest' => Honest
           /\ Honest' /\ HonestInv => HonestInv'
<1>1. /\ UNCHANGED <<core, who, link, loop, threads>> /\ expired \subseteq expired'
      /\ leader = "running" /\ pc # "done"
    BY DEF GoServe, GoHungUp, GoDeadline, AnyWrite, AnyClose, session, Alive, Expire
<1>2. Honest' => Honest
    BY <1>1, HonestBefore DEF core, proc, canc
<1>3. ASSUME Honest', HonestInv PROVE HonestInv'
    <2> USE <1>1, <1>3 DEF core, proc, mem, out, link, loop, threads
    <2>1. Honest /\ pc \in Polling
        BY <1>2, HonestFacts
    <2>2. Serve
        BY <2>1, HonestWire DEF Honest, GoServe, GoHungUp, GoDeadline, AnyWrite, AnyClose, Alive, Expire,
                                ReadFails, Fail, At
    <2>3. OutcomeInv'
        BY <2>1 DEF HonestInv, OutcomeInv, HasReport, Leaving, Polling, Last, Early
    <2>4. sent \in Seq(Records) /\ wcode \in Nat /\ wcode # NoCode
        BY <2>1, HonestFacts DEF IInv, StreamInv, StreamType
    <2>5. ASSUME NEW from \in Reading, NEW kind, NEW to, Read(from, kind, to), from = kind
          PROVE  /\ wpc = from /\ wpc' = to /\ toWorker # <<>> /\ toWorker' = <<>>
                 /\ UNCHANGED <<run, wcode, wclosed, sent>>
        BY <2>1, <2>5, HonestWire DEF Read, At, Fail, Reading
    <2>6. ASSUME NEW r \in Records, sent' = Append(sent, r)
          PROVE  /\ Len(sent') = Len(sent) + 1 /\ sent'[Len(sent) + 1] = r
                 /\ \A i \in 1 .. Len(sent) : sent'[i] = sent[i]
        BY <2>4, <2>6
    <2>7. CASE ReadHello \/ ReadRun \/ ReadShutdown
        <3>1. /\ \/ wpc = "hello" /\ wpc' = "ready"
                 \/ wpc = "run" /\ wpc' = "execute"
                 \/ wpc = "shutdown" /\ wpc' = "ack"
              /\ toWorker # <<>> /\ toWorker' = <<>> /\ UNCHANGED <<wcode, wclosed, sent>>
            <4>1. {"hello", "run", "shutdown"} \subseteq Reading
                BY DEF Reading
            <4> QED
                BY <2>5, <2>7, <4>1 DEF ReadHello, ReadRun, ReadShutdown
        <3>2. WrittenInv'
            BY <3>1 DEF HonestInv, WrittenInv
        <3>3. SessionInv'
            BY <2>1, <3>1 DEF HonestInv, SessionInv, Dialogue, Silence
        <3> QED
            BY <2>3, <3>2, <3>3 DEF HonestInv
    <2>8. CASE SendReady \/ SendLifecycle \/ SendComplete \/ SendAck
        <3>1. PICK r \in Records :
                /\ sent' = Append(sent, r) /\ UNCHANGED <<wcode, wclosed, toWorker>>
                /\ \/ wpc = "ready" /\ wpc' = "run" /\ r.kind = "ready"
                   \/ wpc = "lifecycle" /\ wpc' = "complete" /\ r.kind = "lifecycle"
                   \/ wpc = "complete" /\ wpc' = "shutdown" /\ r = Complete(wcode)
                   \/ wpc = "ack" /\ wpc' = "close" /\ r = Msg("ack")
            <4>1. /\ Msg("ready") \in Records /\ Msg("lifecycle") \in Records /\ Msg("ack") \in Records
                  /\ Complete(wcode) \in Records
                BY RecordTypes DEF Kinds, IInv, GoInv
            <4>2. \A k : Msg(k).kind = k
                BY DEF Msg
            <4> QED
                BY <2>8, <4>1, <4>2 DEF SendReady, SendLifecycle, SendComplete, SendAck, Write, At
        <3>2. WrittenInv'
            BY <2>4, <2>6, <3>1 DEF HonestInv, WrittenInv
        <3>3. SessionInv'
            <4>1. seen \in Nat /\ (wpc = "complete" => seen < 3)
                BY <2>4 DEF HonestInv, WrittenInv, IInv, StreamInv, StreamType
            <4>2. reader # "none" => Dialogue'
                BY <3>1, <4>1 DEF HonestInv, SessionInv, Dialogue, Silence
            <4>3. wpc # "hello" /\ wpc' # "hello" /\ wpc # "dial" /\ wpc' # "dial"
                BY <3>1
            <4> HIDE DEF Dialogue
            <4> QED
                BY <3>1, <4>2, <4>3 DEF HonestInv, SessionInv
        <3> QED
            BY <2>3, <3>2, <3>3 DEF HonestInv
    <2>9. CASE RejectRun \/ StartCommand \/ TakeTerminal \/ Close
               \/ \E c \in Codes : CommandReturns(c) \/ ProcessExit(c)
        <3>1. /\ UNCHANGED <<sent, toWorker>>
              /\ \/ wpc = "execute" /\ wpc' = "lifecycle" /\ UNCHANGED wclosed
                 \/ wpc = "execute" /\ wpc' = "await" /\ UNCHANGED <<wcode, wclosed>>
                 \/ wpc = "await" /\ wpc' = "lifecycle" /\ UNCHANGED wclosed
                 \/ UNCHANGED <<wpc, wcode, wclosed>>
                 \/ wpc = "close" /\ wpc' = "exit" /\ UNCHANGED wcode
            BY <2>9 DEF RejectRun, StartCommand, TakeTerminal, Close, CommandReturns, ProcessExit, At
        <3>2. WrittenInv'
            BY <2>4, <3>1 DEF HonestInv, WrittenInv
        <3>3. SessionInv'
            <4>1. reader # "none" => Dialogue'
                BY <2>4, <3>1 DEF HonestInv, SessionInv, Dialogue, Silence
            <4>2. InBacklog' <=> InBacklog
                BY DEF InBacklog
            <4> HIDE DEF Dialogue, InBacklog
            <4> QED
                BY <3>1, <4>1, <4>2 DEF HonestInv, SessionInv
        <3> QED
            BY <2>3, <3>2, <3>3 DEF HonestInv
    <2> QED
        BY <2>2, <2>7, <2>8, <2>9 DEF Serve
<1> QED
    BY <1>2, <1>3

\* In an honest run a silent worker has said everything.
LEMMA HonestSilence ==
    ASSUME IInv, Honest, HonestInv, reader # "none", WorkerSilent
    PROVE  wpc = "exit"
BY HonestFacts DEF WorkerSilent, HonestInv, WrittenInv, SessionInv, OutcomeInv, Dialogue

\* The reader and the writer.
LEMMA HonestThreads ==
    ASSUME IInv, Threads \/ Late
    PROVE  /\ Honest' => Honest
           /\ Honest' /\ HonestInv => HonestInv'
<1>1. /\ UNCHANGED <<core, who, wpc, wcode, wclosed, sent, dialled, backlog, peer, loop, commandsOpen>>
      /\ expired \subseteq expired'
    BY DEF Threads, ReaderStep, WriterStep, WriterEnds, Late, worker, link, threads, Expire
<1>2. Honest' => Honest
    BY <1>1, HonestBefore DEF core, proc, canc
<1>3. ASSUME Honest', HonestInv PROVE HonestInv'
    <2> USE <1>1, <1>3 DEF core, proc, mem, out, loop
    <2>1. Honest /\ ~Late
        BY <1>2 DEF Late, Honest, Expire
    <2>2. WrittenInv'
        BY DEF HonestInv, WrittenInv
    <2>3. sent \in Seq(Records) /\ seen \in Nat /\ seen <= Len(sent) /\ wcode \in Nat /\ wcode # NoCode
        BY <2>1, HonestFacts DEF IInv, StreamInv, StreamType
    <2>4. InBacklog' <=> InBacklog
        BY DEF InBacklog
    <2>5. CASE ReaderStep
        <3>1. /\ reader = "running" /\ Dialogue /\ seen # 4 /\ peer = "worker" /\ (pc \in Polling => pc \notin Before)
              /\ seen >= 1 /\ UNCHANGED <<toWorker, commands, writer>> /\ wpc \notin {"dial", "hello"}
            BY <2>1, <2>5, HonestFacts DEF HonestInv, SessionInv, OutcomeInv, IInv, StreamInv, ReaderInv, worker, Dialogue, ReaderStep
        <3>2. Len(sent) <= 4
            <4>1. PICK n \in Nat : n = Len(sent)
                BY <2>3
            <4>2. n \in {0, 1, 2, 3, 4}
                BY <4>1 DEF HonestInv, WrittenInv
            <4>3. n <= 4
                BY <4>2
            <4> QED
                BY <4>1, <4>3
        <3>3. Unread
            <4>1. seen # 4
                BY <3>1
            <4>2. ASSUME WorkerSilent PROVE Len(sent) > seen
                <5>1. Len(sent) = 4
                    BY <2>1, <3>1, <4>2, HonestSilence DEF HonestInv, WrittenInv
                <5> QED
                    BY <2>3, <4>1, <5>1
            <4> QED
                BY <2>5, <4>2 DEF Unread, ReaderStep
        <3>4. seen' = seen + 1 /\ seen \in 1 .. 3 /\ Len(sent) > seen /\ ReadRecord
            <4>1. seen' = seen + 1 /\ ReadRecord
                BY <2>5, <3>3 DEF ReaderStep
            <4>2. seen >= 1 /\ Len(sent) > seen
                BY <3>1, <3>3 DEF Unread
            <4>3. seen <= 3
                BY <2>3, <3>2, <4>2
            <4>4. seen \in 1 .. 3
                BY <2>3, <4>2, <4>3
            <4> QED
                BY <4>1, <4>2, <4>4
        <3>5. NextRecord = sent[seen + 1]
            BY DEF NextRecord
        <3>6. /\ seen = 1 => ~sawLifecycle /\ ~sawComplete /\ NextRecord.kind = "lifecycle"
              /\ seen = 2 => sawLifecycle /\ ~sawComplete /\ NextRecord = Complete(wcode)
              /\ seen = 3 => sawLifecycle /\ sawComplete /\ NextRecord = Msg("ack")
            BY <3>1, <3>4, <3>5 DEF HonestInv, SessionInv, WrittenInv
        <3>7. Complete(wcode).kind = "complete" /\ Msg("ack").kind = "ack"
            BY DEF Complete, Msg
        <3>8. /\ seen = 1 => sawLifecycle' /\ ~sawComplete' /\ UNCHANGED <<signals, reader>>
              /\ seen = 2 => sawLifecycle' /\ sawComplete' /\ UNCHANGED reader
                             /\ signals' = Append(signals, Complete(wcode))
              /\ seen = 3 => sawLifecycle' /\ sawComplete' /\ reader' = "ended"
                             /\ signals' = Append(signals, Msg("ack"))
            BY <3>4, <3>6, <3>7 DEF ReadRecord, Emit
        <3>10. \A m : Append(<<>>, m) = <<m>>
            OBVIOUS
        <3>11. Dialogue'
            <4>1. CASE seen = 1
                BY <2>3, <3>1, <3>4, <3>8, <4>1 DEF Dialogue, Silence, HonestInv, WrittenInv
            <4>2. CASE seen = 2
                BY <2>3, <3>1, <3>4, <3>8, <3>10, <4>2 DEF Dialogue, Silence, HonestInv, WrittenInv
            <4>3. CASE seen = 3
                <5>1. ~acked
                    BY <3>1 DEF HonestInv, SessionInv
                <5> QED
                    BY <2>3, <3>1, <3>4, <3>8, <3>10, <4>3, <5>1 DEF Dialogue, Silence, HonestInv, WrittenInv
            <4> QED
                BY <3>4, <4>1, <4>2, <4>3
        <3>12. acked' => seen' = 4
            BY <3>1 DEF HonestInv, SessionInv
        <3>13. SessionInv'
            BY <3>1, <3>4, <3>8, <3>11, <3>12 DEF HonestInv, SessionInv
        <3>14. OutcomeInv'
            BY <3>1, <3>4, <3>8 DEF HonestInv, OutcomeInv, HasReport
        <3> QED
            BY <2>2, <3>13, <3>14 DEF HonestInv
    <2>6. CASE WriterStep
        <3>1. reader # "none" /\ wpc # "exit"
            BY <2>1, <2>6, HonestFacts DEF HonestInv, SessionInv, WriterStep
        <3>2. /\ commands' = Tail(commands) /\ toWorker' = Append(toWorker, Head(commands))
              /\ UNCHANGED <<signals, writer, reader, seen, sawLifecycle, sawComplete>>
            BY <2>1, <2>6, <3>1, HonestSilence DEF Honest, link, WriterStep
        <3>3. \A m : Append(<<>>, m) = <<m>> /\ Head(<<m>>) = m /\ Tail(<<m>>) = <<>>
            OBVIOUS
        <3>4. Dialogue' /\ peer = "worker"
            <4>1. commands # <<>> /\ Dialogue /\ peer = "worker"
                BY <2>6, <3>1 DEF HonestInv, SessionInv, WriterStep
            <4>2. PICK k \in {"run", "shutdown"} : commands = <<Msg(k)>> /\ toWorker = <<>> /\ signals = <<>>
                BY <4>1 DEF Dialogue, Silence
            <4>3. commands' = <<>> /\ toWorker' = commands /\ UNCHANGED <<signals, seen>>
                BY <3>2, <3>3, <4>2
            <4> QED
                BY <4>1, <4>2, <4>3 DEF Dialogue, Silence
        <3>5. SessionInv'
            BY <2>4, <3>1, <3>2, <3>4 DEF HonestInv, SessionInv
        <3>6. OutcomeInv'
            BY <3>2 DEF HonestInv, OutcomeInv, HasReport
        <3> QED
            BY <2>2, <3>5, <3>6 DEF HonestInv
    <2>7. CASE WriterEnds
        <3>1. /\ UNCHANGED <<signals, commands, toWorker, reader, seen, sawLifecycle, sawComplete>>
              /\ reader # "none" /\ pc \notin Polling
            BY <2>7 DEF HonestInv, SessionInv, link, worker, WriterEnds
        <3>2. SessionInv'
            BY <2>4, <3>1 DEF HonestInv, SessionInv, Dialogue, Silence
        <3>3. OutcomeInv'
            BY <3>1 DEF HonestInv, OutcomeInv, HasReport
        <3> QED
            BY <2>2, <3>2, <3>3 DEF HonestInv
    <2> QED
        BY <2>1, <2>5, <2>6, <2>7 DEF Threads
<1> QED
    BY <1>2, <1>3

\* What every step of the main thread leaves alone.
LEMMA MainFrame ==
    ASSUME IInv, Main
    PROVE  UNCHANGED <<env, who, wpc, wcode, wclosed, sent, dialled, cause, elapsed>> /\ expired \subseteq expired'
<1>1. CASE Start
    BY <1>1 DEF Start, Configure, CheckCancelled, Spawn, SpawnFails, Prepare, PrepareFails,
                Quiet, worker, session, link, canc
<1>2. CASE Accepting
    BY <1>2 DEF Accepting, Accept, AcceptFails, AuthRecord, AuthTimeout, AuthCheck, AcceptWait, AcceptControl,
                WaitChild, CheckControl, Expire, worker, session, link, canc
<1>3. CASE Supervising
    BY <1>3 DEF Supervising, TakeSignal, NoSignal, SessionWait, SessionControl,
                WaitChild, CheckControl, worker, session, link, canc
<1>4. CASE Ending
    BY <1>4 DEF Ending, CleaningUp, FinishAfterExit, Terminate, TerminateReap, Abandon, StopMonitor,
                JoinMonitor, CloseSession, JoinSession, Drain, Drained, FinishStatus, FinishWith, Finishing,
                FinishTimeout, FinishCancelled, FinishStartup, FinishFailed, Drop, DropReap, Quiet, worker,
                session, link, canc
<1> QED
    BY <1>1, <1>2, <1>3, <1>4 DEF Main

\* The main thread does not change the status of a process that has ended.
LEMMA MainStatus ==
    ASSUME IInv, Main, leader \in {"exited", "reaped"}
    PROVE  leader' \in {"exited", "reaped"} /\ UNCHANGED status
<1>1. CASE Start
    <2>1. pc # "spawn"
        BY DEF IInv, CoreInv, ProcInv, Early
    <2> QED
        BY <1>1, <2>1 DEF Start, Configure, CheckCancelled, Spawn, SpawnFails, Prepare, PrepareFails, Goto, proc
<1>2. CASE Accepting \/ Supervising
    BY <1>2, PollForm DEF Polled
<1>3. CASE Ending
    BY <1>3 DEF Ending, CleaningUp, FinishAfterExit, Terminate, TerminateReap, Reaped, Abandon, StopMonitor,
                KillSucceeds, KillFails,
                JoinMonitor, CloseSession, JoinSession, Drain, Drained, FinishStatus, FinishWith, Finishing,
                FinishTimeout, FinishCancelled, FinishStartup, FinishFailed, Drop, DropReap, proc
<1> QED
    BY <1>1, <1>2, <1>3 DEF Main

\* A run that is honest after a step of the main thread was so before.
LEMMA HonestMainBefore ==
    ASSUME IInv, Main
    PROVE  Honest' => Honest
BY MainFrame, MainStatus, HonestBefore

\* The start of the run.
LEMMA HonestStart ==
    ASSUME IInv, Start, Honest, Honest', HonestInv
    PROVE  HonestInv'
<1>1. /\ UNCHANGED <<worker, session>> /\ leader = "none" /\ pc \in Early
      /\ \/ UNCHANGED <<leader, status, armed, monitor>> /\ pc' \in {"check", "payload", "spawn", "drop"}
         \/ leader' = "running" /\ pc' = "accept" /\ monitor' \in {"sample", "none"}
    <2>1. cause = "none" /\ Faults = {}
        BY DEF Honest
    <2>2. pc \in Early => leader = "none"
        BY DEF IInv, CoreInv, ProcInv
    <2> QED
        BY <2>1, <2>2 DEF Start, Configure, CheckCancelled, Spawn, SpawnFails, Prepare, PrepareFails, Goto,
                          Quiet, Early, proc, mem
<1>2. wpc = "dial" /\ peer # "worker" /\ reader = "none"
    BY <1>1 DEF HonestInv, OutcomeInv, SessionInv, IInv, StreamInv, LinkInv
<1>3. WrittenInv' /\ SessionInv'
    BY <1>1, <1>2 DEF HonestInv, WrittenInv, SessionInv, InBacklog, worker, session, link, loop, threads
<1>4. OutcomeInv'
    BY <1>1, <1>2 DEF HonestInv, OutcomeInv, Polling, Early, Leaving, Last, Before, worker, session, threads
<1> QED
    BY <1>3, <1>4 DEF HonestInv

\* Accept and authentication.
LEMMA HonestAccept ==
    ASSUME IInv, Accept, Honest, Honest', HonestInv
    PROVE  HonestInv'
<1> USE DEF Accept
<1>1. /\ UNCHANGED <<env, proc, mem, out, wpc, wcode, wclosed, sent, seen, loop, threads>>
      /\ pc = "accept"
    BY DEF Goto, link
<1>2. /\ leader # "none" /\ reader = "none" /\ peer # "worker" /\ toWorker = <<>>
      /\ wpc \in {"dial", "hello"}
    <2>1. leader # "none"
        BY <1>1, HonestFacts DEF Polling
    <2>2. reader = "none"
        BY <1>1, <2>1 DEF HonestInv, OutcomeInv, Polling, Before
    <2> QED
        BY <1>1, <2>1, <2>2 DEF HonestInv, SessionInv
<1>3. WrittenInv'
    BY <1>1 DEF HonestInv, WrittenInv
<1>4. pc' \in {"accept_wait", "auth"} /\ UNCHANGED completion
    BY DEF Goto, Honest
<1>5. OutcomeInv'
    BY <1>1, <1>2, <1>4 DEF HonestInv, OutcomeInv, Polling, Before, Leaving, Last, proc, mem, threads
<1>6. SessionInv'
    <2>1. CASE backlog = <<>>
        <3>1. UNCHANGED <<backlog, peer, toWorker>>
            BY <2>1 DEF link
        <3> QED
            BY <1>1, <1>2, <3>1 DEF HonestInv, SessionInv, InBacklog, loop, threads
    <2>2. CASE backlog # <<>>
        <3>1. /\ backlog' = Tail(backlog) /\ peer' = Head(backlog) /\ pc' = "auth"
              /\ toWorker' = IF peer' = "worker" THEN Append(toWorker, Msg("hello")) ELSE toWorker
            BY <2>2 DEF Honest, Goto
        <3>2. /\ Head(backlog) = backlog[1] /\ 1 \in 1 .. Len(backlog)
              /\ Len(backlog') = Len(backlog) - 1
              /\ \A i \in 1 .. Len(backlog') : backlog'[i] = backlog[i + 1]
              /\ backlog \in Seq(Decoys \cup {"worker"})
            BY <2>2, <3>1 DEF IInv, StreamInv, StreamType
        <3>3. peer' # "worker" /\ InBacklog => InBacklog'
            <4> SUFFICES ASSUME peer' # "worker", InBacklog PROVE InBacklog'
                OBVIOUS
            <4>1. PICK i \in 1 .. Len(backlog) : backlog[i] = "worker"
                BY DEF InBacklog
            <4>2. i - 1 \in 1 .. Len(backlog') /\ backlog'[i - 1] = "worker"
                BY <3>1, <3>2, <4>1
            <4> QED
                BY <4>2 DEF InBacklog
        <3>4. peer' = "worker" => wpc = "hello" /\ toWorker' = <<Msg("hello")>>
            <4>1. \A m : Append(<<>>, m) = <<m>>
                OBVIOUS
            <4> QED
                BY <1>2, <3>1, <3>2, <4>1 DEF IInv, StreamInv, LinkInv
        <3>5. reader' = "none" /\ UNCHANGED <<wpc, seen, writer, signals, commands, ready, complete, acked>>
            BY <1>1, <1>2 DEF loop, threads
        <3> QED
            BY <1>2, <3>1, <3>3, <3>4, <3>5 DEF HonestInv, SessionInv
    <2> QED
        BY <2>1, <2>2
<1> QED
    BY <1>3, <1>5, <1>6 DEF HonestInv

\* An honest worker is accepted by its first record.
LEMMA HonestAuth ==
    ASSUME IInv, AuthRecord \/ AuthTimeout, Honest, Honest', HonestInv
    PROVE  HonestInv'
<1>1. AuthRecord
    BY DEF AuthTimeout, Expire, Honest
<1>2. /\ UNCHANGED <<env, completion, proc, mem, out, wpc, wcode, wclosed, sent, toWorker, backlog, loop>>
      /\ pc = "auth"
    BY <1>1 DEF AuthRecord, Candidate, StartSession, Goto, worker
<1>3. leader # "none" /\ reader = "none" /\ seen = 0
    <2>1. leader # "none"
        BY <1>2, HonestFacts DEF Polling
    <2> QED
        BY <1>2, <2>1 DEF HonestInv, OutcomeInv, SessionInv, Polling, Before
<1>4. /\ writer = "none" /\ signals = <<>> /\ commands = <<>> /\ ~ready /\ complete = NoCode /\ ~acked
      /\ ~sawLifecycle /\ ~sawComplete
    BY <1>3 DEF HonestInv, SessionInv, IInv, StreamInv, ReaderInv
<1>5. WrittenInv'
    BY <1>2 DEF HonestInv, WrittenInv
<1>6. InBacklog' <=> InBacklog
    BY <1>2 DEF InBacklog
<1>7. CASE peer = "worker"
    <2>1. wpc \in {"hello", "ready", "run"} /\ (wpc # "hello" => toWorker = <<>>)
        BY <1>3, <1>7 DEF HonestInv, SessionInv
    <2>2. ~WorkerSilent
        BY <1>3, <2>1, HonestFacts DEF WorkerSilent, HonestInv, WrittenInv
    <2>3. Unread
        BY <1>1, <1>7, <2>2 DEF AuthRecord
    <2>4. wpc = "run" /\ NextRecord.kind = "ready"
        BY <1>3, <2>1, <2>3 DEF Unread, NextRecord, HonestInv, WrittenInv
    <2>5. StartSession /\ seen' = 1
        BY <1>1, <1>3, <1>7, <2>3, <2>4 DEF AuthRecord
    <2>6. /\ pc' = "signal" /\ signals' = <<Msg("ready")>> /\ commandsOpen' /\ reader' = "running"
          /\ writer' = "running" /\ UNCHANGED <<commands, sawLifecycle, sawComplete, peer>>
        BY <2>5 DEF StartSession, Goto
    <2>7. Dialogue'
        BY <1>2, <1>4, <2>1, <2>4, <2>6 DEF Dialogue, loop
    <2>8. SessionInv'
        BY <1>2, <1>4, <1>7, <2>4, <2>5, <2>6, <2>7 DEF SessionInv, loop
    <2>9. OutcomeInv'
        BY <1>2, <1>3, <2>6 DEF HonestInv, OutcomeInv, Polling, Before, Early, Leaving, Last, proc, mem
    <2> QED
        BY <1>5, <2>8, <2>9 DEF HonestInv
<1>8. CASE peer # "worker"
    <2>1. pc' = "accept_wait" /\ peer' = "none" /\ UNCHANGED <<threads, seen>>
        BY <1>1, <1>8 DEF AuthRecord, Candidate, Goto
    <2>2. SessionInv'
        BY <1>2, <1>3, <1>6, <1>8, <2>1 DEF HonestInv, SessionInv, loop, threads
    <2>3. OutcomeInv'
        BY <1>2, <1>3, <2>1 DEF HonestInv, OutcomeInv, Polling, Before, Early, Leaving, Last, proc, mem, threads
    <2> QED
        BY <1>5, <2>2, <2>3 DEF HonestInv
<1> QED
    BY <1>7, <1>8

\* The polls of the child, of the cancellation and of the clock: the only
\* thing they find is that the worker has exited.
LEMMA HonestPoll ==
    ASSUME IInv, \/ AcceptFails \/ AuthCheck \/ AcceptWait \/ AcceptControl
                 \/ NoSignal \/ SessionWait \/ SessionControl,
           Honest, Honest', HonestInv
    PROVE  HonestInv'
<1>1. Faults = {} /\ Control = "continue" /\ ~(HasTimeout /\ elapsed) /\ expired = {}
    BY DEF Honest, Control
<1>2. /\ pc \in Polling /\ leader # "none"
      /\ (reader = "none") <=> (pc \in Before)
      /\ leader = "exited" => reader # "none"
    <2>1. pc \in Polling
        BY PollForm DEF Accepting, Supervising, Polled
    <2> QED
        BY <2>1, HonestFacts DEF HonestInv, OutcomeInv
<1>3. reader # "none" => writer = "running"
    BY <1>2 DEF HonestInv, SessionInv
<1>4. ~AcceptFails /\ ~AuthCheck
    BY <1>1, <1>2 DEF AcceptFails, AuthCheck, ReapLeader, Before
<1>5. /\ UNCHANGED <<env, armed, status, mem, out, worker, session>>
      /\ \/ UNCHANGED <<completion, leader>> /\ pc' \in Polling /\ ((pc' \in Before) <=> (pc \in Before))
            /\ pc # "auth" /\ pc' # "auth"
         \/ /\ completion' = "exited" /\ pc' = "kill" /\ leader = "exited" /\ leader' = "reaped"
            /\ pc \notin Before
    <2>1. CASE AcceptWait
        BY <1>1, <1>2, <2>1 DEF AcceptWait, WaitChild, Decide, Goto, ReapLeader, Polling, Before, Early, proc
    <2>2. CASE AcceptControl
        BY <1>1, <1>2, <2>2 DEF AcceptControl, CheckControl, Goto, Polling, Before, Early, proc
    <2>3. CASE NoSignal
        BY <1>1, <1>2, <1>3, <2>3 DEF NoSignal, Polling, Before, Early, proc
    <2>4. CASE SessionWait
        BY <1>1, <1>2, <2>4 DEF SessionWait, WaitChild, Decide, Goto, ReapLeader, Polling, Before, Early, proc
    <2>5. CASE SessionControl
        BY <1>1, <1>2, <2>5 DEF SessionControl, CheckControl, Goto, Polling, Before, Early, proc
    <2> QED
        BY <1>4, <2>1, <2>2, <2>3, <2>4, <2>5
<1>6. UNCHANGED <<wpc, wcode, wclosed, sent, toWorker, backlog, peer, seen, loop, threads>>
    BY <1>5 DEF worker, session, link
<1>7. WrittenInv'
    BY <1>6 DEF HonestInv, WrittenInv
<1>8. SessionInv'
    <2>1. (Dialogue' <=> Dialogue) /\ (InBacklog' <=> InBacklog)
        BY <1>6 DEF Dialogue, InBacklog, Silence, loop, threads
    <2>2. peer = "worker" /\ reader = "none" => pc = "auth"
        BY DEF HonestInv, SessionInv
    <2>3. pc = "auth" => pc \in Before
        BY DEF Before
    <2>4. peer = "worker" => reader # "none"
        BY <1>2, <1>5, <2>2, <2>3
    <2>5. pc' \in Polling => pc \in Polling
        BY <1>2
    <2> QED
        BY <1>6, <2>1, <2>4, <2>5 DEF HonestInv, SessionInv, loop, threads
<1>9. OutcomeInv'
    <2>1. CASE pc' \in Polling
        <3>1. UNCHANGED <<completion, leader>> /\ ((pc' \in Before) <=> (pc \in Before))
            BY <1>5, <2>1 DEF Polling
        <3> QED
            BY <1>2, <1>5, <1>6, <2>1, <3>1 DEF HonestInv, OutcomeInv, Polling, Leaving, Last, mem, threads
    <2>2. CASE pc' = "kill"
        <3>1. leader' = "reaped" /\ completion' = "exited" /\ reader # "none" /\ leader = "exited"
            BY <1>2, <1>5, <2>2 DEF Polling
        <3> QED
            BY <1>5, <1>6, <2>2, <3>1 DEF HonestInv, OutcomeInv, Polling, Leaving, Last, mem, threads
    <2> QED
        BY <1>5, <2>1, <2>2
<1> QED
    BY <1>7, <1>8, <1>9 DEF HonestInv

\* supervise_session takes the signal it waits for.
LEMMA HonestSignal ==
    ASSUME IInv, TakeSignal, Honest, Honest', HonestInv
    PROVE  HonestInv'
<1>1. /\ pc = "signal" /\ leader # "none" /\ reader # "none" /\ writer = "running" /\ Dialogue /\ commandsOpen
      /\ peer = "worker" /\ signals # <<>>
    <2>1. pc = "signal" /\ signals # <<>>
        BY DEF TakeSignal
    <2>2. leader # "none"
        BY <2>1, HonestFacts DEF Polling
    <2>3. reader # "none"
        BY <2>1, <2>2 DEF HonestInv, OutcomeInv, Polling, Before, Early
    <2> QED
        BY <2>1, <2>2, <2>3 DEF HonestInv, SessionInv, Polling
<1>2. wcode \in Nat /\ wcode # NoCode
    BY HonestFacts
<1>3. \A m : Head(<<m>>) = m /\ Tail(<<m>>) = <<>> /\ <<>> \o <<m>> = <<m>>
    OBVIOUS
<1>4. <<>> \o <<>> = <<>> /\ \A k, c : Msg(k).kind = k /\ Complete(c).kind = "complete" /\ Complete(c).code = c
    BY DEF Msg, Complete
<1>5. \/ Signal.kind = "ready" /\ ~ready /\ signals = <<Msg("ready")>> /\ complete = NoCode /\ wpc = "run"
      \/ Signal = Complete(wcode) /\ ready /\ complete = NoCode /\ signals = <<Complete(wcode)>>
         /\ wpc = "shutdown" /\ seen = 3
      \/ Signal.kind = "ack" /\ ready /\ complete = wcode /\ ~acked /\ signals = <<Msg("ack")>>
         /\ wpc \in {"close", "exit"} /\ seen = 4
    BY <1>1, <1>3, <1>4 DEF Dialogue, Silence, Signal
<1>6. commands = <<>> /\ toWorker = <<>> /\ Tail(signals) = <<>>
    BY <1>1, <1>3, <1>5 DEF Dialogue, Silence
<1>7. Expected /\ ~SendFails
    BY <1>1, <1>2, <1>4, <1>5 DEF Expected, SendFails
<1>8. /\ signals' = <<>> /\ ready' = (ready \/ Signal.kind = "ready")
      /\ commands' = commands \o Answer /\ pc' = "session_wait"
      /\ complete' = IF Signal.kind = "complete" THEN Signal.code ELSE complete
      /\ acked' = (acked \/ Signal.kind = "ack")
      /\ UNCHANGED completion
      /\ UNCHANGED <<env, proc, mem, out, worker, link, commandsOpen, reader, writer, sawLifecycle, sawComplete>>
    BY <1>6, <1>7 DEF TakeSignal
<1>9. UNCHANGED <<wpc, wcode, wclosed, sent, toWorker, backlog, peer, seen>>
    BY <1>8 DEF worker, link
<1>10. Dialogue'
    <2>1. CASE Signal.kind = "ready"
        <3>1. ready' /\ complete' = NoCode /\ commands' = <<Msg("run")>> /\ wpc = "run"
            BY <1>3, <1>4, <1>5, <1>6, <1>8, <2>1 DEF Answer
        <3> QED
            BY <1>6, <1>8, <1>9, <3>1 DEF Dialogue
    <2>2. CASE Signal = Complete(wcode)
        <3>1. ready' /\ complete' = wcode /\ commands' = <<Msg("shutdown")>> /\ wpc = "shutdown" /\ seen = 3
            BY <1>3, <1>4, <1>5, <1>6, <1>8, <2>2 DEF Answer
        <3> QED
            BY <1>6, <1>8, <1>9, <3>1 DEF Dialogue
    <2>3. CASE Signal.kind = "ack"
        <3>1. ready' /\ complete' = wcode /\ commands' = <<>> /\ wpc \in {"close", "exit"} /\ seen = 4 /\ acked'
            BY <1>3, <1>4, <1>5, <1>6, <1>8, <2>3 DEF Answer
        <3> QED
            BY <1>6, <1>8, <1>9, <3>1 DEF Dialogue, Silence
    <2> QED
        BY <1>5, <2>1, <2>2, <2>3
<1>11. acked' => seen = 4
    BY <1>1, <1>4, <1>5, <1>8 DEF HonestInv, SessionInv
<1>12. WrittenInv'
    BY <1>9 DEF HonestInv, WrittenInv
<1>13. SessionInv'
    BY <1>1, <1>8, <1>9, <1>10, <1>11 DEF HonestInv, SessionInv
<1>14. OutcomeInv'
    BY <1>1, <1>8, <1>9 DEF HonestInv, OutcomeInv, Polling, Before, Early, Leaving, Last, proc, mem
<1> QED
    BY <1>12, <1>13, <1>14 DEF HonestInv

\* Steps of the main thread after the worker's exit that leave the session
\* alone.
LEMMA HonestLeaves ==
    ASSUME IInv, Honest, HonestInv, Quiet, pc \in Leaving, pc' \in Leaving,
           UNCHANGED <<env, completion, monitor, leader, status>>,
           leader # "none" /\ pc' \in {"drain", "finish"} \cup Last => seen = 4,
           leader # "none" /\ pc' \in {"finish"} \cup Last => acked,
           leader # "none" /\ pc' \in Last =>
                /\ ~armed' /\ result' = wcode
                /\ report'.termination = (IF HasReport THEN "exited" ELSE "none"),
           leader = "none" => pc' \in Last
    PROVE  HonestInv'
<1>1. UNCHANGED <<wpc, wcode, wclosed, sent, toWorker, backlog, peer, seen, loop, threads>>
    BY DEF Quiet, worker, session, link
<1>2. Leaving \cap Polling = {} /\ "auth" \notin Leaving
    BY DEF Leaving, Last, Polling
<1>3. WrittenInv'
    BY <1>1 DEF HonestInv, WrittenInv
<1>4. SessionInv'
    <2>1. (Dialogue' <=> Dialogue) /\ (InBacklog' <=> InBacklog)
        BY <1>1 DEF Dialogue, InBacklog, Silence, loop, threads
    <2> QED
        BY <1>1, <1>2, <2>1 DEF HonestInv, SessionInv, loop, threads
<1>5. OutcomeInv'
    BY <1>1, <1>2 DEF HonestInv, OutcomeInv, HasReport, loop, threads
<1> QED
    BY <1>3, <1>4, <1>5 DEF HonestInv

\* finish_after_exit, the monitor's stop and ManagedChild::drop.
LEMMA HonestCleanup ==
    ASSUME IInv, Quiet, CleaningUp \/ JoinMonitor("threads") \/ Finishing,
           Honest, Honest', HonestInv
    PROVE  HonestInv'
<1>1. /\ Faults = {} /\ monitor # "panicked"
      /\ pc \notin {"reap", "abandon"} /\ (leader = "none" => pc \in Early \cup Last)
      /\ leader # "none" /\ pc \in Leaving => completion = "exited" /\ leader = "reaped"
    BY HonestFacts DEF Honest, HonestInv, OutcomeInv, Early, Polling, Leaving, Last
<1>2. /\ pc = "drop_reap" => armed
      /\ leader = "none" => ~armed
      /\ leader # "none" /\ pc \in Last => ~armed
    BY DEF IInv, CoreInv, ProcInv, HonestInv, OutcomeInv
<1>3. CASE FinishAfterExit
    <2>1. /\ pc = "kill" /\ pc' = "stop" /\ leader # "none"
          /\ UNCHANGED <<env, completion, monitor, leader, status>>
        BY <1>1, <1>3 DEF FinishAfterExit, KillSucceeds, KillFails, Goto, Leaving, Early, Last, mem
    <2> QED
        BY <2>1, HonestLeaves DEF Leaving, Last
<1>4. CASE StopMonitor \/ JoinMonitor("threads")
    <2>1. /\ pc \in {"stop", "join"} /\ pc' \in {"join", "threads"} /\ leader # "none"
          /\ UNCHANGED <<env, completion, monitor, leader, status>>
        BY <1>1, <1>4 DEF StopMonitor, JoinMonitor, Goto, Early, Last, proc, mem
    <2> QED
        BY <2>1, HonestLeaves DEF Leaving, Last
<1>5. CASE Drop \/ DropReap
    <2>1. /\ pc = "drop" /\ pc' = "done"
          /\ UNCHANGED <<env, completion, monitor, leader, status, armed, report, result>>
        BY <1>1, <1>2, <1>5 DEF Drop, DropReap, Goto, Last, mem, out
    <2> QED
        BY <2>1, HonestLeaves DEF HonestInv, OutcomeInv, Leaving, Last
<1>6. ~Terminate /\ ~TerminateReap /\ ~Abandon
    BY <1>1 DEF Terminate, TerminateReap, Reaped, Abandon, Goto, Leaving, Early, Last
<1>7. ~FinishTimeout /\ ~FinishCancelled /\ ~FinishStartup /\ ~FinishFailed
    BY <1>1 DEF FinishTimeout, FinishCancelled, FinishStartup, FinishFailed, FinishWith, Goto, Leaving,
                Early, Last, CleanupErrorsKept
<1> QED
    BY <1>3, <1>4, <1>5, <1>6, <1>7 DEF CleaningUp, Finishing

\* session.finish, the drain and finish_worker_status.
LEMMA HonestEnd ==
    ASSUME Codes \cup {FAILURE} \subseteq 0 .. MaxCode,
           IInv, CloseSession \/ JoinSession \/ Drain \/ Drained \/ FinishStatus,
           Honest, Honest', HonestInv
    PROVE  HonestInv'
<1>1. /\ pc \in {"threads", "threads_join", "drain", "finish"} /\ pc \in Leaving
      /\ leader = "reaped" /\ completion = "exited"
    <2>1. pc \in {"threads", "threads_join", "drain", "finish"}
        BY DEF CloseSession, JoinSession, Drain, Drained, FinishStatus, Goto
    <2>2. pc \in Leaving /\ leader # "none"
        BY <2>1 DEF Leaving, Early, Last, HonestInv, OutcomeInv
    <2> QED
        BY <2>1, <2>2, HonestFacts DEF HonestInv, OutcomeInv
<1>2. /\ wpc = "exit" /\ status.code = wcode /\ wcode \in Nat /\ wcode # NoCode
      /\ reader # "none" /\ ready /\ complete = wcode /\ commands = <<>> /\ toWorker = <<>>
      /\ monitor # "panicked" /\ Faults = {} /\ Dialogue
    BY <1>1, HonestFacts DEF HonestInv, OutcomeInv, SessionInv, Honest
<1>3. CASE CloseSession
    <2>1. /\ pc = "threads" /\ pc' = "threads_join"
          /\ UNCHANGED <<env, completion, proc, mem, out, worker, link, loop, signals, commands,
                         reader, writer, sawLifecycle, sawComplete>>
        BY <1>1, <1>3 DEF CloseSession, LeavesThreads, Goto
    <2>2. WrittenInv'
        BY <2>1 DEF HonestInv, WrittenInv, worker
    <2>3. SessionInv'
        <3>1. (Dialogue' <=> Dialogue) /\ (InBacklog' <=> InBacklog)
            BY <2>1 DEF Dialogue, InBacklog, Silence, loop, worker, link
        <3> QED
            BY <1>2, <2>1, <3>1 DEF HonestInv, SessionInv, Polling, loop, worker, link
    <2>4. OutcomeInv'
        BY <1>1, <2>1 DEF HonestInv, OutcomeInv, Polling, Leaving, Last, proc, mem
    <2> QED
        BY <2>2, <2>3, <2>4 DEF HonestInv
<1>4. CASE JoinSession
    <2>1. reader = "ended" /\ seen = 4 /\ pc' = "drain" /\ Quiet
          /\ UNCHANGED <<env, completion, monitor, leader, status>>
        BY <1>1, <1>2, <1>4 DEF JoinSession, ThreadsGone, Goto, Quiet, HonestInv, SessionInv, proc, mem
    <2> QED
        BY <1>1, <2>1, HonestLeaves DEF Leaving, Last
<1>5. CASE Drained
    <2>1. seen = 4 /\ signals = <<>>
        BY <1>1, <1>5 DEF Drained, Goto, HonestInv, OutcomeInv
    <2>2. acked
        BY <1>2, <2>1 DEF Dialogue
    <2>3. pc' = "finish" /\ Quiet /\ UNCHANGED <<env, completion, monitor, leader, status>>
        BY <1>5, <2>2 DEF Drained, Goto, Quiet, proc, mem
    <2> QED
        BY <1>1, <2>1, <2>2, <2>3, HonestLeaves DEF Leaving, Last
<1>6. CASE Drain
    <2>1. seen = 4 /\ signals = <<Msg("ack")>> /\ ~acked
        BY <1>1, <1>2, <1>6 DEF Drain, HonestInv, OutcomeInv, Dialogue, Silence
    <2>2. Signal = Msg("ack") /\ Tail(signals) = <<>>
        BY <2>1 DEF Signal
    <2>3. Msg("ack").kind = "ack"
        BY DEF Msg
    <2>4. /\ signals' = <<>> /\ acked' /\ UNCHANGED <<pc, completion, complete, ready>>
          /\ UNCHANGED <<env, proc, mem, out, worker, link, commands, commandsOpen, reader, writer,
                         sawLifecycle, sawComplete>>
        BY <1>6, <2>2, <2>3 DEF Drain
    <2>5. Dialogue'
        BY <1>2, <2>1, <2>4 DEF Dialogue, Silence, worker, link
    <2>6. WrittenInv'
        BY <2>4 DEF HonestInv, WrittenInv, worker
    <2>7. SessionInv'
        BY <1>1, <1>2, <2>1, <2>4, <2>5 DEF HonestInv, SessionInv, worker, link
    <2>8. OutcomeInv'
        BY <1>1, <1>6, <2>4 DEF HonestInv, OutcomeInv, Drain, Polling, Leaving, Last, proc, mem, worker, link
    <2> QED
        BY <2>6, <2>7, <2>8 DEF HonestInv
<1>7. CASE FinishStatus
    <2>1. complete <= MaxCode /\ Agrees
        BY <1>2 DEF Agrees, IInv, GoInv
    <2>2. ~(complete > MaxCode)
        BY <1>2, <2>1
    <2>3. FinishWith(ReportAs("exited", [code |-> complete, signal |-> 0], "none"), complete) /\ Quiet
        BY <1>7, <2>1, <2>2 DEF FinishStatus, Quiet
    <2>4. report.termination = "none" /\ ~killError /\ ~armed
        BY <1>1, <1>7 DEF FinishStatus, IInv, CoreInv, ReportInv, ProcInv, Closing, Last, NoReport, CleanupErrorsKept
    <2>5. /\ pc = "finish" /\ pc' = "drop" /\ UNCHANGED <<env, completion, monitor, leader, status, armed>>
          /\ result' = complete
          /\ report'.termination = (IF HasReport THEN "exited" ELSE "none")
        BY <1>2, <2>3, <2>4 DEF FinishWith, Goto, ReportAs, proc, mem
    <2> QED
        BY <1>1, <1>2, <2>3, <2>4, <2>5, HonestLeaves DEF HonestInv, OutcomeInv, Leaving, Last
<1> QED
    BY <1>3, <1>4, <1>5, <1>6, <1>7

\* Every step keeps an honest run on its way.
LEMMA HonestNext ==
    ASSUME Codes \cup {FAILURE} \subseteq 0 .. MaxCode, Killed \notin Statuses,
           IInv, Honest => HonestInv, [Next]_vars
    PROVE  (Honest => HonestInv)'
<1>1. CASE Main
    <2> SUFFICES ASSUME Honest' PROVE HonestInv'
        OBVIOUS
    <2>1. Honest /\ HonestInv
        BY <1>1, HonestMainBefore
    <2>2. CASE Start
        BY <2>1, <2>2, HonestStart
    <2>3. CASE Accepting \/ Supervising
        BY <2>1, <2>3, HonestAccept, HonestAuth, HonestPoll, HonestSignal DEF Accepting, Supervising
    <2>4. CASE Ending
        BY <2>1, <2>4, HonestCleanup, HonestEnd DEF Ending
    <2> QED
        BY <1>1, <2>2, <2>3, <2>4 DEF Main
<1>2. CASE Threads \/ Late
    BY <1>2, HonestThreads
<1>3. CASE (Monitoring \/ (\E t \in Listeners : Requesting(t)) \/ Elapse \/ Fork \/ GroupEnds) /\ Quiet
    BY <1>3, HonestOthers
<1>4. CASE GoSide \/ AnySide
    BY <1>4, HonestConnect, HonestServe, HonestExit DEF GoSide, AnySide
<1>5. CASE \E d \in Decoys : DecoyDial(d)
    BY <1>5, HonestConnect
<1>6. CASE Terminated \/ UNCHANGED vars
    BY <1>6 DEF Terminated, vars, core, proc, canc, mem, out, worker, session, link, loop, threads, Honest,
                Crashed, HonestInv, WrittenInv, SessionInv, OutcomeInv, Dialogue, Silence, InBacklog, HasReport
<1> QED
    BY <1>1, <1>2, <1>3, <1>4, <1>5, <1>6 DEF Next, World

\* A Go worker is never failed by a race, whatever other processes connect
\* to the endpoint and in whatever order the supervisor sees its records and
\* its exit (accept_worker, supervise_session, serveWorker), for every code
\* that a wait status can hold.  Assumed are completions that fit an i32 and
\* that nobody but the supervisor sends SIGKILL.
THEOREM HonestSucceeds ==
    ASSUME Codes \cup {FAILURE} \subseteq 0 .. MaxCode, Killed \notin Statuses
    PROVE  Spec => []HonestRunSucceeds
<1>1. Init => (Honest => HonestInv)
    BY DEF Init, CoreInit, WorkerInit, HonestInv, WrittenInv, SessionInv, OutcomeInv, Early
<1>2. IInv /\ (Honest => HonestInv) /\ [Next]_vars => (Honest => HonestInv)'
    BY HonestNext
<1>3. IInv /\ (Honest => HonestInv) => HonestRunSucceeds
    <2> SUFFICES ASSUME IInv, Honest => HonestInv,
                        pc = "done", who = "go", leader # "none", Faults = {}, cause = "none", ~elapsed,
                        expired = {}, ~Crashed, wcode = ExitStatus(wcode)
                 PROVE  result = wcode /\ report.termination = (IF HasReport THEN "exited" ELSE "none")
        BY DEF HonestRunSucceeds
    <2>1. HonestInv
        BY DEF Honest
    <2> QED
        BY <2>1 DEF HonestInv, OutcomeInv, Last
<1> QED
    BY <1>1, <1>2, <1>3, Invariance, PTL DEF Spec
=============================================================================
